CONSTANTS
    NoSignature = NoSignature
    Grants <- MCGrants
    GrantCalls <- MCGrantCalls
    Invocations <- MCInvocations
    HostKeys = {"k1"}
    Actors = {"owner_executor"}
    Profiles = {"project"}
    Unbound = Unbound
    MaxClock = 2
    Handlers = {h1, h2}
    IpcRequests <- MCIpcRequests
    PeerKeys <- MCPeerKeys
    NoEnvelope = NoEnvelope
    MaxIpcTime = 2
    Brokers = {b1, b2}
    Secrets = {"s1", "s2"}
    SecretOwner <- MCSecretOwner
    Callers = {"sandbox", "stranger"}
    Anyone = "nobody"
    Lifetime = 1
    MaxSecretTime = 2
    MaxDeaths = 1
    Effects = {e1, e2}
    EffectCalls <- MCEffectCalls
    OwnerProfiles = {"owner"}
    NoCall = NoCall
    NoContent = NoContent
    Original = Original
    Foreign = Foreign
    MaxEffectTime = 1
    MaxEffectFaults = 1
    MaxEdits = 1
    Candidates <- MCCandidates
    ExtensionKeys <- MCExtensionKeys
    KeyHandles <- MCKeyHandles
    NotInstalled = NotInstalled
    MaxExtensionTime = 2
    PolicyRequests <- MCPolicyRequests
    AccessProfiles <- MCAccessProfiles
    Registry <- MCRegistry
    Context <- MCContext
    BudgetCeiling <- MCBudgets
    Zone <- MCZone
    NoRequest = NoRequest
    SandboxModes = {"snapshot_writable", "read_only", "anything_else"}
    Bridges = {d1}
    Delegations <- MCDelegations
    BridgeRequests <- MCBridgeRequests
    Registered <- MCRegistered
    Responses <- MCResponses
    BridgeKeys <- MCBridgeKeys
    Streams <- MCStreams
    MostSteps = 2
    NoResponse = NoResponse
    MaxBridgeTime = 1
SPECIFICATION Spec
INVARIANTS
    TypeOK
    GrantNotStretched
    SecretReleasedOnce
    EffectsWithinGrant
    AuthorityOnlyNarrows
    SandboxContained
    PrintedWithinDelegation
PROPERTIES
    AnsweredNotReplayed
    UndoReturnsBefore
CHECK_DEADLOCK FALSE
