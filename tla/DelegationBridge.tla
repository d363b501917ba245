--------------------------- MODULE DelegationBridge ---------------------------
(***************************************************************************)
(* The agent-to-agent bridge (tool/a2a_bridge.py) and the protocol adapter *)
(* beside it (tool/a2a_protocol_v1.py).  A bridge process verifies a       *)
(* signed registry and a signed delegation, derives an authority, runs the *)
(* registered agent once and reconciles what it answers.  The bridge keeps *)
(* nothing between two invocations.  The adapter reconciles streams of     *)
(* task snapshots that may be repeated, late or reordered.  Of a number of   *)
(* steps, and of an idempotency key, 0 and "" stand for what is absent.       *)
(***************************************************************************)
EXTENDS SignedManifest, FiniteSets, Sequences

CONSTANTS
    Bridges,        \* concurrent bridge processes
    Delegations,    \* envelopes whose payload is a delegation grant
    BridgeRequests, \* requests with their contract
    Registered,     \* agent id -> registered descriptor
    Responses,      \* what an agent may write
    BridgeKeys,     \* the trust store
    Streams,        \* sequences of task snapshots that may arrive
    MostSteps,      \* what no delegation exceeds: 1024
    NoResponse,
    MaxBridgeTime

VARIABLES
    bridgeAt,       \* process -> "start", "verified", "answered", "printed" or an error
    invocation,     \* process -> [delegation, request]
    answer,         \* process -> the agent's response
    bridgeTime,
    task,           \* the adapter's last snapshot, or NoResponse
    told            \* history, and read by no action: the snapshots its caller was handed

bridgeVars == <<bridgeAt, invocation, answer, bridgeTime, task, told>>

ASSUME BridgeAssumption ==
    /\ \A d \in Delegations : d.payload.steps \in Int
    /\ \A req \in BridgeRequests : req.steps \in Int
    /\ \A r \in Responses : r.steps \in Int
    /\ MaxBridgeTime \in Nat /\ MostSteps \in Nat \ {0}
    /\ \A events \in Streams :
          /\ Len(events) \in Nat \ {0} /\ DOMAIN events = 1 .. Len(events)
          /\ \A i \in DOMAIN events : events[i] # NoResponse /\ events[i].revision \in Int

BridgeErrors == {"refused", "failed", "outcome_unknown", "response_refused"}
TerminalStates == {"completed", "failed", "canceled", "unknown"}

\* resolve_agent: exactly one entry, whose descriptor has the registered digest.
ResolvedAgent(agent) == agent \in DOMAIN Registered /\ Registered[agent].digest

Min2(a, b) == IF a <= b THEN a ELSE b
Max2(a, b) == IF a >= b THEN a ELSE b

\* maxSteps of the grant and of the contract: at least one, and as many as granted
\* where the contract names none.
GrantSteps(grant) == Max2(1, Min2(IF grant.steps = 0 THEN 1 ELSE grant.steps, MostSteps))
RequestSteps(req, grant) == Max2(1, IF req.steps = 0 THEN GrantSteps(grant) ELSE req.steps)

\* validate_delegation: the request stays inside the grant and the descriptor.
WithinDelegation(req, grant, descriptor) ==
    /\ grant.agent = req.agent /\ grant.task = req.task
    /\ req.capabilities \subseteq grant.capabilities \cap descriptor.capabilities
    /\ req.inputs \subseteq grant.inputs /\ req.outputs \subseteq grant.outputs
    /\ req.network \subseteq grant.network \cap descriptor.network
    /\ req.secrets = {}              \* the bridge has no secret broker
    /\ ~grant.downstream
    /\ grant.deadline > bridgeTime
    /\ RequestSteps(req, grant) <= GrantSteps(grant)
    /\ grant.idempotency # "" /\ req.idempotency \in {"", grant.idempotency}
    /\ descriptor.mode \in {"isolated", "owner_host"}
    /\ descriptor.mode = "owner_host" => grant.hostExecution
    /\ descriptor.mode = "isolated" => req.network = {}

BridgeInit ==
    /\ bridgeAt = [b \in Bridges |-> "start"]
    /\ invocation = [b \in Bridges |-> NoResponse]
    /\ answer = [b \in Bridges |-> NoResponse]
    /\ bridgeTime = 0
    /\ task = NoResponse /\ told = {}

MoveBridge(b, from, to) ==
    /\ bridgeAt[b] = from
    /\ bridgeAt' = [bridgeAt EXCEPT ![b] = to]
    /\ UNCHANGED <<bridgeTime, task, told>>

\* main up to validate_delegation.
VerifyInvocation(b, d, req) ==
    /\ MoveBridge(b, "start",
          IF /\ VerifyManifest(d, BridgeKeys, bridgeTime, "a2a_delegation_grant", "kristin.a2a")
             /\ ResolvedAgent(req.agent)
             /\ WithinDelegation(req, d.payload, Registered[req.agent])
          THEN "verified" ELSE "refused")
    /\ invocation' = [invocation EXCEPT ![b] = [delegation |-> d, request |-> req]]
    /\ UNCHANGED answer

\* _host_execute and _isolated_execute: the agent answers, fails, or runs into the
\* time limit after it began, and then nobody knows what it did.
ExecuteAgent(b, r) ==
    /\ MoveBridge(b, "verified", "answered")
    /\ answer' = [answer EXCEPT ![b] = r]
    /\ UNCHANGED invocation

AgentFails(b, error) ==
    /\ MoveBridge(b, "verified", error)
    /\ UNCHANGED <<invocation, answer>>

\* Mutant: a completed task need not have delivered what was asked for.
Reconciles_Partial(req, grant, r) ==
    /\ r.task = req.task
    /\ r.used \subseteq req.capabilities
    /\ r.outputs \subseteq req.outputs
    /\ r.steps \in 0 .. Min2(RequestSteps(req, grant), GrantSteps(grant))

\* reconcile_response, against the authority derived above.
Reconciles(req, grant, r) ==
    /\ r.task = req.task
    /\ r.used \subseteq req.capabilities
    /\ r.outputs \subseteq req.outputs
    /\ r.steps \in 0 .. Min2(RequestSteps(req, grant), GrantSteps(grant))
    /\ r.state = "completed" => req.outputs \subseteq r.outputs

ReconcileResponse(b) ==
    /\ MoveBridge(b, "answered",
          IF Reconciles(invocation[b].request, invocation[b].delegation.payload, answer[b])
          THEN "printed" ELSE "response_refused")
    /\ UNCHANGED <<invocation, answer>>

BridgeTick ==
    /\ bridgeTime < MaxBridgeTime
    /\ bridgeTime' = bridgeTime + 1
    /\ UNCHANGED <<bridgeAt, invocation, answer, task, told>>

-----------------------------------------------------------------------------
\* Mutant: a terminal state may change.
Follows_Terminal(s, last) ==
    last # NoResponse => s.id = last.id /\ s.revision > last.revision

\* A snapshot of another task, a revision that is not newer, or a terminal state that
\* changes is refused.
Follows(s, last) ==
    last # NoResponse =>
        /\ s.id = last.id
        /\ s.revision > last.revision
        /\ last.state \in TerminalStates => s.state = last.state

\* reconcile_stream: one refused snapshot ends the stream with an error, and its caller
\* keeps what it had before, not the snapshots that came before the refused one.
ReconcileStream(events) ==
    /\ \A i \in DOMAIN events : Follows(events[i], IF i = 1 THEN task ELSE events[i - 1])
    /\ task' = events[Len(events)] /\ told' = told \cup {events[Len(events)]}
    /\ UNCHANGED <<bridgeAt, invocation, answer, bridgeTime>>

\* classify_disconnect
StateAfterDisconnect ==
    IF task = NoResponse \/ task.state \notin TerminalStates THEN "unknown" ELSE task.state

BridgeNext ==
    \/ \E b \in Bridges :
          \/ \E d \in Delegations, req \in BridgeRequests : VerifyInvocation(b, d, req)
          \/ \E r \in Responses : ExecuteAgent(b, r)
          \/ \E error \in {"failed", "outcome_unknown"} : AgentFails(b, error)
          \/ ReconcileResponse(b)
    \/ BridgeTick
    \/ \E events \in Streams : ReconcileStream(events)

BridgeSpec == BridgeInit /\ [][BridgeNext]_bridgeVars

-----------------------------------------------------------------------------
BridgeTypeOK ==
    /\ bridgeAt \in [Bridges -> {"start", "verified", "answered", "printed"} \cup BridgeErrors]
    /\ \A b \in Bridges :
          /\ answer[b] \in Responses \cup {NoResponse}
          /\ bridgeAt[b] # "start" => invocation[b].request \in BridgeRequests
    /\ bridgeTime \in 0 .. MaxBridgeTime
    /\ \A s \in told \cup {task} : s # NoResponse => \E events \in Streams : s = events[Len(events)]

\* What the bridge prints is inside every authority at once: what the agent says it
\* used, the artifacts and the steps are within the signed delegation, the contract and the
\* registered descriptor, where a delegation that names no positive number of steps is one
\* of a single step, and a completed task delivered all it was asked for
\* (validate_delegation, reconcile_response).  And whatever a remote task's streams bring
\* twice, late or out of order, the caller is never handed anything that takes back what it
\* was handed: another task, an older revision, or another end; nor does a lost connection
\* (reconcile_stream, classify_disconnect).
PrintedWithinDelegation ==
    /\ \A b \in Bridges : bridgeAt[b] = "printed" =>
           LET req == invocation[b].request
               g == invocation[b].delegation.payload
               d == Registered[req.agent]
               r == answer[b]
           IN /\ r.used \subseteq g.capabilities \cap d.capabilities
              /\ r.outputs \subseteq g.outputs
              /\ r.steps >= 0 /\ r.steps <= MostSteps
              /\ r.steps <= 1 \/ (r.steps <= g.steps /\ (req.steps = 0 \/ r.steps <= req.steps))
              /\ r.task = g.task
              /\ r.state = "completed" => req.outputs \subseteq r.outputs
    /\ \A s \in told :
           /\ s.id = task.id /\ s.revision <= task.revision
           /\ s.revision = task.revision => s = task
           /\ s.state \in TerminalStates => StateAfterDisconnect = s.state
=============================================================================
