---------------------------- MODULE Interoperability ----------------------------
(***************************************************************************)
(* Administration of what is connected to the product:                     *)
(* tool/interoperability_admin_v19.py (manifests, MCP servers, contracts   *)
(* with remote agents, updates, the audit chain),                          *)
(* tool/signed_audit_checkpoint.py, tool/mcp_stdio_bridge.py and the       *)
(* disabled protocol of tool/interoperability_v19.py.  A digest is modelled *)
(* by what it is computed of.  Who edits the stored audit is external.     *)
(***************************************************************************)
EXTENDS Integers, FiniteSets, SequencesExt

CONSTANTS
    Policies,           \* the built-in policy profiles, by name
    FleetChannels, CapabilityManifests, McpManifests, McpRequests, Contracts, ContractAnswers,
    UpdateManifests, SignerSecrets, \* signer -> secret
    AuditPayloads,
    MaxRecords, MaxCheckpoints, MaxAlterations, Unset

VARIABLES
    admin,              \* the last decision of each check
    bridgeServer,       \* the one-shot bridge and the server it starts
    auditTrail,         \* [written, stored, checkpoints, taken]
    alterations

ASSUME InteropAssumption == MaxAlterations \in Nat

interopVars == <<admin, bridgeServer, auditTrail, alterations>>

-----------------------------------------------------------------------------
(* Signatures, manifests and policies.                                     *)

\* verify_signature
SignatureVerdict(payload, s) ==
    IF s.signer \notin DOMAIN SignerSecrets THEN "unknown_signer"
    ELSE IF ~s.algorithm THEN "unsupported_signature_algorithm"
    ELSE IF s.digest # payload THEN "payload_sha256_mismatch"
    ELSE IF s.mac # <<SignerSecrets[s.signer], payload>> THEN "signature_mismatch"
    ELSE "signature_verified"

DataBoundaries == {"local", "private_remote", "public_cloud"}
ApprovalLevels == {"none", "reviewed", "explicit", "enterprise"}

\* CapabilityManifest.create and verify_manifest
ManifestVerdict(m) ==
    IF m.kind \notin {"plugin", "skill", "agent"} \/ m.boundary \notin DataBoundaries
       \/ m.approval \notin ApprovalLevels \/ m.capabilities = {}
    THEN "manifest_invalid" ELSE SignatureVerdict(m.title, m.signature)

\* FleetProfile.overlay only compares the channel: nothing else of the fleet narrows.
Overlaid(policy, channel) == IF channel \in policy.channels THEN policy ELSE Unset

\* McpServerManifest.create
McpManifestValid(m) ==
    /\ m.transport \in {"local_stdio", "remote_https"}
    /\ m.transport = "local_stdio" => m.executable
    /\ m.transport = "remote_https" => m.https
    /\ m.tools \cap m.resources = {} /\ m.tools \cap m.prompts = {} /\ m.resources \cap m.prompts = {}

\* McpLifecycleController.negotiate
NegotiationVerdict(policy, m, r) ==
    IF ~McpManifestValid(m) THEN "manifest_invalid"
    ELSE IF m.transport = "remote_https" /\ ~policy.remoteMcp THEN "remote_blocked"
    ELSE IF m.transport = "local_stdio" /\ ~m.sandboxed THEN "sandbox_required"
    ELSE IF ~r.initialized THEN "initialize_invalid"
    ELSE IF ~(r.roots \subseteq m.roots) THEN "root_not_allowed"
    ELSE "negotiated"

\* authorize_operation
OperationAllowed(m, kind, name) ==
    CASE kind = "tool" -> name \in m.tools
      [] kind = "resource" -> name \in m.resources
      [] kind = "prompt" -> name \in m.prompts
      [] OTHER -> FALSE

\* A2ADelegationController.build_contract
ContractVerdict(policy, c) ==
    IF ~policy.a2a THEN "blocked"
    ELSE IF c.boundary \notin DataBoundaries \/ (c.boundary = "public_cloud" /\ ~policy.publicCloud)
         THEN "boundary"
    ELSE IF c.approval \notin ApprovalLevels THEN "approval"
    ELSE IF c.capabilities = {} \/ "fly" \in c.capabilities THEN "capability"
    ELSE IF c.projectAccess THEN "project_access"
    ELSE "contract"

\* validate_response
AnswerWithin(c, a) ==
    /\ a.artifacts \subseteq c.outputs /\ a.used \subseteq c.capabilities
    /\ a.bytes <= c.bytes /\ a.turns <= c.turns

\* UpdatePolicyVerifier.verify
UpdateVerdict(policy, m, current, installer) ==
    IF ~policy.updates \/ m.channel \notin policy.channels THEN "blocked"
    ELSE IF policy.signed /\ SignatureVerdict(m.release, m.signature) # "signature_verified"
         THEN SignatureVerdict(m.release, m.signature)
    ELSE IF current \notin m.upgradeFrom \/ m.rollback \notin m.rollbackTo THEN "unsupported_version"
    ELSE IF ~installer THEN "installer_missing"
    ELSE "verified"

-----------------------------------------------------------------------------
(* AuditChain.                                                             *)

Genesis == <<>>

RecordDigest(r) == <<r.index, r.payload, r.previous>>

NewRecord(records, payload) ==
    LET previous == IF records = <<>> THEN Genesis ELSE Last(records).hash
        body == [index |-> Len(records) + 1, payload |-> payload, previous |-> previous]
    IN [index |-> body.index, payload |-> payload, previous |-> previous, hash |-> RecordDigest(body),
        signature |-> <<"signed", RecordDigest(body)>>]

\* Mutant: the link to the record before is not compared.
ChainVerified_Unlinked(records) ==
    \A i \in DOMAIN records :
        /\ records[i].hash = RecordDigest(records[i])
        /\ records[i].signature = <<"signed", RecordDigest(records[i])>>

\* verify
ChainVerified(records) ==
    \A i \in DOMAIN records :
        /\ records[i].previous = IF i = 1 THEN Genesis ELSE records[i - 1].hash
        /\ records[i].hash = RecordDigest(records[i])
        /\ records[i].signature = <<"signed", RecordDigest(records[i])>>

-----------------------------------------------------------------------------
(* Signed checkpoints over the chain.                                      *)

CheckpointBody(c) == <<c.sequence, c.count, c.previous, c.head>>
CheckpointHash(c) == <<CheckpointBody(c), c.signature>>

NewCheckpointAfter(checkpoints, records) ==
    LET previous == IF checkpoints = <<>> THEN Genesis ELSE CheckpointHash(Last(checkpoints))
        body == [sequence |-> Len(checkpoints) + 1, count |-> Len(records), previous |-> previous,
                 head |-> Last(records).hash]
    IN [sequence |-> body.sequence, count |-> body.count, previous |-> body.previous, head |-> body.head,
        signature |-> <<"checkpoint", CheckpointBody(body)>>]

\* verify_chain
CheckpointsVerified(checkpoints, head) ==
    /\ \A i \in DOMAIN checkpoints :
          /\ checkpoints[i].sequence = i
          /\ checkpoints[i].count > IF i = 1 THEN 0 ELSE checkpoints[i - 1].count
          /\ checkpoints[i].previous = IF i = 1 THEN Genesis ELSE CheckpointHash(checkpoints[i - 1])
          /\ checkpoints[i].signature = <<"checkpoint", CheckpointBody(checkpoints[i])>>
    /\ checkpoints # <<>> /\ Last(checkpoints).head = head

-----------------------------------------------------------------------------
InteropInit ==
    /\ admin = [manifest |-> Unset, fleet |-> Unset, mcp |-> Unset, operation |-> Unset,
                contract |-> Unset, answer |-> Unset, update |-> Unset, legacy |-> Unset]
    /\ bridgeServer = [at |-> "start", server |-> "none", method |-> "none"]
    /\ auditTrail = [written |-> <<>>, stored |-> <<>>, checkpoints |-> <<>>, taken |-> {}]
    /\ alterations = 0

OtherInterop == UNCHANGED <<bridgeServer, auditTrail, alterations>>

Decides(check, finding) ==
    /\ admin[check] = Unset
    /\ admin' = [[c \in DOMAIN admin |-> Unset] EXCEPT ![check] = finding]
    /\ OtherInterop

CheckManifest(m) == Decides("manifest", ManifestVerdict(m))
OverlayFleet(p, channel) == Decides("fleet", <<"policy", Overlaid(Policies[p], channel)>>)
Negotiate(p, m, r) == Decides("mcp", NegotiationVerdict(Policies[p], m, r))
AuthorizeOperation(m, kind, name) == Decides("operation", OperationAllowed(m, kind, name))
BuildContract(p, c) == Decides("contract", ContractVerdict(Policies[p], c))
ValidateAnswer(c, a) == Decides("answer", AnswerWithin(c, a))
CheckUpdate(p, m, current, installer) ==
    Decides("update", UpdateVerdict(Policies[p], m, current, installer))
\* Every operation of the v1 protocol raises.
LegacyOperation(operation) == Decides("legacy", <<"v1_trust_disabled", operation>>)

\* The bridge starts the server, initializes it and asks for one operation.  An answer
\* with another identity, a notification included, an error or the end of the output
\* ends it, and the server is terminated whatever happened.
BridgeStarts ==
    /\ bridgeServer.at = "start"
    /\ bridgeServer' = [at |-> "initialize", server |-> "running", method |-> "initialize"]
    /\ UNCHANGED <<admin, auditTrail, alterations>>

BridgeAnswered(answer, operation) ==
    /\ bridgeServer.at \in {"initialize", "operation"}
    /\ bridgeServer' =
         IF answer # "result" THEN [bridgeServer EXCEPT !.at = "failed"]
         ELSE IF bridgeServer.at = "operation" \/ operation = "initialize" THEN [bridgeServer EXCEPT !.at = "printed"]
         ELSE [bridgeServer EXCEPT !.at = "operation", !.method = operation]
    /\ UNCHANGED <<admin, auditTrail, alterations>>

BridgeEnds ==
    /\ bridgeServer.at \in {"failed", "printed"} /\ bridgeServer.server = "running"
    /\ bridgeServer' = [bridgeServer EXCEPT !.server = "ended"]
    /\ UNCHANGED <<admin, auditTrail, alterations>>

AppendRecord(payload) ==
    /\ Len(auditTrail.written) < MaxRecords /\ auditTrail.stored = auditTrail.written
    /\ LET records == Append(auditTrail.written, NewRecord(auditTrail.written, payload)) IN
       auditTrail' = [auditTrail EXCEPT !.written = records, !.stored = records]
    /\ UNCHANGED <<admin, bridgeServer, alterations>>

TakeCheckpoint ==
    /\ Len(auditTrail.checkpoints) < MaxCheckpoints
    /\ auditTrail.stored = auditTrail.written /\ auditTrail.stored # <<>>
    /\ auditTrail.checkpoints # <<>> => Last(auditTrail.checkpoints).count < Len(auditTrail.stored)
    /\ auditTrail' = [auditTrail EXCEPT
           !.checkpoints = Append(@, NewCheckpointAfter(@, auditTrail.stored)),
           !.taken = @ \cup {Len(auditTrail.stored)}]
    /\ UNCHANGED <<admin, bridgeServer, alterations>>

\* What is stored loses, repeats, exchanges or changes an entry, or keeps its beginning.
Altered(seq) ==
    {RemoveAt(seq, i) : i \in DOMAIN seq}
    \cup {[seq EXCEPT ![i] = seq[j]] : i, j \in DOMAIN seq}
    \cup {[seq EXCEPT ![i] = seq[j], ![j] = seq[i]] : i, j \in DOMAIN seq}

Recorded(seq, payload) ==
    {[seq EXCEPT ![i].payload = payload] : i \in DOMAIN seq}
    \cup {[seq EXCEPT ![i].payload = payload, ![i].hash = <<i, payload, seq[i].previous>>] : i \in DOMAIN seq}

Alter ==
    /\ alterations < MaxAlterations
    /\ alterations' = alterations + 1
    /\ \/ \E seq \in Altered(auditTrail.stored)
                     \cup UNION {Recorded(auditTrail.stored, p) : p \in AuditPayloads} :
             auditTrail' = [auditTrail EXCEPT !.stored = seq]
       \/ \E seq \in Altered(auditTrail.checkpoints) : auditTrail' = [auditTrail EXCEPT !.checkpoints = seq]
    /\ UNCHANGED <<admin, bridgeServer>>

AdminNext ==
    \/ \E m \in CapabilityManifests : CheckManifest(m)
    \/ \E p \in DOMAIN Policies :
          \/ \E channel \in FleetChannels : OverlayFleet(p, channel)
          \/ \E m \in McpManifests, r \in McpRequests : Negotiate(p, m, r)
          \/ \E c \in Contracts : BuildContract(p, c)
          \/ \E m \in UpdateManifests, current \in {1, 2}, installer \in BOOLEAN :
                CheckUpdate(p, m, current, installer)
    \/ \E m \in McpManifests, kind \in {"tool", "resource", "prompt", "file"}, name \in {"t", "r"} :
          AuthorizeOperation(m, kind, name)
    \/ \E c \in Contracts, a \in ContractAnswers : ValidateAnswer(c, a)
    \/ \E operation \in {"generate_signing_keypair", "sign_manifest", "verify_signed_manifest"} :
          LegacyOperation(operation)

StdioNext ==
    \/ BridgeStarts
    \/ \E answer \in {"result", "other_id", "error", "closed"},
          operation \in {"initialize", "list_tools", "call_tool"} : BridgeAnswered(answer, operation)
    \/ BridgeEnds

AuditNext == (\E payload \in AuditPayloads : AppendRecord(payload)) \/ TakeCheckpoint \/ Alter

InteropNext == AdminNext \/ StdioNext \/ AuditNext

InteropSpec == InteropInit /\ [][InteropNext]_interopVars

-----------------------------------------------------------------------------
InteropTypeOK ==
    /\ bridgeServer.at \in {"start", "initialize", "operation", "printed", "failed"}
    /\ bridgeServer.server \in {"none", "running", "ended"}
    /\ \A i \in DOMAIN auditTrail.written : auditTrail.written[i].index = i
    /\ alterations \in 0 .. MaxAlterations

\* Whatever happened to the stored records and checkpoints, a chain that verifies is a
\* beginning of what was appended, unchanged and in order, and one whose head is that of
\* verified checkpoints ends exactly where a checkpoint was really taken
\* (AuditChain.verify, verify_chain).
AlterationDetected ==
    ChainVerified(auditTrail.stored) =>
        /\ IsPrefix(auditTrail.stored, auditTrail.written)
        /\ (/\ auditTrail.stored # <<>>
            /\ CheckpointsVerified(auditTrail.checkpoints, Last(auditTrail.stored).hash)) =>
              Len(auditTrail.stored) \in auditTrail.taken
=============================================================================
