----------------------------- MODULE PhaseEvidence -----------------------------
(***************************************************************************)
(* What counts as evidence that a task works (tool/p2_evidence_contract.py, *)
(* tool/p2_p1a_dependency.py): a signed graph of documents about the         *)
(* isolated authority service, a receipt per platform, an owner's approval   *)
(* and an independent review.  A digest is modelled by the document it is    *)
(* computed of, a signature by the key and what was signed.                  *)
(*                                                                           *)
(* The records of a phase (tool/p2_prepare_evidence.py,                      *)
(* tool/p2_finalize_evidence.py, tool/p2_task_gate.py,                       *)
(* tool/p2_evidence_state.py): one manifest, approval note and completed     *)
(* packet per task and one manifest of the phase, all written one after the  *)
(* other by a command that may stop between any two.                         *)
(***************************************************************************)
EXTENDS Integers, FiniteSets, Sequences

CONSTANTS
    EvidencePlatforms,   \* windows, macos, linux
    PhaseTasks,          \* the tasks of the phase, in order
    RequiredAssertions,  \* task -> the assertions it needs on every platform
    ProductAssertion,    \* task -> the one observed through the product, or NoAssertion
    NoAssertion, NoObservation,
    FinalizeRequests,  \* arguments: [commit, base, receipts, owner, review, baseReceipt]
    TaskDependencies,  \* task -> tasks whose manifest the gate looks for
    DeclaredStates,    \* what release/evidence/P2*/state.json may declare
    NoPacket, MaxCommands, MaxTreeEdits

VARIABLES
    manifests,         \* task -> [status, commit, receipts, annotated]
    notes,             \* task -> "pending" or "approved"
    packets,           \* task -> commit named in tasks/completed, or NoPacket
    phase,             \* the manifest of the phase: [status, commit, annotated]
    decisionRecord,    \* commit of the accepted technology decision, or NoPacket
    missing,           \* tasks one of whose declared files is not there
    localResults,      \* task -> status of its test-results.json
    declared,          \* the two state records: [task, phase]
    evidenceCommand,   \* the command that runs
    evidenceOutcome,   \* how the last one ended
    commandsRun, treeEdits

\* Each task of the phase says which assertions it needs.
ASSUME PhaseAssumption ==
    /\ PhaseTasks \in Seq(DOMAIN RequiredAssertions)
    /\ {MaxCommands, MaxTreeEdits} \subseteq Nat

evidenceVars == <<manifests, notes, packets, phase, decisionRecord, missing, localResults,
                  declared, evidenceCommand, evidenceOutcome, commandsRun, treeEdits>>

-----------------------------------------------------------------------------
(* Signatures: _trusted_key, verify_ed25519_document, verify_service_receipt *)

TrustedKeys(trust, id) == {k \in trust.keys : k.id = id}

DocumentSigned(document, trust, purpose, platform) ==
    /\ document.signature.algorithm = "ed25519" /\ document.signature.purpose = purpose
    /\ Cardinality(TrustedKeys(trust, document.signature.keyId)) = 1
    /\ \A k \in TrustedKeys(trust, document.signature.keyId) :
          /\ k.algorithm = "ed25519" /\ purpose \in k.purposes /\ platform \in k.platforms
          /\ document.signature.key = k.key
    /\ document.signature.over = document.body

\* The service signs with a key that the receipt itself names.
ServiceSigned(document) ==
    /\ document.signature.algorithm = "ecdsa-p256-sha256"
    /\ document.signature.nonExportable /\ document.signature.over = document.body

-----------------------------------------------------------------------------
(* validate_merged_p1a_graph                                               *)

SignedComponents ==
    {"runnerAttestation", "buildProvenance", "installerReceipt", "keyProviderReceipt",
     "workerDenialReceipt", "cleanupReceipt", "githubApiVerification"}
GraphComponents == SignedComponents \cup {"serviceBehaviorReceipt"}

ServiceEvents ==
    {"desktop-authenticated", "owner-approval-recorded", "effect-authorized",
     "effect-outcome-recorded", "request-replay-denied", "service-restarted"}

\* The merged manifest claims completion, and names the receipt and the trust it rests on.
ManifestAccepted(g, platform) ==
    /\ g.manifest.status = "passed" /\ g.manifest.completionClaim
    /\ g.manifest.independentReview = "approved" /\ g.manifest.ownerApproval = "approved"
    /\ \A p \in EvidencePlatforms : g.manifest.platformEvidence[p] = "passed"
    /\ g.manifest.receipt[platform] = g.receipt
    /\ g.manifest.trust = g.trust

ReceiptAccepted(g, platform) ==
    LET r == g.receipt.body IN
    /\ r.platform = platform /\ r.commit = g.manifest.commit
    /\ r.status = "passed" /\ r.completionEligible /\ ~r.synthetic
    /\ r.binding.commit = g.manifest.commit /\ r.binding.platform = platform
    /\ DocumentSigned(g.receipt, g.trust, "p1a-platform-receipt", platform)
    /\ r.artifact = g.artifactContent

\* Every component is the document the receipt names, is signed for its purpose, and
\* belongs to the run of the receipt.
ComponentsAccepted(g, platform) ==
    /\ \A c \in GraphComponents : g.receipt.body.components[c] = g.components[c]
    /\ \A c \in SignedComponents :
          /\ DocumentSigned(g.components[c], g.trust, c, platform)
          /\ g.components[c].body.status = "passed" /\ g.components[c].body.platform = platform
          /\ g.components[c].body.binding = g.receipt.body.binding
          /\ g.components[c].body.completionEligible
          /\ g.components[c].body.claims

\* The service's own receipt.
ServiceAccepted(g) ==
    LET s == g.components["serviceBehaviorReceipt"] IN
    /\ s.body.commit = g.manifest.commit /\ s.body.binding = g.receipt.body.binding
    /\ ServiceSigned(s)
    /\ ServiceEvents \subseteq s.body.events
    /\ s.body.claims /\ s.body.instance # ""

\* What was installed, ran, denied the worker and was removed is what was built.
Built(g) == g.components["buildProvenance"].body.built

BuildFollowed(g) ==
    LET installer == g.components["installerReceipt"].body
        denial == g.components["workerDenialReceipt"].body
        cleanup == g.components["cleanupReceipt"].body
        keys == g.components["keyProviderReceipt"].body
        service == g.components["serviceBehaviorReceipt"]
    IN /\ installer.installed = Built(g)
       /\ service.body.serviceBuild = Built(g).service
       /\ denial.launcher = Built(g).launcher
       /\ service.signature.attestation = keys.attestation
       /\ cleanup.uninstaller = Built(g).uninstaller

\* The capture of the workflow run, and the graph the manifest recorded for the platform.
RunRecorded(g, platform) ==
    LET github == g.components["githubApiVerification"].body IN
    /\ github.run = g.receipt.body.binding.run /\ github.head = g.manifest.commit
    /\ github.conclusion \in {"none", "success"}
    /\ \A c \in GraphComponents : g.manifest.graph[platform][c] = g.receipt.body.components[c]
    /\ g.manifest.liveSuccess[platform]

GraphAccepted(g, platform) ==
    /\ ManifestAccepted(g, platform) /\ ReceiptAccepted(g, platform)
    /\ ComponentsAccepted(g, platform) /\ ServiceAccepted(g) /\ BuildFollowed(g)
    /\ RunRecorded(g, platform)

\* The part of the graph a receipt of the phase repeats.
GraphSummary(g) ==
    [commit |-> g.manifest.commit, instance |-> g.components["serviceBehaviorReceipt"].body.instance,
     build |-> Built(g).service, launcher |-> Built(g).launcher]

-----------------------------------------------------------------------------
(* validate_platform_receipt                                               *)

\* _validate_product, _task_postcondition: an observation through the shipped product.
ObservationAccepted(o, task, platform, commit) ==
    /\ o.task = task /\ o.platform = platform /\ o.commit = commit /\ o.status = "passed"
    /\ o.entryPoint = "ProductRuntime.initialize" /\ ~o.fixtureAuthority
    /\ o.authorityIsolated /\ o.targetHostOperation
    /\ o.postconditions /\ o.activeProcesses = 0

\* _validate_assertion
AssertionAccepted(a, task, platform, commit) ==
    /\ a.task = task /\ a.platform = platform /\ a.status = "passed" /\ a.returnCode = 0
    /\ a.evidence = [id |-> a.id, task |-> task, platform |-> platform, commit |-> commit,
                     result |-> a.result]
    /\ ProductAssertion[task] = a.id =>
          /\ a.observation # NoObservation
          /\ ObservationAccepted(a.observation, task, platform, commit)

TaskAccepted(r, task) ==
    LET shown == r.tasks[task] IN
    /\ shown.status = "passed" /\ ~shown.sourceOnly /\ shown.returnCode = 0
    /\ shown.result = [task |-> task, platform |-> r.platform, commit |-> r.commit, status |-> "passed",
                     product |-> ProductAssertion[task] # NoAssertion]
    /\ {a.id : a \in shown.assertions} = RequiredAssertions[task]
    /\ \A a \in shown.assertions : AssertionAccepted(a, task, r.platform, r.commit)

\* _validate_p1a_service
AuthorityAccepted(r) ==
    /\ r.service.isolated /\ r.service.delegationOnly
    /\ GraphAccepted(r.service.graph, r.platform)
    /\ r.service.summary = GraphSummary(r.service.graph)

CleanupAccepted(r) ==
    /\ r.cleanup.status = "passed" /\ r.cleanup.binding = r.binding /\ r.cleanup.claims

PlatformReceiptAccepted(r, commit) ==
    /\ r.platform \in EvidencePlatforms /\ r.commit = commit
    /\ r.status = "passed" /\ ~r.sourceOnly /\ r.completionEligible /\ r.attested
    /\ r.artifact = r.artifactContent
    /\ r.binding.commit = commit /\ r.binding.run = r.run /\ r.binding.attempt >= 1
    /\ r.composed /\ AuthorityAccepted(r)
    /\ r.runnerVerified /\ CleanupAccepted(r)
    /\ (IF r.platform = "windows" THEN "windowsJobSupervisor" ELSE "posixWatchdog") \in r.binaries
    /\ "nativePtyProbe" \in r.binaries
    /\ DOMAIN r.tasks = {PhaseTasks[i] : i \in DOMAIN PhaseTasks}
    /\ \A t \in DOMAIN r.tasks : TaskAccepted(r, t)
    /\ ~r.synthetic

-----------------------------------------------------------------------------
(* validate_owner_approval, validate_review                                 *)

\* What is reviewed: a commit, the base it merges into, and the receipts' digests.
ApprovalAccepted(a, subject) ==
    /\ a.approved /\ a.commit = subject.commit /\ a.base = subject.base
    /\ a.acknowledged /\ a.owner # "" /\ ~a.synthetic

ReviewAccepted(v, subject, receipts) ==
    /\ v.independent /\ v.decision \in {"approve", "approve_with_conditions"} /\ v.reviewer # ""
    /\ v.commit = subject.commit /\ v.base = subject.base /\ v.receipts = receipts
    /\ v.openFindings = {} /\ v.conditions \subseteq v.satisfied
    /\ v.artifactIntact /\ ~v.synthetic

-----------------------------------------------------------------------------
(* The records of the phase.                                               *)

TasksOfPhase == {PhaseTasks[i] : i \in DOMAIN PhaseTasks}
NoCommand == [at |-> "idle"]
SourceOnly == [status |-> "source_only", commit |-> NoPacket, receipts |-> {}, annotated |-> TRUE]

Promoted(s) == s.phaseComplete \/ s.platformQualified \/ s.releaseSupported

\* validate_task_state: one decision is accepted, and nothing follows from it.
TaskStateAccepted(s) ==
    /\ s.task = "P2-004" /\ s.status = "accepted_decision" /\ s.claim = "VERIFIED_SOURCE"
    /\ s.measured /\ ~s.behaviorObserved /\ ~Promoted(s)
    /\ s.evidence = {"manifest", "spike", "diagnostic", "adr"} /\ s.supersedes = {"manifest", "spike"}
    /\ s.downstream = {}

\* validate_phase_state
PhaseStateAccepted(s) ==
    /\ s.status = "incomplete" /\ s.claim = "VERIFIED_SOURCE" /\ ~Promoted(s)
    /\ s.tasks = [t \in TasksOfPhase |-> IF t = "P2-004" THEN "accepted_decision" ELSE "source_only"]
    /\ s.decisions = {"P2-004"} /\ s.certified = {} /\ s.debts # {}

StateAccepted(d) ==
    /\ TaskStateAccepted(d.task) /\ PhaseStateAccepted(d.phase)
    /\ d.task.status = d.phase.tasks["P2-004"]

EvidenceInit ==
    /\ manifests = [t \in TasksOfPhase |-> SourceOnly]
    /\ notes = [t \in TasksOfPhase |-> "pending"]
    /\ packets = [t \in TasksOfPhase |-> NoPacket]
    /\ phase = [status |-> "source_only_not_complete", commit |-> NoPacket, annotated |-> TRUE]
    /\ decisionRecord = NoPacket
    /\ missing = {}
    /\ localResults = [t \in TasksOfPhase |-> "passed"]
    /\ declared \in DeclaredStates /\ StateAccepted(declared)
    /\ evidenceCommand = NoCommand /\ evidenceOutcome = "none"
    /\ commandsRun = 0 /\ treeEdits = 0

StartCommand(command) ==
    /\ evidenceCommand = NoCommand /\ commandsRun < MaxCommands
    /\ commandsRun' = commandsRun + 1
    /\ evidenceCommand' = command

EndCommand(outcome) == evidenceCommand' = NoCommand /\ evidenceOutcome' = outcome

TreeStill == UNCHANGED <<missing, localResults, declared, treeEdits>>

-----------------------------------------------------------------------------
(* prepare: the packets go first, then every task is described anew          *)

StartPrepare ==
    /\ StartCommand([at |-> "packets"])
    /\ TreeStill /\ UNCHANGED <<manifests, notes, packets, phase, decisionRecord, evidenceOutcome>>

RemovePacket(t) ==
    /\ evidenceCommand.at = "packets" /\ packets[t] # NoPacket
    /\ packets' = [packets EXCEPT ![t] = NoPacket]
    /\ TreeStill
    /\ UNCHANGED <<manifests, notes, phase, decisionRecord, evidenceCommand, evidenceOutcome, commandsRun>>

PacketsRemoved ==
    /\ evidenceCommand.at = "packets" /\ \A t \in TasksOfPhase : packets[t] = NoPacket
    /\ evidenceCommand' = [at |-> "describe", task |-> 1]
    /\ TreeStill
    /\ UNCHANGED <<manifests, notes, packets, phase, decisionRecord, evidenceOutcome, commandsRun>>

\* The local results are read first, then the note is written, then the manifest; a missing
\* file ends the command between two tasks.
DescribeTask ==
    /\ evidenceCommand.at = "describe" /\ evidenceCommand.task <= Len(PhaseTasks)
    /\ LET t == PhaseTasks[evidenceCommand.task] IN
       IF t \in missing
       THEN EndCommand("artifacts_missing") /\ UNCHANGED notes
       ELSE /\ notes' = [notes EXCEPT ![t] = "pending"]
            /\ evidenceCommand' = [at |-> "described", task |-> evidenceCommand.task,
                   status |-> IF localResults[t] = "failed" THEN "failed" ELSE "source_only"]
            /\ UNCHANGED evidenceOutcome
    /\ TreeStill /\ UNCHANGED <<manifests, packets, phase, decisionRecord, commandsRun>>

DescribeManifest ==
    /\ evidenceCommand.at = "described"
    /\ manifests' = [manifests EXCEPT ![PhaseTasks[evidenceCommand.task]] =
          [status |-> evidenceCommand.status, commit |-> NoPacket, receipts |-> {}, annotated |-> FALSE]]
    /\ evidenceCommand' = [at |-> "describe", task |-> evidenceCommand.task + 1]
    /\ TreeStill /\ UNCHANGED <<notes, packets, phase, decisionRecord, evidenceOutcome, commandsRun>>

DescribePhase ==
    /\ evidenceCommand.at = "describe" /\ evidenceCommand.task > Len(PhaseTasks)
    /\ phase' = [status |-> "source_only_not_complete", commit |-> NoPacket, annotated |-> FALSE]
    /\ EndCommand("prepared")
    /\ TreeStill /\ UNCHANGED <<manifests, notes, packets, decisionRecord, commandsRun>>

-----------------------------------------------------------------------------
(* finalize                                                                *)

ReceiptPlatforms(receipts) == {receipts[i].platform : i \in DOMAIN receipts}
ReceiptSet(receipts) == {receipts[i] : i \in DOMAIN receipts}

\* The receipt of the exact base, on which the isolated service was merged.
BaseAccepted(b, base) ==
    /\ b.status = "passed" /\ b.base = base
    /\ b.p1aStatus = "passed" /\ b.dependencySatisfied /\ b.mergedCommit = base
    /\ b.platforms = EvidencePlatforms /\ b.jobsExact

FinalizeError(q) ==
    IF Len(q.receipts) # 3 THEN "three_receipts_required"
    ELSE IF \E i \in DOMAIN q.receipts : ~PlatformReceiptAccepted(q.receipts[i], q.commit)
         THEN "receipt_invalid"
    ELSE IF ReceiptPlatforms(q.receipts) # EvidencePlatforms \/ Cardinality(EvidencePlatforms) # 3
         THEN "one_receipt_per_platform_required"
    ELSE IF ~BaseAccepted(q.baseReceipt, q.base) THEN "base_invalid"
    ELSE IF ~ApprovalAccepted(q.owner, q) THEN "owner_approval_invalid"
    ELSE IF ~ReviewAccepted(q.review, q, ReceiptSet(q.receipts)) THEN "review_invalid"
    ELSE "none"

\* What finalize keeps of the receipts: who observed which assertions, on which commit.
References(receipts) ==
    {[platform |-> r.platform, commit |-> r.commit, synthetic |-> r.synthetic,
      assertions |-> [t \in TasksOfPhase |-> {x.id : x \in r.tasks[t].assertions}]]
       : r \in ReceiptSet(receipts)}

\* The arguments are read and judged before anything is written.
JudgedRequests ==
    {LET error == FinalizeError(q) IN
     [error |-> error, commit |-> q.commit,
      references |-> IF error = "none" THEN References(q.receipts) ELSE {}] : q \in FinalizeRequests}

StartFinalize(judged) ==
    /\ StartCommand(IF judged.error = "none" THEN [at |-> "gates", request |-> judged, task |-> 1]
                    ELSE NoCommand)
    /\ evidenceOutcome' = judged.error
    /\ TreeStill /\ UNCHANGED <<manifests, notes, packets, phase, decisionRecord>>

\* p2_task_gate, once per task, in a process of its own.
GateError(t) ==
    IF t \in missing THEN "files_missing"
    ELSE IF localResults[t] = "absent" THEN "results_missing"
    ELSE IF localResults[t] = "failed" THEN "local_gate_failed"
    ELSE IF ~(TaskDependencies[t] \subseteq DOMAIN manifests) THEN "dependency_missing"
    ELSE "none"

RunGate ==
    /\ evidenceCommand.at = "gates" /\ evidenceCommand.task <= Len(PhaseTasks)
    /\ IF GateError(PhaseTasks[evidenceCommand.task]) = "none"
       THEN /\ evidenceCommand' = [evidenceCommand EXCEPT !.task = @ + 1]
            /\ UNCHANGED evidenceOutcome
       ELSE EndCommand(GateError(PhaseTasks[evidenceCommand.task]))
    /\ TreeStill /\ UNCHANGED <<manifests, notes, packets, phase, decisionRecord, commandsRun>>

AcceptDecision ==
    /\ evidenceCommand.at = "gates" /\ evidenceCommand.task > Len(PhaseTasks)
    /\ decisionRecord' = evidenceCommand.request.commit
    /\ evidenceCommand' = [evidenceCommand EXCEPT !.at = "manifest", !.task = 1]
    /\ TreeStill /\ UNCHANGED <<manifests, notes, packets, phase, evidenceOutcome, commandsRun>>

\* Three files per task, in this order: manifest, approval note, packet.
PassManifest(t) ==
    manifests' = [manifests EXCEPT ![t] =
        [status |-> "passed", commit |-> evidenceCommand.request.commit,
         receipts |-> evidenceCommand.request.references, annotated |-> @.annotated]]
WritePacket(t) == packets' = [packets EXCEPT ![t] = evidenceCommand.request.commit]

\* Mutant: the packet is written first.
RecordTask_PacketFirst(step, t) ==
    CASE step = "manifest" -> WritePacket(t) /\ UNCHANGED <<manifests, notes>>
      [] step = "note" -> notes' = [notes EXCEPT ![t] = "approved"] /\ UNCHANGED <<manifests, packets>>
      [] step = "packet" -> PassManifest(t) /\ UNCHANGED <<notes, packets>>

RecordTask(step, t) ==
    CASE step = "manifest" -> PassManifest(t) /\ UNCHANGED <<notes, packets>>
      [] step = "note" -> notes' = [notes EXCEPT ![t] = "approved"] /\ UNCHANGED <<manifests, packets>>
      [] step = "packet" -> WritePacket(t) /\ UNCHANGED <<manifests, notes>>

NextStep(c) ==
    CASE c.at = "manifest" -> [c EXCEPT !.at = "note"]
      [] c.at = "note" -> [c EXCEPT !.at = "packet"]
      [] c.at = "packet" -> [c EXCEPT !.at = "manifest", !.task = @ + 1]

FinalizeTask ==
    /\ evidenceCommand.at \in {"manifest", "note", "packet"} /\ evidenceCommand.task <= Len(PhaseTasks)
    /\ RecordTask(evidenceCommand.at, PhaseTasks[evidenceCommand.task])
    /\ evidenceCommand' = NextStep(evidenceCommand)
    /\ TreeStill /\ UNCHANGED <<phase, decisionRecord, evidenceOutcome, commandsRun>>

FinalizePhase ==
    /\ evidenceCommand.at = "manifest" /\ evidenceCommand.task > Len(PhaseTasks)
    /\ phase' = [status |-> "passed", commit |-> evidenceCommand.request.commit, annotated |-> FALSE]
    /\ EndCommand("finalized")
    /\ TreeStill /\ UNCHANGED <<manifests, notes, packets, decisionRecord, commandsRun>>

CommandStops ==
    /\ evidenceCommand # NoCommand
    /\ EndCommand("stopped")
    /\ TreeStill /\ UNCHANGED <<manifests, notes, packets, phase, decisionRecord, commandsRun>>

-----------------------------------------------------------------------------
(* p2_evidence_state: the state of the phase that the repository declares    *)
(* never promotes it; the older manifests must say that they are superseded. *)

CheckState ==
    /\ evidenceCommand = NoCommand
    /\ evidenceOutcome' = IF ~StateAccepted(declared) THEN "state_mismatch"
                          ELSE IF phase.annotated /\ manifests["P2-004"].annotated THEN "incomplete"
                          ELSE "annotation_mismatch"
    /\ TreeStill
    /\ UNCHANGED <<manifests, notes, packets, phase, decisionRecord, evidenceCommand, commandsRun>>

DeclareState(d) ==
    /\ treeEdits < MaxTreeEdits /\ treeEdits' = treeEdits + 1
    /\ declared' = d
    /\ UNCHANGED <<manifests, notes, packets, phase, decisionRecord, missing, localResults,
                   evidenceCommand, evidenceOutcome, commandsRun>>

EditTree(t, tested, present) ==
    /\ treeEdits < MaxTreeEdits /\ treeEdits' = treeEdits + 1
    /\ localResults' = [localResults EXCEPT ![t] = tested]
    /\ missing' = IF present THEN missing \ {t} ELSE missing \cup {t}
    /\ UNCHANGED <<manifests, notes, packets, phase, decisionRecord, declared, evidenceCommand,
                   evidenceOutcome, commandsRun>>

EvidenceStateNext ==
    \/ StartPrepare
    \/ \E t \in TasksOfPhase : RemovePacket(t)
    \/ PacketsRemoved
    \/ DescribeTask
    \/ DescribeManifest
    \/ DescribePhase
    \/ evidenceCommand = NoCommand /\ \E judged \in JudgedRequests : StartFinalize(judged)
    \/ RunGate
    \/ AcceptDecision
    \/ FinalizeTask
    \/ FinalizePhase
    \/ CommandStops
    \/ CheckState
    \/ \E t \in TasksOfPhase, tested \in {"passed", "failed", "absent"}, present \in BOOLEAN :
          EditTree(t, tested, present)
    \/ \E d \in DeclaredStates : DeclareState(d)

EvidenceSpec == EvidenceInit /\ [][EvidenceStateNext]_evidenceVars

-----------------------------------------------------------------------------
PhaseEvidenceTypeOK ==
    /\ \A t \in TasksOfPhase :
          /\ manifests[t].status \in {"passed", "failed", "source_only"}
          /\ notes[t] \in {"pending", "approved"}
          /\ localResults[t] \in {"passed", "failed", "absent"}
    /\ phase.status \in {"passed", "source_only_not_complete"}
    /\ missing \subseteq TasksOfPhase /\ declared \in DeclaredStates
    /\ commandsRun \in 0 .. MaxCommands /\ treeEdits \in 0 .. MaxTreeEdits

\* Wherever finalize or prepare stops, a task is listed as completed only beside a manifest
\* that passed, and a manifest passes only on one receipt per platform, each for the
\* manifest's commit, not synthetic, with every assertion of the task observed
\* (p2_finalize_evidence.main, p2_prepare_evidence.main; p2_prepare_evidence.py: "evidence
\* can never become passed").
CompletionBacked ==
    \A t \in TasksOfPhase :
        /\ packets[t] # NoPacket => manifests[t].status = "passed"
        /\ manifests[t].status = "passed" =>
              /\ {r.platform : r \in manifests[t].receipts} = EvidencePlatforms
              /\ \A r \in manifests[t].receipts :
                    /\ r.commit = manifests[t].commit /\ ~r.synthetic
                    /\ RequiredAssertions[t] \subseteq r.assertions[t]
=============================================================================
