---------------------------- MODULE ExactSourceGate ----------------------------
(***************************************************************************)
(* The gate a recovery commit passes before it is pushed                     *)
(* (v71r12_exact_source_gate.py): checks, patchers that must find nothing to *)
(* patch, a diagnosis in a worktree of its own, two repairs of the checkout  *)
(* that may touch line endings but no content, and the SDK's tools between   *)
(* two readings of the source manifest.  The commands run in the project's   *)
(* tree, and whoever works on it may save, stage or remake a file meanwhile. *)
(* HEAD does not move during a run: this is assumed, the gate does not look. *)
(* It reads the commit of its report last (rev-parse, line 932), so what is  *)
(* committed after the second reading of the manifest (916) would be named   *)
(* by a report about the commit before.                                      *)
(***************************************************************************)
EXTENDS Naturals

CONSTANTS
    TrackedPaths,        \* files of HEAD but SOURCE_MANIFEST.sha256
    DartSources,         \* git ls-files '*.dart'
    GeneratedContracts,  \* GENERATED_CONTRACT_PATHS
    EvidencePath,        \* the committed evidence of P2, one tracked file here
    OtherPaths,          \* files that are neither tracked, nor ignored, nor generated
    Heads,               \* what HEAD may be: [rows, evidence], SOURCE_MANIFEST.sha256 as
                         \* path -> text or NoManifest, and the committed state of P2
    EvidenceTasks,       \* TASK_IDS
    NoManifest,          \* missing, malformed or not sorted
    MaxTreeWrites, MaxGateRuns

VARIABLES
    headCommit,          \* HEAD; each of its files has the text "head"
    checkout,            \* path -> [text, eol]: the bytes in the working tree
    staged,              \* path -> text in the index
    restat,              \* paths git lists as changed although nothing differs
    otherFiles,          \* the files of OtherPaths that exist
    manifestRows,        \* the manifest in the working tree
    gate,                \* [at, before, normalized], and while bytes are repaired [seen, held,
                         \* written, differing]: the sources read, the one to be written, those
                         \* written, those left alone
    gateReceipt,         \* [status, run]: the JSON report
    gateRuns, treeWrites,
    dirtied,             \* paths written since the run started
    lately,              \* paths written since their bytes were repaired, or the manifest read again
    unsaved,             \* what somebody saved, and no command wrote to since, but not while the
                         \* gate held the bytes of before
    stagedOutside        \* what somebody staged, or a killed run left staged

treeVars == <<checkout, staged, restat, otherFiles, manifestRows>>
peopleVars == <<treeWrites, dirtied, unsaved, stagedOutside>>
exactVars == <<headCommit, treeVars, gate, gateReceipt, gateRuns, lately, peopleVars>>

ASSUME ExactAssumption ==
    /\ GeneratedContracts \subseteq DartSources /\ DartSources \subseteq TrackedPaths
    /\ EvidencePath \in TrackedPaths \ DartSources /\ TrackedPaths \cap OtherPaths = {}
    /\ MaxTreeWrites \in Nat /\ MaxGateRuns \in Nat

ManifestPath == "SOURCE_MANIFEST.sha256"
NoGateRun ==
    [at |-> "idle", before |-> NoManifest, normalized |-> {},
     seen |-> {}, held |-> {}, written |-> {}, differing |-> {}]
File(text, eol) == [text |-> text, eol |-> eol]
Present == {p \in TrackedPaths : checkout[p].text # "absent"}

-----------------------------------------------------------------------------
(* What git says of the tree: with core.autocrlf it compares text, not bytes *)

UnstagedDiff(paths) == {p \in paths : checkout[p].text # staged[p]}
StagedDiff(paths) == {p \in paths : staged[p] # "head"}

TrackedStatus ==
    UnstagedDiff(TrackedPaths) \cup StagedDiff(TrackedPaths) \cup restat
    \cup (IF manifestRows # headCommit.rows THEN {ManifestPath} ELSE {})

\* source_paths and verify_source_manifest: the files that exist, tracked or not, with their
\* digests once line endings are made canonical.
SourcePaths == Present \cup otherFiles
SourceText(p) == IF p \in TrackedPaths THEN checkout[p].text ELSE "other"

ManifestExact ==
    /\ manifestRows # NoManifest
    /\ DOMAIN manifestRows = SourcePaths /\ \A p \in SourcePaths : manifestRows[p] = SourceText(p)

-----------------------------------------------------------------------------
(* A run                                                                    *)

Ends(status) ==
    /\ gate' = NoGateRun
    /\ gateReceipt' = [status |-> status, run |-> gateRuns]

Keeps == UNCHANGED <<headCommit, treeVars, gateRuns, lately, peopleVars>>

Dies == gate' = NoGateRun /\ UNCHANGED gateReceipt
Fails == Ends("failed") /\ Keeps
GoesTo(step) == gate' = [gate EXCEPT !.at = step] /\ UNCHANGED gateReceipt /\ Keeps

StartGate ==
    /\ gate = NoGateRun /\ gateRuns < MaxGateRuns
    /\ gateRuns' = gateRuns + 1
    /\ gate' = [NoGateRun EXCEPT !.at = "contracts"]
    /\ dirtied' = {}
    /\ UNCHANGED <<headCommit, treeVars, gateReceipt, lately, treeWrites, unsaved, stagedOutside>>

\* Runs of commands, each of which must end well: the contract tests, what the evidence calls
\* for, the generators' checks, once more after the repair, the SDK's tools.
RunCommands(at, next) ==
    /\ gate.at = at
    /\ Fails \/ GoesTo(next)

\* audit_r4_compatibility reads the sources with the old patcher's lexer, in the gate's own
\* process: the shell and the invariants of R4 are as they must be, or not; nothing is run.
AuditR4 ==
    /\ gate.at = "r4"
    /\ Fails \/ GoesTo("generators")

\* A patcher must find nothing to patch; one that does has written it before the gate fails or
\* is killed.
RunPatchers(at, next) ==
    /\ gate.at = at
    /\ \/ Fails \/ GoesTo(next)
       \/ /\ Ends("failed") \/ Dies
          /\ \E p \in Present :
                /\ checkout' = [checkout EXCEPT ![p] = File("other", "lf")]
                /\ unsaved' = unsaved \ {p} /\ lately' = lately \cup {p} /\ dirtied' = dirtied \cup {p}
          /\ UNCHANGED <<headCommit, staged, restat, otherFiles, manifestRows, gateRuns, treeWrites, stagedOutside>>

\* run_behavioral_gate_isolated: the diagnosis writes into a worktree of HEAD that is removed
\* however it ends; it must write its own files, all of them source-only, and no others.
Diagnose ==
    /\ gate.at = "diagnosis"
    /\ \E written \in SUBSET {"diagnostic", "other file"}, sourceOnly \in BOOLEAN :
          IF sourceOnly /\ written = {"diagnostic"} THEN GoesTo("evidence") ELSE Fails

\* What is not claimed to be complete must not look complete anywhere.
Unfinished(e) ==
    /\ e.canonical /\ e.historical
    /\ \A t \in EvidenceTasks : /\ e.tasks[t].status \in {"source_only", "failed"}
                                /\ ~e.tasks[t].packet /\ ~e.tasks[t].receipts

EvidenceJudged(e) == e.claim \/ Unfinished(e)

JudgeEvidence ==
    /\ gate.at = "evidence" /\ EvidencePath \in Present
    /\ \E e \in {c.evidence : c \in Heads} :
          /\ checkout[EvidencePath].text = "head" => e = headCommit.evidence
          /\ IF EvidenceJudged(e) THEN GoesTo("tasks") ELSE Fails

-----------------------------------------------------------------------------
(* normalize_generated_contract_checkout_metadata                           *)

InspectDrift ==
    /\ gate.at = "drift"
    /\ IF TrackedStatus = {} THEN GoesTo("recheck")
       ELSE IF /\ TrackedStatus \subseteq GeneratedContracts
               /\ UnstagedDiff(TrackedStatus) = {} /\ StagedDiff(TrackedStatus) = {}
       THEN /\ gate' = [gate EXCEPT !.at = "renormalize", !.normalized = TrackedStatus]
            /\ UNCHANGED gateReceipt /\ Keeps
       ELSE Fails

Restaged(paths, text) == [p \in TrackedPaths |-> IF p \in paths THEN text[p] ELSE staged[p]]

\* git add --renormalize stages what the files hold by now.
Renormalize ==
    /\ gate.at = "renormalize"
    /\ \/ Fails
       \/ /\ staged' = Restaged(gate.normalized, [p \in TrackedPaths |-> checkout[p].text])
          /\ restat' = restat \ gate.normalized
          /\ gate' = [gate EXCEPT !.at = "renormalized"]
          /\ UNCHANGED <<headCommit, checkout, otherFiles, manifestRows, gateReceipt, gateRuns, lately, peopleVars>>

\* A change of content that slipped in is taken out of the index again.
Renormalized ==
    /\ gate.at = "renormalized"
    /\ IF StagedDiff(gate.normalized) # {}
       THEN /\ staged' = Restaged(gate.normalized, [p \in TrackedPaths |-> "head"])
            /\ Ends("failed")
            /\ UNCHANGED <<headCommit, checkout, restat, otherFiles, manifestRows, gateRuns, lately, peopleVars>>
       ELSE IF TrackedStatus = {} THEN GoesTo("recheck") ELSE Fails

-----------------------------------------------------------------------------
(* normalize_handwritten_dart_checkout_bytes                                *)

\* Mutant: line endings are taken out of any file, whatever else it holds.
Normalizable_Any(p) == checkout[p].eol = "crlf"

\* Only a file that is HEAD's but for its line endings is written, as HEAD has it.
Normalizable(p) == checkout[p].eol = "crlf" /\ checkout[p].text = "head"

\* One source after the other is read and compared with HEAD's.
CompareSource(p) ==
    /\ gate.at = "bytes" /\ p \notin gate.seen
    /\ IF Normalizable(p)
       THEN gate' = [gate EXCEPT !.at = "write", !.held = {p}] /\ UNCHANGED lately
       ELSE /\ gate' = [gate EXCEPT !.seen = @ \cup {p},
                                   !.differing = IF p \in Present /\ checkout[p].text # "head"
                                                 THEN @ \cup {p} ELSE @]
            /\ lately' = lately \ {p}
    /\ UNCHANGED <<headCommit, treeVars, gateReceipt, gateRuns, peopleVars>>

\* HEAD's bytes are written over whatever the file holds by now.
RepairSource ==
    /\ gate.at = "write"
    /\ checkout' = [p \in TrackedPaths |-> IF p \in gate.held THEN File("head", "lf") ELSE checkout[p]]
    /\ restat' = restat \ gate.held
    /\ lately' = lately \ gate.held
    /\ gate' = [gate EXCEPT !.at = "bytes", !.seen = @ \cup gate.held, !.held = {},
                            !.written = @ \cup gate.held]
    /\ UNCHANGED <<headCommit, staged, otherFiles, manifestRows, gateReceipt, gateRuns, peopleVars>>

SourcesCompared ==
    /\ gate.at = "bytes" /\ gate.seen = DartSources
    /\ IF gate.differing = {} /\ (gate.written # {} => TrackedStatus = {})
       THEN /\ gate' = [gate EXCEPT !.at = "before", !.seen = {}, !.written = {}]
            /\ UNCHANGED gateReceipt /\ Keeps
       ELSE Fails

-----------------------------------------------------------------------------
(* The manifest before and after the SDK's tools, and the report            *)

ReadBefore ==
    /\ gate.at = "before"
    /\ IF ManifestExact
       THEN gate' = [gate EXCEPT !.at = "clean", !.before = manifestRows] /\ UNCHANGED gateReceipt /\ Keeps
       ELSE Fails

\* git diff --exit-code, git diff --check and git status, before and after the tools.
CheckClean(at, next) ==
    /\ gate.at = at
    /\ IF TrackedStatus = {} THEN GoesTo(next) ELSE Fails

\* Mutant: whether the files are still those of the manifest is not asked again.
StillExact_Unread == manifestRows = gate.before

StillExact == ManifestExact /\ manifestRows = gate.before

ReadAfter ==
    /\ gate.at = "after"
    /\ IF StillExact
       THEN /\ gate' = [gate EXCEPT !.at = "final"] /\ lately' = {}
            /\ UNCHANGED <<headCommit, treeVars, gateReceipt, gateRuns, peopleVars>>
       ELSE Fails

ReportPassed == gate.at = "report" /\ Ends("passed") /\ Keeps

\* An error that is no GateError, or a kill, leaves the report of the last run as it was.
GateDies ==
    /\ gate # NoGateRun /\ Dies
    /\ stagedOutside' = IF gate.at = "renormalized" THEN stagedOutside \cup StagedDiff(TrackedPaths)
                        ELSE stagedOutside
    /\ UNCHANGED <<headCommit, treeVars, gateRuns, lately, treeWrites, dirtied, unsaved>>

GateSteps ==
    \/ StartGate \/ Diagnose \/ JudgeEvidence \/ InspectDrift \/ Renormalize \/ Renormalized
    \/ (\E p \in DartSources : CompareSource(p)) \/ RepairSource \/ SourcesCompared
    \/ ReadBefore \/ ReadAfter \/ ReportPassed \/ GateDies
    \/ RunCommands("contracts", "patchers") \/ RunCommands("tasks", "r3") \/ AuditR4
    \/ RunCommands("generators", "drift") \/ RunCommands("recheck", "bytes")
    \/ RunCommands("sdk", "after")
    \/ RunPatchers("patchers", "diagnosis") \/ RunPatchers("r3", "r4")
    \/ CheckClean("clean", "sdk") \/ CheckClean("final", "report")

-----------------------------------------------------------------------------
(* The commands, and the people who work on the tree                        *)

Touches(p) ==
    /\ treeWrites < MaxTreeWrites /\ treeWrites' = treeWrites + 1
    /\ dirtied' = dirtied \cup {p} /\ lately' = lately \cup {p}
    /\ UNCHANGED <<headCommit, gate, gateReceipt, gateRuns>>

\* A command writes a file, removes it or puts back what HEAD has; a generator may do so with
\* other line endings, which git lists as a change.
CommandWrites(p, file) ==
    /\ gate.at \in {"contracts", "evidence", "tasks", "generators", "recheck", "sdk"}
    /\ Touches(p)
    /\ checkout' = [checkout EXCEPT ![p] = file]
    /\ restat' = IF file = File("head", "crlf") /\ p \in GeneratedContracts THEN restat \cup {p}
                 ELSE restat \ {p}
    /\ unsaved' = unsaved \ {p}
    /\ UNCHANGED <<staged, otherFiles, manifestRows, stagedOutside>>

\* What is saved between the gate's reading of a source and its writing is lost.
SomebodySaves(p, eol) ==
    /\ Touches(p)
    /\ checkout' = [checkout EXCEPT ![p] = File("mine", eol)]
    /\ restat' = restat \ {p}
    /\ unsaved' = unsaved \cup ({p} \ gate.held)
    /\ UNCHANGED <<staged, otherFiles, manifestRows, stagedOutside>>

SomebodyStages(p) ==
    /\ checkout[p].text # staged[p]
    /\ Touches(p)
    /\ staged' = [staged EXCEPT ![p] = checkout[p].text]
    /\ stagedOutside' = stagedOutside \cup {p}
    /\ UNCHANGED <<checkout, restat, otherFiles, manifestRows, unsaved>>

OtherAppears(p) ==
    /\ p \notin otherFiles
    /\ Touches(p)
    /\ otherFiles' = otherFiles \cup {p}
    /\ UNCHANGED <<checkout, staged, restat, manifestRows, unsaved, stagedOutside>>

\* The manifest is made again, of the files as they are.
ManifestRemade ==
    /\ Touches(ManifestPath)
    /\ manifestRows' = [p \in SourcePaths |-> SourceText(p)]
    /\ UNCHANGED <<checkout, staged, restat, otherFiles, unsaved, stagedOutside>>

TreeWritten ==
    \/ \E p \in TrackedPaths, file \in {File("head", "lf"), File("head", "crlf"), File("other", "lf"),
                                        File("absent", "lf")} : CommandWrites(p, file)
    \/ \E p \in TrackedPaths, eol \in {"lf", "crlf"} : SomebodySaves(p, eol)
    \/ \E p \in TrackedPaths : SomebodyStages(p)
    \/ \E p \in OtherPaths : OtherAppears(p)
    \/ ManifestRemade

-----------------------------------------------------------------------------
ExactInit ==
    /\ headCommit \in Heads
    /\ manifestRows = headCommit.rows
    /\ \E crlf \in SUBSET DartSources :
          /\ checkout = [p \in TrackedPaths |-> File("head", IF p \in crlf THEN "crlf" ELSE "lf")]
          /\ restat \in SUBSET (GeneratedContracts \cap crlf)
    /\ staged = [p \in TrackedPaths |-> "head"] /\ otherFiles = {}
    /\ gate = NoGateRun /\ gateReceipt = [status |-> "none", run |-> 0] /\ gateRuns = 0
    /\ treeWrites = 0 /\ dirtied = {} /\ lately = {} /\ unsaved = {} /\ stagedOutside = {}

ExactNext == GateSteps \/ TreeWritten

ExactSpec == ExactInit /\ [][ExactNext]_exactVars

-----------------------------------------------------------------------------
ExactTypeOK ==
    /\ checkout \in [TrackedPaths -> [text : {"head", "other", "mine", "absent"}, eol : {"lf", "crlf"}]]
    /\ staged \in [TrackedPaths -> {"head", "other", "mine", "absent"}]
    /\ restat \subseteq GeneratedContracts /\ otherFiles \subseteq OtherPaths
    /\ gate.at \in {"idle", "contracts", "patchers", "diagnosis", "evidence", "tasks", "r3", "r4",
                    "generators", "drift", "renormalize", "renormalized", "recheck",
                    "bytes", "write", "before", "clean", "sdk", "after", "final", "report"}
    /\ gate.normalized \subseteq GeneratedContracts
    /\ gate.seen \cup gate.held \subseteq DartSources
    /\ gateReceipt \in [status : {"none", "passed", "failed"}, run : 0 .. MaxGateRuns]
    /\ gateRuns \in 0 .. MaxGateRuns /\ treeWrites \in 0 .. MaxTreeWrites

\* A run that repairs line endings never costs anybody's work: a file somebody saved and no
\* command wrote to holds what was saved, but for what was saved between the gate's reading of
\* that source and its writing; and nothing stays staged but what somebody staged, or a killed
\* run could not take back ("refusing to touch them"; "immediately rolled back").
WorkIsKept ==
    /\ \A p \in unsaved : checkout[p].text = "mine"
    /\ \A p \in TrackedPaths : staged[p] # "head" =>
          p \in stagedOutside \/ (gate.at = "renormalized" /\ p \in gate.normalized)

\* Whatever the commands wrote on the way, the SDK's tools read the Dart sources byte for byte
\* as HEAD has them, but for what was written since the repair.
TestedAsCommitted ==
    gate.at = "sdk" => \A p \in DartSources \ lately : checkout[p] = File("head", "lf")

\* The report of the last run that allows the push is one of the commit: its manifest names
\* every file with the digest of its text, and its evidence claims no more than it may unless
\* it was written to during the run; and the tree is the commit's, but for what was written
\* since the manifest was read again.  A file that is not tracked is named by the manifest.
PassedIsExact ==
    gate = NoGateRun /\ gateReceipt.status = "passed" /\ gateReceipt.run = gateRuns =>
        /\ \A p \in TrackedPaths : p \in DOMAIN headCommit.rows /\ headCommit.rows[p] = "head"
        /\ EvidencePath \notin dirtied => EvidenceJudged(headCommit.evidence)
        /\ ManifestPath \notin lately => manifestRows = headCommit.rows
        /\ \A p \in TrackedPaths \ lately : checkout[p].text = "head" /\ staged[p] = "head"
        /\ otherFiles \ lately \subseteq DOMAIN headCommit.rows

PushedAsCommitted == WorkIsKept /\ TestedAsCommitted /\ PassedIsExact
=============================================================================
