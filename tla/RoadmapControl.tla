---------------------------- MODULE RoadmapControl ----------------------------
(***************************************************************************)
(* The roadmap control plane (tool/roadmap_control.py): a manifest of tasks, *)
(* the constitution it must agree with, and two files derived from it.  The  *)
(* files are read and written one after the other while people edit them.    *)
(***************************************************************************)
EXTENDS Integers, FiniteSets, SequencesExt

CONSTANTS
    TaskOrder,          \* the task identifiers, in the order of phase and number
    Roadmaps,           \* manifests the file may hold at first or after an edit
    Masters,            \* what MASTER.md may say: [version, dependsOn]
    RoadmapPaths,       \* packets and evidence files
    MaxRoadmapCommands, MaxRoadmapEdits

VARIABLES
    roadmap,            \* roadmap.yaml: [parses, header, version, tasks, nextReady, order, graph, masterHash]
    masterText,         \* MASTER.md
    statusText,         \* STATUS.md: [statuses, nextReady]
    handoffText,        \* HANDOFF.md: [underReview, nextReady]
    roadmapFiles,       \* the paths that exist
    authorityClaims,    \* documents that declare themselves the human constitution
    roadmapCommand,     \* the command that runs
    roadmapReport,      \* the last validation: [passed, strict, manifest]
    offered,            \* what next printed: [tasks, manifest, reloaded]
    roadmapCommands, roadmapEdits

\* A manifest lists finitely many tasks, of the known identifiers.
ASSUME RoadmapAssumption ==
    /\ TaskOrder \in Seq({TaskOrder[i] : i \in DOMAIN TaskOrder})
    /\ \A m \in Roadmaps :
          IsFiniteSet(DOMAIN m.tasks) /\ DOMAIN m.tasks \cup ToSet(m.order) \subseteq ToSet(TaskOrder)
    /\ {MaxRoadmapCommands, MaxRoadmapEdits} \subseteq Nat

roadmapTexts == <<masterText, statusText, handoffText, roadmapFiles, authorityClaims>>
roadmapVars == <<roadmap, roadmapTexts, roadmapCommand, roadmapReport, offered, roadmapCommands, roadmapEdits>>

NoRoadmapCommand == [at |-> "idle"]
TaskIds(m) == DOMAIN m.tasks
Ready(m) == {t \in TaskIds(m) : m.tasks[t].status = "READY"}
DependsOn(m) == [t \in TaskIds(m) |-> m.tasks[t].dependsOn]

\* The tasks of a set, in their order.
Ordered(tasks) ==
    LET upTo[n \in Nat] ==
            IF n = 0 THEN <<>>
            ELSE IF TaskOrder[n] \in tasks THEN Append(upTo[n - 1], TaskOrder[n]) ELSE upTo[n - 1]
    IN upTo[Len(TaskOrder)]

-----------------------------------------------------------------------------
(* validate_manifest_data                                                  *)

\* cycle_nodes: some task reaches itself along dependsOn.
ReachedIn(m) ==
    LET reach[n \in Nat] ==
            IF n = 0 THEN DependsOn(m)
            ELSE [t \in TaskIds(m) |-> reach[n - 1][t] \cup
                     UNION {reach[n - 1][d] : d \in reach[n - 1][t] \cap TaskIds(m)}]
    IN reach

Reached(m) == ReachedIn(m)[Cardinality(TaskIds(m))]

Acyclic(m) == \A t \in TaskIds(m) : t \notin Reached(m)[t]

TaskWellFormed(m, t) ==
    /\ t \notin m.tasks[t].dependsOn
    /\ m.tasks[t].status \in {"BLOCKED", "DEFERRED"} => m.tasks[t].reason

DependenciesDone(m, t) ==
    \A d \in m.tasks[t].dependsOn \cap TaskIds(m) : m.tasks[d].status = "DONE"

\* Mutant: a task that is done is not asked about its dependencies.
StatusJustified_DoneTrusted(m, t, strict) ==
    /\ m.tasks[t].status \in {"READY", "IN_PROGRESS", "REVIEW"} => DependenciesDone(m, t)
    /\ strict /\ m.tasks[t].status = "NOT_STARTED" => ~DependenciesDone(m, t)
    /\ m.tasks[t].status \in {"DONE", "REVIEW"} => m.tasks[t].evidence # {}

\* Outside strict mode a task whose dependencies are done may still be NOT_STARTED.
StatusJustified(m, t, strict) ==
    /\ m.tasks[t].status \in {"READY", "IN_PROGRESS", "REVIEW", "DONE"} => DependenciesDone(m, t)
    /\ strict /\ m.tasks[t].status = "NOT_STARTED" => ~DependenciesDone(m, t)
    /\ m.tasks[t].status \in {"DONE", "REVIEW"} => m.tasks[t].evidence # {}

ManifestConsistent(m, strict) ==
    /\ m.header                      \* schema, format, status values, authority, scope
    /\ \A t \in TaskIds(m) : /\ TaskWellFormed(m, t) /\ StatusJustified(m, t, strict)
                             /\ m.tasks[t].dependsOn \subseteq TaskIds(m)
    /\ Acyclic(m)
    /\ m.nextReady = Ordered(Ready(m))
    /\ m.order = Ordered(TaskIds(m))
    /\ m.graph = DependsOn(m)        \* the fingerprint, of every field MASTER states

MasterAgrees(m, text) ==
    text.version = m.version /\ text.dependsOn = DependsOn(m) /\ m.masterHash = text

StatusAgrees(m, text) ==
    text.statuses = [t \in TaskIds(m) |-> m.tasks[t].status] /\ text.nextReady = Ordered(Ready(m))

FilesPresent(m) ==
    \A t \in TaskIds(m) :
        /\ m.tasks[t].packet \in roadmapFiles
        /\ m.tasks[t].status \in {"DONE", "REVIEW"} => m.tasks[t].evidence \subseteq roadmapFiles

AuthorityClear == authorityClaims = {"docs/roadmap/MASTER.md"}

-----------------------------------------------------------------------------
(* The commands                                                            *)

BeginRoadmapCommand ==
    /\ roadmapCommand = NoRoadmapCommand
    /\ roadmapCommands < MaxRoadmapCommands /\ roadmapCommands' = roadmapCommands + 1

\* validate_project reads the manifest first; next and explain are strict.
StartValidate(purpose, strict) ==
    /\ BeginRoadmapCommand
    /\ purpose # "validate" => strict
    /\ IF roadmap.parses
       THEN /\ roadmapCommand' = [at |-> "master", purpose |-> purpose, strict |-> strict,
                                  manifest |-> roadmap, agrees |-> TRUE]
            /\ UNCHANGED roadmapReport
       ELSE /\ roadmapReport' = [passed |-> FALSE, strict |-> strict, manifest |-> roadmap]
            /\ UNCHANGED roadmapCommand
    /\ UNCHANGED <<roadmap, roadmapTexts, offered, roadmapEdits>>

CommandStill == UNCHANGED <<roadmap, roadmapTexts, roadmapCommands, roadmapEdits>>

ReadMaster ==
    /\ roadmapCommand.at = "master"
    /\ roadmapCommand' = [roadmapCommand EXCEPT
          !.at = "status",
          !.agrees = MasterAgrees(roadmapCommand.manifest, masterText)]
    /\ CommandStill /\ UNCHANGED <<roadmapReport, offered>>

ReadStatus ==
    /\ roadmapCommand.at = "status"
    /\ roadmapCommand' = [roadmapCommand EXCEPT
          !.at = "files",
          !.agrees = @ /\ StatusAgrees(roadmapCommand.manifest, statusText)]
    /\ CommandStill /\ UNCHANGED <<roadmapReport, offered>>

ReportRoadmap ==
    /\ roadmapCommand.at = "files"
    /\ LET m == roadmapCommand.manifest
           passed == /\ roadmapCommand.agrees /\ FilesPresent(m) /\ AuthorityClear
                     /\ ManifestConsistent(m, roadmapCommand.strict) IN
       /\ roadmapReport' = [passed |-> passed, strict |-> roadmapCommand.strict, manifest |-> m]
       /\ roadmapCommand' = IF passed /\ roadmapCommand.purpose # "validate"
                            THEN [roadmapCommand EXCEPT !.at = "reload"] ELSE NoRoadmapCommand
    /\ CommandStill /\ UNCHANGED offered

\* next and explain load the manifest again; an unknown task in nextReady is a KeyError.
Reload ==
    /\ roadmapCommand.at = "reload"
    /\ offered' = IF /\ roadmapCommand.purpose = "next" /\ roadmap.parses
                     /\ ToSet(roadmap.nextReady) \subseteq TaskIds(roadmap)
                  THEN [tasks |-> ToSet(roadmap.nextReady), manifest |-> roadmapCommand.manifest,
                        reloaded |-> roadmap]
                  ELSE offered
    /\ roadmapCommand' = NoRoadmapCommand
    /\ CommandStill /\ UNCHANGED roadmapReport

\* What render writes, from the manifest as it stands: render does not validate it.
RenderedStatus(m) ==
    [statuses |-> [t \in ToSet(m.order) |-> m.tasks[t].status], nextReady |-> m.nextReady]
RenderedHandoff(m) ==
    [underReview |-> {t \in TaskIds(m) : m.tasks[t].status \in {"IN_PROGRESS", "REVIEW"}},
     nextReady |-> m.nextReady]

\* Both texts are made before the first is written.
StartRender ==
    /\ BeginRoadmapCommand
    /\ roadmapCommand' =
          IF roadmap.parses /\ ToSet(roadmap.order) \cup ToSet(roadmap.nextReady) \subseteq TaskIds(roadmap)
          THEN [at |-> "write status", manifest |-> roadmap] ELSE NoRoadmapCommand
    /\ UNCHANGED <<roadmap, roadmapTexts, roadmapReport, offered, roadmapEdits>>

WriteStatus ==
    /\ roadmapCommand.at = "write status"
    /\ statusText' = RenderedStatus(roadmapCommand.manifest)
    /\ roadmapCommand' = [roadmapCommand EXCEPT !.at = "write handoff"]
    /\ UNCHANGED <<roadmap, masterText, handoffText, roadmapFiles, authorityClaims, roadmapReport, offered,
                   roadmapCommands, roadmapEdits>>

WriteHandoff ==
    /\ roadmapCommand.at = "write handoff"
    /\ handoffText' = RenderedHandoff(roadmapCommand.manifest)
    /\ roadmapCommand' = NoRoadmapCommand
    /\ UNCHANGED <<roadmap, masterText, statusText, roadmapFiles, authorityClaims, roadmapReport, offered,
                   roadmapCommands, roadmapEdits>>

RoadmapCommandStops ==
    /\ roadmapCommand # NoRoadmapCommand /\ roadmapCommand' = NoRoadmapCommand
    /\ CommandStill /\ UNCHANGED <<roadmapReport, offered>>

\* People edit the manifest, the constitution and the tree.
BeginRoadmapEdit == roadmapEdits < MaxRoadmapEdits /\ roadmapEdits' = roadmapEdits + 1
EditStill == UNCHANGED <<handoffText, roadmapCommand, roadmapReport, offered, roadmapCommands>>

EditRoadmap(m) ==
    /\ BeginRoadmapEdit /\ roadmap' = m
    /\ EditStill /\ UNCHANGED <<masterText, statusText, roadmapFiles, authorityClaims>>

EditMaster(text) ==
    /\ BeginRoadmapEdit /\ masterText' = text
    /\ EditStill /\ UNCHANGED <<roadmap, statusText, roadmapFiles, authorityClaims>>

RemoveFile(path) ==
    /\ BeginRoadmapEdit /\ path \in roadmapFiles /\ roadmapFiles' = roadmapFiles \ {path}
    /\ EditStill /\ UNCHANGED <<roadmap, masterText, statusText, authorityClaims>>

ClaimAuthority(path) ==
    /\ BeginRoadmapEdit /\ authorityClaims' = authorityClaims \cup {path}
    /\ EditStill /\ UNCHANGED <<roadmap, masterText, statusText, roadmapFiles>>

RoadmapInit ==
    /\ roadmap \in Roadmaps /\ masterText = roadmap.masterHash
    /\ statusText = RenderedStatus(roadmap) /\ handoffText = RenderedHandoff(roadmap)
    /\ roadmapFiles = RoadmapPaths /\ authorityClaims = {"docs/roadmap/MASTER.md"}
    /\ roadmapCommand = NoRoadmapCommand
    /\ roadmapReport = [passed |-> FALSE, strict |-> FALSE, manifest |-> roadmap]
    /\ offered = [tasks |-> {}, manifest |-> roadmap, reloaded |-> roadmap]
    /\ roadmapCommands = 0 /\ roadmapEdits = 0

RoadmapNext ==
    \/ \E purpose \in {"validate", "next", "explain"}, strict \in BOOLEAN : StartValidate(purpose, strict)
    \/ ReadMaster
    \/ ReadStatus
    \/ ReportRoadmap
    \/ Reload
    \/ StartRender
    \/ WriteStatus
    \/ WriteHandoff
    \/ RoadmapCommandStops
    \/ \E m \in Roadmaps : EditRoadmap(m)
    \/ \E text \in Masters : EditMaster(text)
    \/ \E path \in RoadmapPaths : RemoveFile(path)
    \/ ClaimAuthority("docs/roadmap/OLD.md")

RoadmapSpec == RoadmapInit /\ [][RoadmapNext]_roadmapVars

-----------------------------------------------------------------------------
RoadmapTypeOK ==
    /\ roadmap \in Roadmaps /\ roadmapFiles \subseteq RoadmapPaths
    /\ DOMAIN statusText.statuses \subseteq ToSet(TaskOrder) /\ handoffText.underReview \subseteq ToSet(TaskOrder)
    /\ roadmapCommand.at \in {"idle", "master", "status", "files", "reload", "write status", "write handoff"}
    /\ roadmapReport.passed \in BOOLEAN
    /\ roadmapCommands \in 0 .. MaxRoadmapCommands /\ roadmapEdits \in 0 .. MaxRoadmapEdits

\* A validation that passes vouches for the whole history of a task, not only for its direct
\* dependencies: what is started, under review, done or ready rests on work that is done with
\* its evidence, never on itself.  next offers exactly such tasks, unless the manifest was
\* edited between its validation and its second reading (validate_manifest_data, command_next).
OfferedWorkIsReady ==
    /\ roadmapReport.passed =>
          \A t \in TaskIds(roadmapReport.manifest) :
             roadmapReport.manifest.tasks[t].status \in {"READY", "IN_PROGRESS", "REVIEW", "DONE"} =>
                \A d \in Reached(roadmapReport.manifest)[t] :
                    /\ d # t /\ roadmapReport.manifest.tasks[d].status = "DONE"
                    /\ roadmapReport.manifest.tasks[d].evidence # {}
    /\ offered.reloaded = offered.manifest => offered.tasks \subseteq Ready(offered.manifest)
=============================================================================
