----------------------------- MODULE SandboxWorker -----------------------------
(***************************************************************************)
(* The Linux sandbox (tool/sandbox_worker.py): run_finite prepares a       *)
(* workspace and spawns a launcher (unshare); the worker it forks, first   *)
(* process of a PID namespace, mounts a root, consumes the secrets and     *)
(* runs the program, which may fork.  Both levels have a time limit after  *)
(* which they terminate the process tree they can see.                     *)
(*                                                                         *)
(* The kernel is modelled as far as the code relies on it: the launcher's  *)
(* death kills the worker (--kill-child), the worker's death kills every   *)
(* process of the namespace, and the launcher ends with its worker.        *)
(***************************************************************************)
EXTENDS Integers, FiniteSets

CONSTANT SandboxModes   \* the workspace modes asked for

VARIABLES
    sandboxAt,      \* the step of run_finite
    workerAt,       \* the step of _internal_run
    mode,           \* workspace_mode
    bound,          \* what is mounted at /workspace: "none", "project", "project_ro", "snapshot"
    leases,         \* the secrets' handles: "none", "issued", "consumed"
    live,           \* processes of the run that are alive
    captured,       \* the tree snapshot of the outer termination
    projectChanged, \* history: the program wrote to the project itself
    sandboxResult

sandboxVars ==
    <<sandboxAt, workerAt, mode, bound, leases, live, captured, projectChanged, sandboxResult>>

\* The namespace holds everything but the launcher.
Namespace == {"worker", "program", "descendant"}
Processes == {"launcher"} \cup Namespace

SandboxSteps == {"probe", "copy", "issue", "prepare", "spawn", "communicate", "capture",
                 "terminate", "kill", "survivors", "returned"}
WorkerSteps == {"none", "mount", "bind", "remount", "consume", "exec", "wait", "report", "exited"}
SandboxResults == {"none", "unavailable", "refused", "failed", "completed", "cut_off",
                   "timed_out", "survivors"}

SandboxInit ==
    /\ sandboxAt = "probe" /\ workerAt = "none"
    /\ mode \in SandboxModes
    /\ bound = "none" /\ leases = "none"
    /\ live = {} /\ captured = {}
    /\ projectChanged = FALSE
    /\ sandboxResult = "none"

\* What the kernel leaves alive of a set of processes.
Reaped(alive) == IF {"launcher", "worker"} \subseteq alive THEN alive ELSE {}

Outer(from, to) ==
    /\ sandboxAt = from /\ sandboxAt' = to
    /\ UNCHANGED <<workerAt, mode, bound>>

Refused(result) == sandboxAt' = "returned" /\ sandboxResult' = result

\* probe_backend runs a namespace of its own to see whether one can be had.
Probe(available) ==
    /\ Outer("probe", IF ~available THEN "returned"
                      ELSE IF mode = "snapshot_writable" THEN "copy"
                      ELSE IF mode = "read_only" THEN "issue" ELSE "returned")
    /\ sandboxResult' = IF ~available THEN "unavailable"
                        ELSE IF mode \in {"snapshot_writable", "read_only"} THEN "none" ELSE "refused"
    /\ UNCHANGED <<leases, live, captured, projectChanged>>

\* _copy_project_snapshot, which a symbolic link or an overlapping destination stops.
CopySnapshot(ok) ==
    /\ Outer("copy", IF ok THEN "issue" ELSE "returned")
    /\ sandboxResult' = IF ok THEN "none" ELSE "refused"
    /\ UNCHANGED <<leases, live, captured, projectChanged>>

IssueSecrets(ok) ==
    /\ Outer("issue", IF ok THEN "prepare" ELSE "returned")
    /\ leases' = "issued"
    /\ sandboxResult' = IF ok THEN "none" ELSE "refused"
    /\ UNCHANGED <<live, captured, projectChanged>>

\* _prepare_request: executable, directory and digest; handles issued stay issued.
PrepareRequest(ok) ==
    /\ Outer("prepare", IF ok THEN "spawn" ELSE "returned")
    /\ sandboxResult' = IF ok THEN "none" ELSE "refused"
    /\ UNCHANGED <<leases, live, captured, projectChanged>>

SpawnLauncher ==
    /\ sandboxAt = "spawn" /\ sandboxAt' = "communicate"
    /\ live' = {"launcher", "worker"} /\ workerAt' = "mount"
    /\ UNCHANGED <<mode, bound, leases, captured, projectChanged, sandboxResult>>

-----------------------------------------------------------------------------
\* A process that was sent SIGKILL runs no more, even while it cannot end yet.
Runs(p) == p \in live /\ ~(p \in captured /\ sandboxAt \in {"survivors", "returned"})

Worker(from, to) ==
    /\ Runs("worker") /\ workerAt = from /\ workerAt' = to
    /\ UNCHANGED <<sandboxAt, mode, captured, sandboxResult>>

\* Mutant: a mount that fails is not noticed.
Mounted_Unchecked(ok, next) == next

\* _run_checked: a mount that fails ends the worker.
Mounted(ok, next) == IF ok THEN next ELSE "exited"

MountSystem(ok) ==
    /\ Worker("mount", Mounted(ok, "bind"))
    /\ UNCHANGED <<bound, leases, live, projectChanged>>

\* _mount_bind is two mounts: the bind, and the remount that makes it read-only.
BindWorkspace(ok) ==
    /\ Worker("bind", Mounted(ok, IF mode = "read_only" THEN "remount" ELSE "consume"))
    /\ bound' = IF ~ok THEN bound ELSE IF mode = "read_only" THEN "project" ELSE "snapshot"
    /\ UNCHANGED <<leases, live, projectChanged>>

RemountReadOnly(ok) ==
    /\ Worker("remount", Mounted(ok, "consume"))
    /\ bound' = IF ok THEN "project_ro" ELSE bound
    /\ UNCHANGED <<leases, live, projectChanged>>

\* consume_secret for every handle; one that expired ends the worker.
ConsumeLeases(ok) ==
    /\ Worker("consume", IF ok THEN "exec" ELSE "exited")
    /\ leases' = "consumed"
    /\ UNCHANGED <<bound, live, projectChanged>>

ExecProgram ==
    /\ Worker("exec", "wait")
    /\ live' = live \cup {"program"}
    /\ UNCHANGED <<bound, leases, projectChanged>>

\* _capture returns when the program ended and its pipes are closed ...
ProgramCollected ==
    /\ "program" \notin live
    /\ Worker("wait", "report")
    /\ UNCHANGED <<bound, leases, live, projectChanged>>

\* ... or its time limit passes.  The tree is looked up under the worker's process
\* ids in the host's /proc, so what is signalled may be the program or nothing;
\* a program that stays ends the worker with an exception.
CaptureTimeout ==
    /\ \E gone \in SUBSET {"program", "descendant"} :
          /\ live' = live \ gone
          /\ Worker("wait", IF "program" \in live' THEN "exited" ELSE "report")
    /\ UNCHANGED <<bound, leases, projectChanged>>

\* The result is written, the root unmounted, and the worker ends.
ReportResult ==
    /\ Worker("report", "exited")
    /\ UNCHANGED <<bound, leases, live, projectChanged>>

\* What the program does: it writes to its workspace, forks, or ends.
ProgramRuns ==
    /\ \E p \in {"program", "descendant"} :
          /\ Runs(p)
          /\ \/ projectChanged' = (projectChanged \/ bound = "project") /\ UNCHANGED live
             \/ live' = live \cup {"descendant"} /\ UNCHANGED projectChanged
             \/ live' = live \ {p} /\ UNCHANGED projectChanged
    /\ UNCHANGED <<sandboxAt, workerAt, mode, bound, leases, captured, sandboxResult>>

\* The worker's process ends, and the launcher that waits for it.
WorkerExits ==
    /\ workerAt = "exited" /\ Runs("worker")
    /\ live' = Reaped(live \ {"worker"})
    /\ UNCHANGED <<sandboxAt, workerAt, mode, bound, leases, captured, projectChanged, sandboxResult>>

-----------------------------------------------------------------------------
\* communicate returns: the worker's exit status and its result.
OuterCommunicated(ok) ==
    /\ sandboxAt = "communicate" /\ live = {}
    /\ Refused(IF ok THEN "completed" ELSE "failed")
    /\ UNCHANGED <<workerAt, mode, bound, leases, live, captured, projectChanged>>

WorkerTimeout ==
    /\ sandboxAt = "communicate" /\ live # {}
    /\ sandboxAt' = "capture"
    /\ UNCHANGED <<workerAt, mode, bound, leases, live, captured, projectChanged, sandboxResult>>

\* process_tree_snapshot reads /proc entry by entry: a process forked meanwhile
\* may be missed.
CaptureTree ==
    /\ sandboxAt = "capture" /\ sandboxAt' = "terminate"
    /\ \E missed \in SUBSET {"descendant"} : captured' = live \ missed
    /\ UNCHANGED <<workerAt, mode, bound, leases, live, projectChanged, sandboxResult>>

\* SIGTERM to each captured identity that is still that process; it may be ignored
\* (the first process of a namespace ignores what it does not handle).
TerminateTree ==
    /\ sandboxAt = "terminate" /\ sandboxAt' = "kill"
    /\ \E gone \in SUBSET (captured \cap live) :
          live' = Reaped(live \ gone)
    /\ UNCHANGED <<workerAt, mode, bound, leases, captured, projectChanged, sandboxResult>>

\* SIGKILL to the captured identities that are left.  A process in an
\* uninterruptible wait stays, and the first process of a namespace does not end
\* before the others have.
KillTree ==
    /\ sandboxAt = "kill" /\ sandboxAt' = "survivors"
    /\ \E stuck \in SUBSET live :
          live' = IF stuck \cap Namespace = {} THEN stuck ELSE stuck \cup {"worker"}
    /\ UNCHANGED <<workerAt, mode, bound, leases, captured, projectChanged, sandboxResult>>

\* The error says how many captured processes are left.
ReportTimeout ==
    /\ sandboxAt = "survivors"
    /\ Refused(IF captured \cap live = {} THEN "timed_out" ELSE "survivors")
    /\ UNCHANGED <<workerAt, mode, bound, leases, live, captured, projectChanged>>

SandboxNext ==
    \/ \E ok \in BOOLEAN :
          \/ Probe(ok) \/ CopySnapshot(ok) \/ IssueSecrets(ok) \/ PrepareRequest(ok)
          \/ MountSystem(ok) \/ BindWorkspace(ok) \/ RemountReadOnly(ok) \/ ConsumeLeases(ok)
          \/ OuterCommunicated(ok)
    \/ SpawnLauncher \/ ExecProgram \/ ProgramCollected \/ CaptureTimeout \/ ReportResult
    \/ ProgramRuns \/ WorkerExits
    \/ WorkerTimeout \/ CaptureTree \/ TerminateTree \/ KillTree \/ ReportTimeout

SandboxSpec == SandboxInit /\ [][SandboxNext]_sandboxVars

-----------------------------------------------------------------------------
SandboxTypeOK ==
    /\ sandboxAt \in SandboxSteps /\ workerAt \in WorkerSteps
    /\ mode \in SandboxModes
    /\ bound \in {"none", "project", "project_ro", "snapshot"}
    /\ leases \in {"none", "issued", "consumed"}
    /\ live \subseteq Processes /\ captured \subseteq Processes
    /\ projectChanged \in BOOLEAN /\ sandboxResult \in SandboxResults

\* However the mounts, the time limits and the processes it forks interleave, the
\* program never writes to the project itself, and when run_finite ends without
\* reporting survivors nothing of the run is alive, not even a process that the
\* snapshot of the tree missed (_mount_bind, _internal_run, _capture,
\* terminate_process_tree).
SandboxContained ==
    /\ ~projectChanged
    /\ sandboxAt = "returned" /\ sandboxResult # "survivors" => live = {}
=============================================================================
