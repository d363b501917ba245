---------------------------- MODULE ManagedProject ----------------------------
(***************************************************************************)
(* The project manager (tool/project_manager_v2.py).  An action of a       *)
(* project's profile runs in the sandbox and leaves a workspace session    *)
(* and artifact records; "run" starts a launcher in the background whose   *)
(* row other processes read, settle and stop.                              *)
(*                                                                         *)
(* Every command is a process of its own: what it read may be old when it  *)
(* writes, its updates are unconditional, and it may die at any step.  A   *)
(* process id may be given to a foreign process once its holder is gone.   *)
(* The kernel ends the sandbox with its launcher, unless a process cannot  *)
(* be killed.                                                              *)
(***************************************************************************)
EXTENDS Integers, FiniteSets

CONSTANTS
    Launches,       \* background runs
    Commands,       \* concurrent status and stop commands
    Sessions,       \* actions executed
    ActionProfiles, \* the command profiles (or built-in packaging) executed
    NoProfile,
    MaxSourceEdits,
    MaxManagerDeaths

VARIABLES
    launchAt,       \* launch -> the step of start_run
    row,            \* launch -> state of its row, an interruption by its cause
    pidHolder,      \* launch -> who has its process id: "none", "launcher", "foreign"
    program,        \* launch -> the sandboxed program: "off", "on", or "stuck" when it survived a kill
    result,         \* launch -> result.json: "none", "ok", "error", "survivors"
    commandAt, commandOn, sawForeign,
    signalled,      \* history: foreign processes signalled that were there when the identity was checked
    sessionAt, session, source, managerDeaths

launchVars == <<launchAt, row, pidHolder, program, result>>
commandVars == <<commandAt, commandOn, sawForeign, signalled>>
sessionVars == <<sessionAt, session, source>>
projectVars == <<launchVars, commandVars, sessionVars, managerDeaths>>

ASSUME ProjectAssumption == Launches # {} /\ MaxSourceEdits \in Nat /\ MaxManagerDeaths \in Nat

Interruptions == {"worker_disappeared", "launcher_identity_mismatch", "termination_incomplete"}
RowStates == {"none", "running", "stopping", "stopped", "succeeded", "failed"} \cup Interruptions
Open == {"running", "stopping"}
CommandSteps == {"idle", "status", "result", "alive", "settle", "mark", "check", "terminate",
                 "stopped", "mismatch", "survivors"}
SessionSteps == {"new", "prepare", "run", "collect", "record", "archive", "done", "raised"}

-----------------------------------------------------------------------------
(* Profiles.                                                               *)

Actions == {"analyze", "test", "build", "run", "package"}

\* CommandProfile.from_json: no shell, and each action has its workspace mode.
ValidProfileCommand(action, c) ==
    /\ action \in Actions /\ ~c.shell
    /\ c.mode = IF action \in {"analyze", "test"} THEN "read_only" ELSE "snapshot_writable"
    /\ c.mode = "read_only" => c.writable = {}
    /\ c.inLimits

\* action_readiness: what the worker cannot enforce blocks the action; packaging
\* without a command runs no project code and is always ready.
ActionReady(p) ==
    \/ p.action = "package" /\ ~p.configured
    \/ /\ p.configured /\ ValidProfileCommand(p.action, p.command)
       /\ p.sandbox
       /\ p.command.network = "none" /\ p.command.secrets = {} /\ p.command.ports = {}

-----------------------------------------------------------------------------
ProjectInit ==
    /\ launchAt = [l \in Launches |-> "new"]
    /\ row = [l \in Launches |-> "none"]
    /\ pidHolder = [l \in Launches |-> "none"]
    /\ program = [l \in Launches |-> "off"]
    /\ result = [l \in Launches |-> "none"]
    /\ commandAt = [c \in Commands |-> "idle"]
    /\ commandOn = [c \in Commands |-> CHOOSE l \in Launches : TRUE]
    /\ sawForeign = [c \in Commands |-> FALSE]
    /\ signalled = {}
    /\ sessionAt = [s \in Sessions |-> "new"]
    /\ session = [s \in Sessions |->
          [profile |-> NoProfile, sourceAt |-> 0, ranOn |-> 0, exit |-> "none", outputs |-> FALSE,
           status |-> "none", artifacts |-> FALSE]]
    /\ source = 0 /\ managerDeaths = 0

-----------------------------------------------------------------------------
(* start_run and the launcher.                                             *)

StartLaunch(l) ==
    /\ launchAt[l] = "new"
    /\ launchAt' = [launchAt EXCEPT ![l] = "spawned"]
    /\ pidHolder' = [pidHolder EXCEPT ![l] = "launcher"]
    /\ UNCHANGED <<row, program, result, commandVars, sessionVars, managerDeaths>>

\* The row is inserted after the launcher was started, with its start time.
InsertRow(l) ==
    /\ launchAt[l] = "spawned"
    /\ launchAt' = [launchAt EXCEPT ![l] = "recorded"]
    /\ row' = [row EXCEPT ![l] = "running"]
    /\ UNCHANGED <<pidHolder, program, result, commandVars, sessionVars, managerDeaths>>

\* The command dies in between: the launcher goes on without a row.
StartDies(l) ==
    /\ launchAt[l] = "spawned" /\ managerDeaths < MaxManagerDeaths
    /\ managerDeaths' = managerDeaths + 1
    /\ launchAt' = [launchAt EXCEPT ![l] = "lost"]
    /\ UNCHANGED <<row, pidHolder, program, result, commandVars, sessionVars>>

LauncherStep(l) ==
    /\ UNCHANGED <<launchAt, row, commandVars, sessionVars, managerDeaths>>
    /\ \/ \* run_finite starts the program
          /\ pidHolder[l] = "launcher" /\ result[l] = "none" /\ program[l] = "off"
          /\ program' = [program EXCEPT ![l] = "on"]
          /\ UNCHANGED <<pidHolder, result>>
       \/ \* _internal_run writes the result of run_finite, whose error may report survivors
          /\ pidHolder[l] = "launcher" /\ result[l] = "none"
          /\ \E r \in {"ok", "error", "survivors"} :
                /\ r \in {"ok", "survivors"} => program[l] = "on"
                /\ result' = [result EXCEPT ![l] = r]
                /\ program' = [program EXCEPT ![l] = IF r = "survivors" THEN "stuck" ELSE "off"]
          /\ UNCHANGED pidHolder
       \/ \* the launcher ends, after its result or by a signal, and the sandbox with it
          /\ pidHolder[l] = "launcher"
          /\ pidHolder' = [pidHolder EXCEPT ![l] = "none"]
          /\ program' = [program EXCEPT ![l] = IF @ = "stuck" THEN @ ELSE "off"]
          /\ UNCHANGED result
       \/ \* its process id is given to another process, or that one ends
          /\ pidHolder[l] # "launcher" /\ launchAt[l] \notin {"new", "spawned"}
          /\ pidHolder' = [pidHolder EXCEPT ![l] = IF @ = "none" THEN "foreign" ELSE "none"]
          /\ UNCHANGED <<program, result>>

\* Mutant: the process id is enough to tell the launcher.
IdentityAlive_Pid(l) == pidHolder[l] # "none"

\* process_identity_alive of the recorded identity: the process id with the start
\* time of the launcher.
IdentityAlive(l) == pidHolder[l] = "launcher"

-----------------------------------------------------------------------------
(* process_status and stop_process.                                        *)

Command(c, from, to) ==
    /\ commandAt[c] = from
    /\ commandAt' = [commandAt EXCEPT ![c] = to]
    /\ UNCHANGED <<commandOn, launchAt, sessionVars, managerDeaths>>

\* The commands' effect on the rows only.
Writes(l, state) ==
    /\ row' = [row EXCEPT ![l] = state]
    /\ UNCHANGED <<pidHolder, program, result, sawForeign, signalled>>

Reads == UNCHANGED <<row, pidHolder, program, result, sawForeign, signalled>>

\* A command reads the row; a row that is settled is returned as it is.
ReadRow(c, l, stop) ==
    /\ commandAt[c] = "idle" /\ row[l] # "none"
    /\ commandAt' = [commandAt EXCEPT ![c] =
          IF row[l] \notin Open THEN "idle" ELSE IF stop THEN "mark" ELSE "result"]
    /\ commandOn' = [commandOn EXCEPT ![c] = l]
    /\ UNCHANGED <<launchVars, sawForeign, signalled, sessionVars, managerDeaths>>

\* process_status: a result is authoritative, even while the launcher is there.
LookForResult(c) ==
    Command(c, "result", IF result[commandOn[c]] # "none" THEN "settle" ELSE "alive") /\ Reads

LookForLauncher(c) ==
    Command(c, "alive", IF IdentityAlive(commandOn[c]) THEN "idle" ELSE "settle") /\ Reads

\* The result is looked up again, so a launcher that ended in between is not
\* taken for one that disappeared.
SettleRow(c) ==
    LET l == commandOn[c] IN
    /\ Command(c, "settle", "idle")
    /\ Writes(l, IF result[l] = "ok" THEN "succeeded"
                 ELSE IF result[l] # "none" THEN "failed" ELSE "worker_disappeared")

\* stop_process
MarkStopping(c) == Command(c, "mark", "check") /\ Writes(commandOn[c], "stopping")

\* The recorded launcher is terminated; a process with its id that is another is
\* left alone.
CheckIdentity(c) ==
    LET l == commandOn[c] IN
    /\ Command(c, "check", IF IdentityAlive(l) THEN "terminate"
                           ELSE IF pidHolder[l] # "none" THEN "mismatch" ELSE "stopped")
    /\ sawForeign' = [sawForeign EXCEPT ![c] = pidHolder[l] = "foreign"]
    /\ UNCHANGED <<row, pidHolder, program, result, signalled>>

\* terminate_process_tree looks the tree up again by its process id.
TerminateLauncher(c, stuck) ==
    LET l == commandOn[c] IN
    /\ Command(c, "terminate", IF stuck /\ program[l] # "off" THEN "survivors" ELSE "stopped")
    /\ pidHolder' = [pidHolder EXCEPT ![l] = "none"]
    /\ program' = [program EXCEPT ![l] =
          IF pidHolder[l] # "launcher" \/ @ = "off" THEN @ ELSE IF stuck THEN "stuck" ELSE "off"]
    /\ signalled' = IF pidHolder[l] = "foreign" /\ sawForeign[c]
                    THEN signalled \cup {l} ELSE signalled
    /\ UNCHANGED <<row, result, sawForeign>>

\* Its outcome, after which the row is read once more.
RecordStop(c) ==
    \/ Command(c, "mismatch", "idle") /\ Writes(commandOn[c], "launcher_identity_mismatch")
    \/ Command(c, "survivors", "idle") /\ Writes(commandOn[c], "termination_incomplete")
    \/ Command(c, "stopped", "idle") /\ Writes(commandOn[c], "stopped")

CommandDies(c) ==
    /\ commandAt[c] # "idle" /\ managerDeaths < MaxManagerDeaths
    /\ managerDeaths' = managerDeaths + 1
    /\ commandAt' = [commandAt EXCEPT ![c] = "idle"]
    /\ UNCHANGED <<launchVars, commandOn, sawForeign, signalled, sessionVars>>

-----------------------------------------------------------------------------
(* execute_action.                                                         *)

Session(s, from, to) ==
    /\ sessionAt[s] = from
    /\ sessionAt' = [sessionAt EXCEPT ![s] = to]
    /\ UNCHANGED <<launchVars, commandVars, source, managerDeaths>>

\* Up to the source manifest; an action that is not ready raises before it.
BeginAction(s, p) ==
    /\ Session(s, "new", IF ~ActionReady(p) THEN "raised"
                         ELSE IF p.configured THEN "prepare" ELSE "archive")
    /\ session' = [session EXCEPT ![s].profile = p, ![s].sourceAt = source]

PrepareWorkspace(s) ==
    /\ Session(s, "prepare", "run")
    /\ session' = [session EXCEPT ![s].status = "preparing"]

\* run_finite on the project, or on a copy of it, as it is now; an exception leaves
\* the session as it is.
RunAction(s, exit) ==
    /\ Session(s, "run", IF exit = "exception" THEN "raised" ELSE "collect")
    /\ session' = [session EXCEPT ![s].exit = exit, ![s].ranOn = source]

\* collect_artifacts: each declared output is validated, hashed and recorded; one
\* outside the workspace raises.
CollectArtifacts(s, outputs) ==
    /\ Session(s, "collect", IF outputs = "outside" THEN "raised" ELSE "record")
    /\ session' = [session EXCEPT ![s].outputs = outputs = "valid",
                                  ![s].artifacts = outputs # "outside"]

Passed(s) == session[s].exit = "zero" /\ session[s].outputs

RecordSession(s) ==
    /\ Session(s, "record", "done")
    /\ session' = [session EXCEPT ![s].status = IF Passed(s) THEN "completed" ELSE "failed"]

\* Built-in packaging: the archive's artifact is recorded, then the session.
RecordArchive(s) ==
    \/ /\ Session(s, "archive", "record")
       /\ session' = [session EXCEPT ![s].exit = "zero", ![s].ranOn = source,
                                     ![s].outputs = TRUE, ![s].artifacts = TRUE]
    \/ /\ Session(s, "archive", "raised")
       /\ UNCHANGED session

SessionDies(s) ==
    /\ sessionAt[s] \notin {"new", "done", "raised"} /\ managerDeaths < MaxManagerDeaths
    /\ managerDeaths' = managerDeaths + 1
    /\ sessionAt' = [sessionAt EXCEPT ![s] = "raised"]
    /\ UNCHANGED <<launchVars, commandVars, session, source>>

EditSource ==
    /\ source < MaxSourceEdits
    /\ source' = source + 1
    /\ UNCHANGED <<launchVars, commandVars, sessionAt, session, managerDeaths>>

ProcessesNext ==
    \/ \E l \in Launches : StartLaunch(l) \/ InsertRow(l) \/ StartDies(l) \/ LauncherStep(l)
    \/ \E c \in Commands :
          \/ \E l \in Launches, stop \in BOOLEAN : ReadRow(c, l, stop)
          \/ LookForResult(c) \/ LookForLauncher(c) \/ SettleRow(c)
          \/ MarkStopping(c) \/ CheckIdentity(c)
          \/ \E stuck \in BOOLEAN : TerminateLauncher(c, stuck)
          \/ RecordStop(c) \/ CommandDies(c)

SessionsNext ==
    \/ \E s \in Sessions :
          \/ \E p \in ActionProfiles : BeginAction(s, p)
          \/ PrepareWorkspace(s)
          \/ \E exit \in {"zero", "other", "exception"} : RunAction(s, exit)
          \/ \E outputs \in {"valid", "invalid", "outside"} : CollectArtifacts(s, outputs)
          \/ RecordSession(s) \/ RecordArchive(s) \/ SessionDies(s)
    \/ EditSource

ProjectNext == ProcessesNext \/ SessionsNext

ProjectSpec == ProjectInit /\ [][ProjectNext]_projectVars

-----------------------------------------------------------------------------
ProjectTypeOK ==
    /\ launchAt \in [Launches -> {"new", "spawned", "recorded", "lost"}]
    /\ row \in [Launches -> RowStates]
    /\ pidHolder \in [Launches -> {"none", "launcher", "foreign"}]
    /\ program \in [Launches -> {"off", "on", "stuck"}]
    /\ result \in [Launches -> {"none", "ok", "error", "survivors"}]
    /\ commandAt \in [Commands -> CommandSteps] /\ commandOn \in [Commands -> Launches]
    /\ sawForeign \in [Commands -> BOOLEAN] /\ signalled \subseteq Launches
    /\ sessionAt \in [Sessions -> SessionSteps]
    /\ source \in 0 .. MaxSourceEdits /\ managerDeaths \in 0 .. MaxManagerDeaths

\* Whatever the order of starts, deaths, status and stop commands, a row that says
\* succeeded has a result that says so; one that says stopped, or that the worker
\* disappeared, has no launcher and no program any more (but one that could not be
\* killed); and no process is signalled that was not the launcher when
\* its identity was checked (process_status, stop_process).
RowsMatchProcesses ==
    /\ \A l \in Launches :
          /\ row[l] = "succeeded" => result[l] = "ok"
          /\ row[l] \in {"stopped", "worker_disappeared"} =>
                /\ pidHolder[l] # "launcher"
                /\ program[l] # "on"
    /\ signalled = {}
=============================================================================
