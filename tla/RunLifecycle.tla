----------------------------- MODULE RunLifecycle -----------------------------
(***************************************************************************)
(* One run under RunCoordinator (lib/product/planning_runtime.dart) in     *)
(* several processes that share the workflow database: execute claims the  *)
(* run lease and walks over the work items, pause, resume and cancel       *)
(* arrive from the user while it does, a paused run is cancelled without   *)
(* an executor, and recoverInFlightRuns reconciles what a crash left.      *)
(*                                                                         *)
(* One action is one database statement, one change of the project, or one *)
(* stretch of Dart between two awaits. The files of a work item are one    *)
(* effect here; how they are journaled is WorkspaceTransaction's subject.  *)
(***************************************************************************)
EXTENDS Integers, FiniteSets

CONSTANTS
    Procs,         \* processes of the application
    ItemCount,     \* work items of the plan, in order
    Deps,          \* WorkItem.dependencies
    MaxAttempts,   \* WorkItem.maxAttempts
    MaxCommands,   \* bound on what the user asks for
    MaxCrashes,    \* bound on process crashes
    MaxStalls      \* bound on leases that expire under a living process

Items == 1 .. ItemCount

ASSUME LifecycleAssumption ==
    /\ ItemCount \in Nat \ {0} /\ MaxAttempts \in Nat \ {0}
    /\ Deps \in [Items -> SUBSET Items]
    /\ MaxCommands \in Nat /\ MaxCrashes \in Nat /\ MaxStalls \in Nat

VARIABLES
    row,         \* runs.run_json: state, and per item its state and attempts
    lease,       \* run_leases: owner, and whether expires_at is ahead
    checkpoint,  \* a workspace_committed checkpoint exists
    asking,      \* an agent_deferred_interaction is pending
    evidence,    \* the (item, attempt) pairs whose mutations are recorded
    effects,     \* items whose changes are in the project
    journal,     \* items whose records in journal.jsonl are applied
    marker,      \* the COMMITTED marker of the transaction
    exec,        \* by process: the execution of the run
    control,     \* by process: _controls[run]
    registered,  \* by process: whose lease _runLeaseOwners[run] names
    cmd,         \* by process: a pause, resume or cancel under way
    commands, crashes, stalls

database == <<row, lease, checkpoint, asking, evidence>>
workspace == <<effects, journal, marker>>
memory == <<exec, control, registered, cmd>>
bounds == <<commands, crashes, stalls>>
vars == <<database, workspace, memory, bounds>>

-----------------------------------------------------------------------------
RunStates == {"awaitingApproval", "running", "paused", "cancelling",
              "cancelled", "succeeded", "failed", "interrupted"}

ItemStates == {"queued", "running", "blocked", "succeeded", "failed", "cancelled"}

Rows == [state : RunStates, item : [Items -> ItemStates],
         attempts : [Items -> 0 .. MaxAttempts]]

FreshRow == [state |-> "awaitingApproval", item |-> [i \in Items |-> "queued"],
             attempts |-> [i \in Items |-> 0]]

Terminal == {"cancelled", "succeeded", "failed"}

AllSucceeded(run) == \A i \in Items : run.item[i] = "succeeded"

(* A lease is owned by an execution or a durable cancellation of a process, *)
(* by a process that is gone, or by nobody.                                *)
Owners == (Procs \X {"exec", "cancel"}) \cup {<<"gone">>, <<"none">>}

Free == [owner |-> <<"none">>, live |-> FALSE]

(* Mutant: the expiry is compared the wrong way round. *)
Available_Reversed == lease.owner = <<"none">> \/ lease.live

Available == lease.owner = <<"none">> \/ ~lease.live

Owns(p, task) == lease.owner = <<p, task>>

ExecSteps ==
    {"idle", "down", "read", "recover", "reread", "acquire", "waiting",
     "start", "renew", "put", "begin", "item", "attempt", "work", "model",
     "tool", "suspend", "itemDone", "attemptFailed", "decide", "verify", "commit",
     "checkpoint", "catch", "final", "exit"}

(* An execution: its step, its copy of the run, the item at hand, where a  *)
(* save goes on to and where its exception surfaces, and the transaction   *)
(* in memory.                                                              *)
IdleExec == [pc |-> "idle", run |-> FreshRow, item |-> 1, attempt |-> 0, then |-> "idle",
             raise |-> "exit", known |-> {}, committed |-> FALSE,
             cancelled |-> FALSE]

NoControl == [present |-> FALSE, paused |-> FALSE, cancelled |-> FALSE,
              deferred |-> FALSE]

IdleCmd == [pc |-> "idle", kind |-> "none", had |-> "null", run |-> FreshRow]

Goto(p, step) == exec' = [exec EXCEPT ![p] = [@ EXCEPT !.pc = step]]

-----------------------------------------------------------------------------
(* _save: the lease is renewed, then the row is written; a lease of another *)
(* owner raises run_lease_lost.                                            *)

Save(p, run, then, raise) ==
    exec' = [exec EXCEPT ![p] = [@ EXCEPT !.run = run, !.pc = "renew",
                                          !.then = then, !.raise = raise]]

MayWrite(p) == registered[p] = "none" \/ Owns(p, registered[p])

(* renewRunLease does not ask whether the lease had expired. *)
Touched(p) == IF Owns(p, registered[p]) THEN [lease EXCEPT !.live = TRUE] ELSE lease

RenewBeforeSave(p) ==
    /\ exec[p].pc = "renew"
    /\ IF MayWrite(p)
       THEN Goto(p, "put") /\ lease' = Touched(p)
       ELSE Goto(p, exec[p].raise) /\ UNCHANGED lease
    /\ UNCHANGED <<row, checkpoint, asking, evidence, workspace, control,
                   registered, cmd, bounds>>

Put(p) ==
    /\ exec[p].pc = "put"
    /\ row' = exec[p].run
    /\ exec' = [exec EXCEPT ![p] = [@ EXCEPT !.pc = exec[p].then, !.then = "idle",
                                             !.raise = "exit"]]
    /\ UNCHANGED <<lease, checkpoint, asking, evidence, workspace, control,
                   registered, cmd, bounds>>

(* The heartbeat; a lost lease cancels the execution. *)
Heartbeat(p) ==
    /\ registered[p] # "none"
    /\ IF Owns(p, registered[p])
       THEN lease' = Touched(p) /\ UNCHANGED control
       ELSE /\ control' = [control EXCEPT ![p] = [@ EXCEPT !.cancelled = control[p].present]]
            /\ UNCHANGED lease
    /\ UNCHANGED <<row, checkpoint, asking, evidence, workspace, exec,
                   registered, cmd, bounds>>

-----------------------------------------------------------------------------
(* recoverInFlightRuns *)

InFlight == row.state \in {"running", "cancelling"}

(* Mutant: the event type is stored as the state. *)
Recovered_EventType ==
    [row EXCEPT !.state = IF checkpoint /\ AllSucceeded(row)
                          THEN "recovered_committed" ELSE "interrupted"]

(* Mutant: the items alone decide. *)
Recovered_ItemsOnly ==
    [row EXCEPT !.state = IF AllSucceeded(row) THEN "succeeded" ELSE "interrupted"]

Recovered ==
    [row EXCEPT !.state = IF checkpoint /\ AllSucceeded(row)
                          THEN "succeeded" ELSE "interrupted"]

RecoverInFlightRuns ==
    IF InFlight /\ Available THEN row' = Recovered /\ lease' = Free
                             ELSE UNCHANGED <<row, lease>>

(* The process starts: reconcileInterruptedRuns. *)
Startup(p) ==
    /\ exec[p].pc = "down"
    /\ RecoverInFlightRuns
    /\ Goto(p, "idle")
    /\ UNCHANGED <<checkpoint, asking, evidence, workspace, control,
                   registered, cmd, bounds>>

-----------------------------------------------------------------------------
(* execute *)

Command == commands < MaxCommands /\ commands' = commands + 1

Execute(p) ==
    /\ exec[p].pc = "idle" /\ Command
    /\ Goto(p, "read")
    /\ UNCHANGED <<database, workspace, control, registered, cmd, crashes, stalls>>

Executable == row.state \in {"awaitingApproval", "interrupted", "paused"}

(* The row is read; a run in flight is recovered first and read again.     *)
ReadRun(p) ==
    /\ exec[p].pc \in {"read", "reread"}
    /\ \/ /\ InFlight
          /\ Goto(p, IF exec[p].pc = "read" THEN "recover" ELSE "idle")
       \/ /\ Executable /\ ~asking
          /\ exec' = [exec EXCEPT ![p] = [@ EXCEPT !.pc = "acquire", !.run = row]]
       \/ /\ ~InFlight /\ (Executable => asking)
          /\ Goto(p, "idle")
    /\ UNCHANGED <<database, workspace, control, registered, cmd, bounds>>

Recover(p) ==
    /\ exec[p].pc = "recover"
    /\ RecoverInFlightRuns
    /\ Goto(p, "reread")
    /\ UNCHANGED <<checkpoint, asking, evidence, workspace, control,
                   registered, cmd, bounds>>

(* acquireRunLease, under an owner id made for this call. *)
AcquireLease(p) ==
    /\ exec[p].pc = "acquire"
    /\ IF Available
       THEN /\ lease' = [owner |-> <<p, "exec">>, live |-> TRUE]
            /\ registered' = [registered EXCEPT ![p] = "exec"]
            /\ control' = [control EXCEPT ![p] = [NoControl EXCEPT !.present = TRUE]]
            /\ Goto(p, "waiting")
       ELSE /\ exec' = [exec EXCEPT ![p] = IdleExec]
            /\ UNCHANGED <<lease, registered, control>>
    /\ UNCHANGED <<row, checkpoint, asking, evidence, workspace, cmd, bounds>>

(* ProjectResourceLocks: one at a time in a process. *)
CancelHoldsProject(p) == cmd[p].pc \in {"dread", "dbegin", "drenew", "dput"}

ExecHoldsProject(p) ==
    exec[p].pc \notin {"idle", "down", "read", "recover", "reread", "acquire",
                       "waiting", "exit"}

EnterProject(p) ==
    /\ exec[p].pc = "waiting" /\ ~CancelHoldsProject(p)
    /\ Goto(p, "start")
    /\ UNCHANGED <<database, workspace, control, registered, cmd, bounds>>

-----------------------------------------------------------------------------
(* _executeLocked *)

(* Preflight: the run may be blocked, or the project may be missing. *)
Start(p) ==
    /\ exec[p].pc = "start"
    /\ \/ Save(p, [exec[p].run EXCEPT !.state = "running"], "begin", "exit")
       \/ Save(p, [exec[p].run EXCEPT !.state = "failed"], "exit", "exit")
       \/ Goto(p, "exit")
    /\ UNCHANGED <<database, workspace, control, registered, cmd, bounds>>

(* WorkspaceTransaction.begin, which may refuse; a committed transaction   *)
(* only lets a run with all items succeeded finish.                        *)
Begin(p) ==
    /\ exec[p].pc = "begin"
    /\ \/ /\ exec' = [exec EXCEPT ![p] = [@ EXCEPT !.pc = "item", !.known = journal]]
          /\ ~marker
       \/ /\ marker /\ AllSucceeded(exec[p].run)
          /\ exec' = [exec EXCEPT ![p] =
                        [@ EXCEPT !.run = [exec[p].run EXCEPT !.state = "succeeded"],
                                  !.pc = "renew", !.then = "exit",
                                  !.raise = "catch", !.committed = TRUE]]
       \/ /\ marker /\ ~AllSucceeded(exec[p].run)
          /\ exec' = [exec EXCEPT ![p] = [@ EXCEPT !.pc = "catch", !.committed = TRUE]]
       \/ Goto(p, "exit")
    /\ UNCHANGED <<database, workspace, control, registered, cmd, bounds>>

(* _awaitControl: a cancelled execution throws, a paused one waits until   *)
(* it is resumed or its wall-time budget is spent.                         *)
Proceeds(p) == ~control[p].cancelled /\ ~control[p].paused

(* Mutant: the wall-time budget is not checked while paused. *)
Stopped_NoTimeout(p) ==
    /\ exec[p].pc \in {"item", "attempt", "work"}
    /\ exec[p].item <= ItemCount
    /\ control[p].cancelled
    /\ Goto(p, IF exec[p].pc = "work" THEN "attemptFailed" ELSE "catch")
    /\ UNCHANGED <<database, workspace, control, registered, cmd, bounds>>

Stopped(p) ==
    /\ exec[p].pc \in {"item", "attempt", "work"}
    /\ exec[p].item <= ItemCount
    /\ control[p].cancelled \/ control[p].paused
    /\ Goto(p, IF exec[p].pc = "work" THEN "attemptFailed" ELSE "catch")
    /\ UNCHANGED <<database, workspace, control, registered, cmd, bounds>>

DependenciesPassed(run, i) == \A d \in Deps[i] : run.item[d] = "succeeded"

(* An attempt that was running when the process stopped is taken up again. *)
FirstAttempt(run, i) ==
    IF run.item[i] = "running" /\ run.attempts[i] > 0 THEN run.attempts[i]
                                                      ELSE run.attempts[i] + 1

(* The head of the loop over the items; the row is read again. *)
NextItem(p) ==
    /\ exec[p].pc = "item"
    /\ exec[p].item <= ItemCount => Proceeds(p)
    /\ LET i == exec[p].item IN
        \/ /\ i > ItemCount
           /\ Goto(p, "verify")
        \/ /\ i <= ItemCount /\ row.item[i] = "succeeded"
           /\ exec' = [exec EXCEPT ![p] = [@ EXCEPT !.run = row, !.item = i + 1]]
        \/ /\ i <= ItemCount /\ row.item[i] # "succeeded"
           /\ DependenciesPassed(row, i)
           /\ exec' = [exec EXCEPT ![p] = [@ EXCEPT !.run = row, !.pc = "attempt",
                                                    !.attempt = FirstAttempt(row, i)]]
        \/ /\ i <= ItemCount /\ row.item[i] # "succeeded"
           /\ ~DependenciesPassed(row, i)
           /\ Save(p, [row EXCEPT !.item[i] = "blocked"], "catch", "catch")
    /\ UNCHANGED <<database, workspace, control, registered, cmd, bounds>>

Attempt(p) ==
    /\ exec[p].pc = "attempt"
    /\ LET i == exec[p].item
           n == exec[p].attempt IN
        \/ /\ n <= MaxAttempts /\ Proceeds(p)
           /\ Save(p, [exec[p].run EXCEPT !.item[i] = "running", !.attempts[i] = n],
                   "work", "catch")
        \/ /\ n > MaxAttempts
           /\ Save(p, [exec[p].run EXCEPT !.item[i] = "failed"], "catch", "catch")
    /\ UNCHANGED <<database, workspace, control, registered, cmd, bounds>>

(* _executeWorkItem, turn by turn: the counters are saved, the model is    *)
(* asked, the row is read again before a tool runs.                        *)
Turn(p) ==
    /\ exec[p].pc = "work" /\ Proceeds(p)
    /\ Save(p, exec[p].run, "model", "attemptFailed")
    /\ UNCHANGED <<database, workspace, control, registered, cmd, bounds>>

ChooseTool(p) ==
    /\ exec[p].pc = "model"
    /\ exec' = [exec EXCEPT ![p] = [@ EXCEPT !.run = row, !.pc = "tool"]]
    /\ UNCHANGED <<database, workspace, control, registered, cmd, bounds>>

(* The tool changes the project. A call the same attempt completed before  *)
(* is replayed without its effect when its arguments are the same.         *)
RunTool(p) ==
    /\ exec[p].pc = "tool"
    /\ LET i == exec[p].item
           call == <<i, exec[p].attempt>> IN
       \E new \in IF call \in evidence THEN {{}, {i}} ELSE {{i}} :
        /\ effects' = effects \cup new /\ journal' = journal \cup new
        /\ evidence' = evidence \cup {call}
        /\ exec' = [exec EXCEPT ![p] = [@ EXCEPT !.known = exec[p].known \cup new,
                      !.pc = "renew", !.then = "work", !.raise = "attemptFailed"]]
    /\ UNCHANGED <<row, lease, checkpoint, asking, marker, control, registered,
                   cmd, bounds>>

HasEvidence(i) == \E call \in evidence : call[1] = i

CompleteItem(p) ==
    /\ exec[p].pc = "model" /\ HasEvidence(exec[p].item)
    /\ Save(p, [exec[p].run EXCEPT !.item[exec[p].item] = "succeeded"],
            "itemDone", "attemptFailed")
    /\ UNCHANGED <<database, workspace, control, registered, cmd, bounds>>

ItemDone(p) ==
    /\ exec[p].pc = "itemDone"
    /\ exec' = [exec EXCEPT ![p] = [@ EXCEPT !.item = exec[p].item + 1,
                                             !.pc = "item"]]
    /\ UNCHANGED <<database, workspace, control, registered, cmd, bounds>>

(* The agent asks the user: the run is saved as paused, the transaction    *)
(* object is dropped, the execution ends.                                  *)
Defer(p) ==
    /\ exec[p].pc = "model" /\ ~asking
    /\ asking' = TRUE
    /\ control' = [control EXCEPT ![p] = [@ EXCEPT !.deferred = TRUE]]
    /\ Goto(p, "suspend")
    /\ UNCHANGED <<row, lease, checkpoint, evidence, workspace, registered, cmd, bounds>>

Suspend(p) ==
    /\ exec[p].pc = "suspend"
    /\ Save(p, [row EXCEPT !.state = "paused"], "exit", "catch")
    /\ UNCHANGED <<database, workspace, control, registered, cmd, bounds>>

(* The user answers the question. *)
Answer ==
    /\ asking /\ asking' = FALSE
    /\ UNCHANGED <<row, lease, checkpoint, evidence, workspace, memory, bounds>>

(* The model, a tool or the turn limit fails the attempt. *)
AttemptFails(p) ==
    /\ exec[p].pc \in {"model", "tool"}
    /\ Goto(p, "attemptFailed")
    /\ UNCHANGED <<database, workspace, control, registered, cmd, bounds>>

AttemptFailed(p) ==
    /\ exec[p].pc = "attemptFailed"
    /\ Save(p, row, "decide", "catch")
    /\ UNCHANGED <<database, workspace, control, registered, cmd, bounds>>

(* _retryDecision: cancellation and the last attempt are final. *)
Decide(p) ==
    /\ exec[p].pc = "decide"
    /\ LET i == exec[p].item IN
        \/ /\ exec[p].attempt < MaxAttempts /\ ~control[p].cancelled
           /\ exec' = [exec EXCEPT ![p] = [@ EXCEPT
                        !.run = [exec[p].run EXCEPT !.item[i] = "queued"],
                        !.attempt = exec[p].attempt + 1, !.pc = "renew", !.then = "attempt",
                        !.raise = "catch"]]
        \/ Save(p, [exec[p].run EXCEPT !.item[i] = "failed"], "catch", "catch")
    /\ UNCHANGED <<database, workspace, control, registered, cmd, bounds>>

(* The deterministic verification of builds and fixes saves the run; other *)
(* modes go straight to the commit. It may fail.                           *)
Verify(p) ==
    /\ exec[p].pc = "verify"
    /\ \/ /\ ~control[p].cancelled
          /\ Save(p, exec[p].run, "commit", "catch") \/ Goto(p, "commit")
       \/ Goto(p, "catch")
    /\ UNCHANGED <<database, workspace, control, registered, cmd, bounds>>

(* transaction.commit: the marker, then the checkpoint, then the run. *)
Commit(p) ==
    /\ exec[p].pc = "commit"
    /\ marker' = TRUE
    /\ exec' = [exec EXCEPT ![p] = [@ EXCEPT !.committed = TRUE, !.pc = "checkpoint"]]
    /\ UNCHANGED <<database, effects, journal, control, registered, cmd, bounds>>

RecordCheckpoint(p) ==
    /\ exec[p].pc = "checkpoint"
    /\ checkpoint' = TRUE
    /\ Save(p, [exec[p].run EXCEPT !.state = "succeeded"], "exit", "catch")
    /\ UNCHANGED <<row, lease, asking, evidence, workspace, control, registered,
                   cmd, bounds>>

(* The catch of _executeLocked. *)
Catch(p) ==
    /\ exec[p].pc = "catch"
    /\ exec' = [exec EXCEPT ![p] = [@ EXCEPT !.cancelled = control[p].cancelled,
                                             !.pc = "final"]]
    /\ IF exec[p].committed THEN UNCHANGED <<effects, journal>>
       ELSE effects' = effects \ exec[p].known /\ journal' = journal \ exec[p].known
    /\ UNCHANGED <<database, marker, control, registered, cmd, bounds>>

(* Mutant: a cancelled execution ends as cancelled, committed or not. *)
Final_CancelledFirst(p) ==
    /\ exec[p].pc = "final"
    /\ LET state == IF exec[p].cancelled THEN "cancelled"
                    ELSE IF ~exec[p].committed THEN "failed"
                    ELSE IF AllSucceeded(row) THEN "succeeded" ELSE "interrupted"
       IN  Save(p, [row EXCEPT !.state = state], "exit", "exit")
    /\ UNCHANGED <<database, workspace, control, registered, cmd, bounds>>

Final(p) ==
    /\ exec[p].pc = "final"
    /\ LET state == IF exec[p].committed
                    THEN IF AllSucceeded(row) THEN "succeeded" ELSE "interrupted"
                    ELSE IF exec[p].cancelled THEN "cancelled" ELSE "failed"
       IN  Save(p, [row EXCEPT !.state = state], "exit", "exit")
    /\ UNCHANGED <<database, workspace, control, registered, cmd, bounds>>

(* whenComplete *)
Exit(p) ==
    /\ exec[p].pc = "exit"
    /\ lease' = IF Owns(p, "exec") THEN Free ELSE lease
    /\ registered' = [registered EXCEPT ![p] = IF @ = "exec" THEN "none" ELSE @]
    /\ control' = [control EXCEPT ![p] = NoControl]
    /\ cmd' = [cmd EXCEPT ![p] =
                [@ EXCEPT !.had = IF cmd[p].had = "live" THEN "gone" ELSE cmd[p].had]]
    /\ exec' = [exec EXCEPT ![p] = IdleExec]
    /\ UNCHANGED <<row, checkpoint, asking, evidence, workspace, bounds>>

-----------------------------------------------------------------------------
(* pause, resume and cancel. Each reads the row, and then saves the copy it *)
(* read with another state.                                                *)

Issue(p, step, kind) ==
    cmd' = [cmd EXCEPT ![p] = [IdleCmd EXCEPT !.pc = step, !.kind = kind]]

Pause(p) ==
    /\ cmd[p].pc = "idle" /\ control[p].present /\ Command
    /\ control' = [control EXCEPT ![p] = [@ EXCEPT !.paused = TRUE]]
    /\ Issue(p, "read", "paused")
    /\ UNCHANGED <<database, workspace, exec, registered, crashes, stalls>>

(* Without a control resume is execute. *)
Resume(p) ==
    /\ cmd[p].pc = "idle" /\ Command
    /\ ~asking /\ control[p].present /\ ~control[p].deferred
    /\ control' = [control EXCEPT ![p] = [@ EXCEPT !.paused = FALSE]]
    /\ Issue(p, "read", "running")
    /\ UNCHANGED <<database, workspace, exec, registered, crashes, stalls>>

ReadForSave(p) ==
    /\ cmd[p].pc = "read"
    /\ cmd' = [cmd EXCEPT ![p] = [@ EXCEPT !.pc = "renew", !.run = row]]
    /\ UNCHANGED <<database, workspace, exec, control, registered, bounds>>

(* A cancel of a run that is about to suspend waits for its execution.     *)
Cancel(p) ==
    /\ cmd[p].pc = "idle" /\ exec[p].pc # "down" /\ Command
    /\ IF control[p].present /\ control[p].deferred
       THEN /\ control' = [control EXCEPT ![p] = [@ EXCEPT !.cancelled = TRUE]]
            /\ Issue(p, "await", "cancelling")
       ELSE /\ cmd' = [cmd EXCEPT ![p] =
                 [IdleCmd EXCEPT !.pc = "cancel", !.kind = "cancelling",
                                 !.had = IF control[p].present THEN "live" ELSE "null"]]
            /\ UNCHANGED control
    /\ UNCHANGED <<database, workspace, exec, registered, crashes, stalls>>

AwaitExecution(p) ==
    /\ cmd[p].pc = "await" /\ ~control[p].present
    /\ cmd' = [cmd EXCEPT ![p] = [@ EXCEPT !.pc = "cancel"]]
    /\ UNCHANGED <<database, workspace, exec, control, registered, bounds>>

(* A terminal run is left alone, a paused run without a control is         *)
(* cancelled here, any other is marked for its execution.                  *)
ReadForCancel(p) ==
    /\ cmd[p].pc = "cancel"
    /\ \/ /\ row.state \in Terminal
          /\ cmd' = [cmd EXCEPT ![p] = IdleCmd]
          /\ UNCHANGED control
       \/ /\ row.state = "paused" /\ cmd[p].had = "null"
          /\ cmd' = [cmd EXCEPT ![p] = [@ EXCEPT !.pc = "dacquire"]]
          /\ UNCHANGED control
       \/ /\ row.state \notin Terminal
          /\ row.state = "paused" => cmd[p].had # "null"
          /\ cmd' = [cmd EXCEPT ![p] = [@ EXCEPT !.pc = "renew", !.run = row]]
          /\ control' = [control EXCEPT ![p] =
                           [@ EXCEPT !.cancelled =
                              control[p].cancelled \/ cmd[p].had = "live"]]
    /\ UNCHANGED <<database, workspace, exec, registered, bounds>>

CommandRenews(p) ==
    /\ cmd[p].pc \in {"renew", "drenew"}
    /\ IF MayWrite(p)
       THEN /\ lease' = Touched(p)
            /\ cmd' = [cmd EXCEPT ![p] =
              [@ EXCEPT !.pc = IF cmd[p].pc = "renew" THEN "put" ELSE "dput"]]
       ELSE /\ cmd' = [cmd EXCEPT ![p] = IF cmd[p].pc = "renew" THEN IdleCmd
                                         ELSE [@ EXCEPT !.pc = "drelease"]]
            /\ UNCHANGED lease
    /\ UNCHANGED <<row, checkpoint, asking, evidence, workspace, exec, control,
                   registered, bounds>>

CommandPuts(p) ==
    /\ cmd[p].pc = "put"
    /\ row' = [cmd[p].run EXCEPT !.state = cmd[p].kind]
    /\ cmd' = [cmd EXCEPT ![p] = IdleCmd]
    /\ UNCHANGED <<lease, checkpoint, asking, evidence, workspace, exec, control,
                   registered, bounds>>

-----------------------------------------------------------------------------
(* _cancelDurablyPausedRun *)

AcquireCancelLease(p) ==
    /\ cmd[p].pc = "dacquire"
    /\ IF Available
       THEN /\ lease' = [owner |-> <<p, "cancel">>, live |-> TRUE]
            /\ registered' = [registered EXCEPT ![p] = "cancel"]
            /\ cmd' = [cmd EXCEPT ![p] = [@ EXCEPT !.pc = "dwait"]]
       ELSE /\ cmd' = [cmd EXCEPT ![p] = IdleCmd]
            /\ UNCHANGED <<lease, registered>>
    /\ UNCHANGED <<row, checkpoint, asking, evidence, workspace, exec, control, bounds>>

EnterProjectToCancel(p) ==
    /\ cmd[p].pc = "dwait" /\ ~ExecHoldsProject(p)
    /\ cmd' = [cmd EXCEPT ![p] = [@ EXCEPT !.pc = "dread"]]
    /\ UNCHANGED <<database, workspace, exec, control, registered, bounds>>

ReadPaused(p) ==
    /\ cmd[p].pc = "dread"
    /\ cmd' = [cmd EXCEPT ![p] =
                 [@ EXCEPT !.pc = IF row.state = "paused" THEN "dbegin" ELSE "drelease",
                           !.run = row]]
    /\ UNCHANGED <<database, workspace, exec, control, registered, bounds>>

CancelledRow(run) ==
    [run EXCEPT !.state = "cancelled",
                !.item = [i \in Items |-> IF run.item[i] = "running" THEN "cancelled"
                                                                     ELSE run.item[i]]]

(* Mutant: the commit is not looked at. *)
RollBackPaused_Committed(p) ==
    /\ cmd[p].pc = "dbegin"
    /\ effects' = effects \ journal /\ journal' = {}
    /\ cmd' = [cmd EXCEPT ![p] = [@ EXCEPT !.pc = "drenew", !.run = CancelledRow(cmd[p].run)]]
    /\ UNCHANGED <<database, marker, exec, control, registered, bounds>>

(* A committed workspace cannot be cancelled. *)
RollBackPaused(p) ==
    /\ cmd[p].pc = "dbegin"
    /\ IF marker
       THEN /\ cmd' = [cmd EXCEPT ![p] = [@ EXCEPT !.pc = "drelease"]]
            /\ UNCHANGED <<effects, journal>>
       ELSE /\ effects' = effects \ journal /\ journal' = {}
            /\ cmd' = [cmd EXCEPT ![p] = [@ EXCEPT !.pc = "drenew",
                                                   !.run = CancelledRow(cmd[p].run)]]
    /\ UNCHANGED <<database, marker, exec, control, registered, bounds>>

PutCancelled(p) ==
    /\ cmd[p].pc = "dput"
    /\ row' = cmd[p].run
    /\ cmd' = [cmd EXCEPT ![p] = [@ EXCEPT !.pc = "drelease"]]
    /\ UNCHANGED <<lease, checkpoint, asking, evidence, workspace, exec, control,
                   registered, bounds>>

ReleaseCancelLease(p) ==
    /\ cmd[p].pc = "drelease"
    /\ lease' = IF Owns(p, "cancel") THEN Free ELSE lease
    /\ registered' = [registered EXCEPT ![p] = IF @ = "cancel" THEN "none" ELSE @]
    /\ cmd' = [cmd EXCEPT ![p] = IdleCmd]
    /\ UNCHANGED <<row, checkpoint, asking, evidence, workspace, exec, control, bounds>>

-----------------------------------------------------------------------------
(* Crashes and time *)

Crash(p) ==
    /\ exec[p].pc # "down" /\ crashes < MaxCrashes
    /\ crashes' = crashes + 1
    /\ exec' = [exec EXCEPT ![p] = [IdleExec EXCEPT !.pc = "down"]]
    /\ cmd' = [cmd EXCEPT ![p] = IdleCmd]
    /\ control' = [control EXCEPT ![p] = NoControl]
    /\ registered' = [registered EXCEPT ![p] = "none"]
    /\ lease' = IF Owns(p, "exec") \/ Owns(p, "cancel")
                THEN [lease EXCEPT !.owner = <<"gone">>] ELSE lease
    /\ UNCHANGED <<row, checkpoint, asking, evidence, workspace, commands, stalls>>

(* The lease of a process that is gone runs out; that of a living process  *)
(* only when the machine sleeps or its event loop stands still for longer  *)
(* than the lease.                                                         *)
Expire ==
    /\ lease.live
    /\ \/ lease.owner = <<"gone">> /\ UNCHANGED stalls
       \/ lease.owner # <<"gone">> /\ stalls < MaxStalls /\ stalls' = stalls + 1
    /\ lease' = [lease EXCEPT !.live = FALSE]
    /\ UNCHANGED <<row, checkpoint, asking, evidence, workspace, memory,
                   commands, crashes>>

-----------------------------------------------------------------------------
Init ==
    /\ row = FreshRow /\ lease = Free
    /\ checkpoint = FALSE /\ asking = FALSE /\ evidence = {}
    /\ effects = {} /\ journal = {} /\ marker = FALSE
    /\ exec = [p \in Procs |-> IdleExec]
    /\ control = [p \in Procs |-> NoControl]
    /\ registered = [p \in Procs |-> "none"]
    /\ cmd = [p \in Procs |-> IdleCmd]
    /\ commands = 0 /\ crashes = 0 /\ stalls = 0

(* The end of an attempt, which the turn limit forces. *)
EndAttempt(p) == CompleteItem(p) \/ Defer(p) \/ AttemptFails(p)

Execution(p) ==
    \/ RenewBeforeSave(p) \/ Put(p)
    \/ ReadRun(p) \/ Recover(p) \/ AcquireLease(p) \/ EnterProject(p)
    \/ Start(p) \/ Begin(p) \/ Stopped(p) \/ NextItem(p) \/ Attempt(p)
    \/ Turn(p) \/ ChooseTool(p) \/ RunTool(p) \/ EndAttempt(p)
    \/ ItemDone(p) \/ Suspend(p) \/ AttemptFailed(p) \/ Decide(p)
    \/ Verify(p) \/ Commit(p) \/ RecordCheckpoint(p)
    \/ Catch(p) \/ Final(p) \/ Exit(p)

UserCommand(p) ==
    \/ ReadForSave(p) \/ AwaitExecution(p) \/ ReadForCancel(p)
    \/ CommandRenews(p) \/ CommandPuts(p)
    \/ AcquireCancelLease(p) \/ EnterProjectToCancel(p) \/ ReadPaused(p)
    \/ RollBackPaused(p) \/ PutCancelled(p) \/ ReleaseCancelLease(p)

Next ==
    \/ \E p \in Procs :
        \/ Execution(p) \/ UserCommand(p) \/ Heartbeat(p)
        \/ Execute(p) \/ Pause(p) \/ Resume(p) \/ Cancel(p)
        \/ Startup(p) \/ Crash(p)
    \/ Answer
    \/ Expire

Spec == Init /\ [][Next]_vars

(* Dart schedules every ready continuation, timers fire, and the turn      *)
(* limit ends every attempt. Nothing is assumed of the user.               *)
Fairness ==
    \A p \in Procs :
        /\ WF_vars(Execution(p)) /\ WF_vars(UserCommand(p))
        /\ SF_vars(EndAttempt(p))

LiveSpec == Spec /\ Fairness

-----------------------------------------------------------------------------
(* Properties *)

Executions ==
    [pc : ExecSteps, run : Rows, item : 1 .. ItemCount + 1,
     attempt : 0 .. MaxAttempts + 1, then : ExecSteps, raise : ExecSteps,
     known : SUBSET Items, committed : BOOLEAN, cancelled : BOOLEAN]

Controls == [present : BOOLEAN, paused : BOOLEAN, cancelled : BOOLEAN,
             deferred : BOOLEAN]

CmdSteps == {"idle", "read", "renew", "put", "await", "cancel", "dacquire",
             "dwait", "dread", "dbegin", "drenew", "dput", "drelease"}

Cmds == [pc : CmdSteps, kind : {"none", "paused", "running", "cancelling"},
         had : {"null", "live", "gone"}, run : Rows]

(* Every variable has its shape. *)
TypeOK ==
    /\ row \in Rows
    /\ lease \in [owner : Owners, live : BOOLEAN]
    /\ checkpoint \in BOOLEAN /\ asking \in BOOLEAN /\ marker \in BOOLEAN
    /\ evidence \subseteq Items \X (1 .. MaxAttempts)
    /\ effects \subseteq Items /\ journal \subseteq Items
    /\ exec \in [Procs -> Executions]
    /\ control \in [Procs -> Controls]
    /\ registered \in [Procs -> {"none", "exec", "cancel"}]
    /\ cmd \in [Procs -> Cmds]
    /\ commands \in 0 .. MaxCommands
    /\ crashes \in 0 .. MaxCrashes /\ stalls \in 0 .. MaxStalls

DurablyCancels(p) ==
    cmd[p].pc \in {"dwait", "dread", "dbegin", "drenew", "dput", "drelease"}

(* Who is between acquiring a lease and releasing it. *)
Engaged ==
    {<<p, "exec">> : p \in {q \in Procs : control[q].present}}
    \cup {<<p, "cancel">> : p \in {q \in Procs : DurablyCancels(q)}}

(* While no lease expires under a living process, the run is executed, or  *)
(* durably cancelled, by one task of one process at a time.                *)
OneExecution == stalls = 0 => Cardinality(Engaged) <= 1

(* A run that is shown as succeeded has a committed workspace: whatever    *)
(* the user asked meanwhile, wherever a process stopped, and whoever lost  *)
(* the lease.                                                              *)
SucceededIsCommitted == row.state = "succeeded" => marker

(* A cancelled run has no committed workspace and left no change in the    *)
(* project, while no lease expires under a living process.                 *)
CancelledIsUndone ==
    (stalls = 0 /\ row.state = "cancelled") => ~marker /\ effects = {}

(* A committed workspace keeps its effects. *)
CommittedKeepsEffects ==
    [][stalls = 0 /\ marker => marker' /\ effects' = effects]_vars

(* Every execution ends: it finishes, fails, suspends for an answer, or    *)
(* its pause outlasts the wall-time budget.                                *)
ExecutionEnds == \A p \in Procs : control[p].present ~> ~control[p].present

(* docs/ARCHITECTURE.md: lease loss during execution fails closed. An      *)
(* execution whose lease another one holds changes nothing in the project. *)
LeaseLossFailsClosed ==
    [][\A p \in Procs :
         (effects' # effects /\ exec'[p] # exec[p]) => Owns(p, "exec")]_vars

(* execute: a failed run is not executed again, a fresh one is created.    *)
FailedStaysFailed == [][row.state = "failed" => row'.state = "failed"]_vars

=============================================================================
