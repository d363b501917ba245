------------------------- MODULE RunLifecycleProofs -------------------------
(***************************************************************************)
(* One run under several processes, for any plan and any number of         *)
(* processes, commands, crashes and leases that run out under living       *)
(* processes: the types, and what a run that is shown as succeeded means.  *)
(* Then who holds the lease: while none runs out under a living process,   *)
(* one task is engaged at a time, a cancelled run leaves nothing in the    *)
(* project, and a committed run all of it.                                 *)
(***************************************************************************)
EXTENDS RunLifecycle, FiniteSetTheorems, TLAPS

(* The steps an execution is at, or may be at when its save is over. *)
Heads(e, steps) ==
    \/ e.pc \in steps
    \/ e.pc \in {"renew", "put"} /\ (e.then \in steps \/ e.raise \in steps)

AttemptSteps == {"work", "model", "tool", "suspend", "itemDone",
                 "attemptFailed", "decide"}

(* An execution inside an item has an item of the plan at hand, and inside *)
(* an attempt the number of one the item may have.                         *)
AtHand(e) ==
    /\ Heads(e, AttemptSteps \cup {"attempt"}) => e.item \in Items /\ e.attempt >= 1
    /\ Heads(e, AttemptSteps) => e.attempt <= MaxAttempts

ItemAtHand == \A p \in Procs : AtHand(exec[p])

(* A command that is under way knows the state it writes. *)
CommandKnown == \A p \in Procs : cmd[p].pc # "idle" => cmd[p].kind # "none"

TypeInv == TypeOK /\ ItemAtHand /\ CommandKnown

-----------------------------------------------------------------------------
(* The rows, executions and commands that the steps build have their types. *)

(* A row with another state, item state or attempt is a row. *)
LEMMA RowTypes ==
    ASSUME NEW run \in Rows
    PROVE  /\ \A s \in RunStates : [run EXCEPT !.state = s] \in Rows
           /\ \A s \in RunStates : [run EXCEPT !.state = s].state = s
           /\ \A i, s : s \in ItemStates => [run EXCEPT !.item[i] = s] \in Rows
           /\ \A i, s, n : s \in ItemStates /\ n \in 0 .. MaxAttempts =>
                 [run EXCEPT !.item[i] = s, !.attempts[i] = n] \in Rows
           /\ CancelledRow(run) \in Rows
BY DEF Rows, CancelledRow, ItemStates, RunStates

(* The same, as the steps of an execution need it: their own row, or the    *)
(* one they have read, with another state or item state.                   *)
LEMMA ExecRows ==
    ASSUME TypeInv, NEW p \in Procs
    PROVE  /\ exec[p].run \in Rows /\ row \in Rows
           /\ \A s \in RunStates : /\ [exec[p].run EXCEPT !.state = s] \in Rows
                                   /\ [row EXCEPT !.state = s] \in Rows
           /\ \A i, s : s \in ItemStates =>
                /\ [exec[p].run EXCEPT !.item[i] = s] \in Rows
                /\ [row EXCEPT !.item[i] = s] \in Rows
<1>1. exec[p].run \in Rows /\ row \in Rows
  BY DEF TypeInv, TypeOK, Executions
<1> QED BY <1>1, RowTypes

(* The row of a run that was just created is a row. *)
LEMMA FreshRowType == FreshRow \in Rows
BY LifecycleAssumption DEF FreshRow, Rows, RunStates, ItemStates

(* The row recovery leaves is a row. *)
LEMMA RecoveredType == ASSUME TypeOK PROVE Recovered \in Rows
BY RowTypes DEF Recovered, TypeOK, RunStates

(* An execution that does nothing is typed, and has no item at hand. *)
LEMMA IdleExecType == IdleExec \in Executions /\ AtHand(IdleExec)
<1>1. 1 \in 1 .. ItemCount + 1 /\ 0 \in 0 .. MaxAttempts + 1
  BY LifecycleAssumption
<1> QED BY <1>1, FreshRowType
           DEF IdleExec, Executions, ExecSteps, AtHand, Heads, AttemptSteps

(* Replacing the state of one execution keeps the invariant of executions. *)
LEMMA MoveExec ==
    ASSUME TypeInv, NEW p \in Procs, NEW e \in Executions, AtHand(e),
           exec' = [exec EXCEPT ![p] = e]
    PROVE  exec' \in [Procs -> Executions] /\ ItemAtHand'
<1>1. exec' \in [Procs -> Executions]
  BY DEF TypeInv, TypeOK
<1>2. \A q \in Procs : exec'[q] = IF q = p THEN e ELSE exec[q]
  BY DEF TypeInv, TypeOK
<1>3. \A q \in Procs : AtHand(exec'[q])
  BY <1>2 DEF TypeInv, ItemAtHand
<1> QED BY <1>1, <1>3 DEF ItemAtHand

(* A jump to a step that is outside every item, or inside the same one. *)
LEMMA GotoType ==
    ASSUME TypeInv, NEW p \in Procs, NEW step \in ExecSteps, Goto(p, step),
           step \notin {"renew", "put"},
           step \in AttemptSteps => Heads(exec[p], AttemptSteps),
           step # "attempt"
    PROVE  exec' \in [Procs -> Executions] /\ ItemAtHand'
<1> DEFINE e == [exec[p] EXCEPT !.pc = step]
<1>1. exec[p] \in Executions /\ AtHand(exec[p])
  BY DEF TypeInv, TypeOK, ItemAtHand
<1>2. e \in Executions
  BY <1>1 DEF Executions
<1>3. e.pc = step /\ e.item = exec[p].item /\ e.attempt = exec[p].attempt
  BY <1>1 DEF Executions
<1>4. AtHand(e)
  BY <1>1, <1>3 DEF AtHand, Heads, AttemptSteps
<1>5. exec' = [exec EXCEPT ![p] = e]
  BY DEF Goto, TypeInv, TypeOK
<1> QED BY <1>2, <1>4, <1>5, MoveExec

(* A save of a row that goes on inside the same item, or outside. *)
LEMMA SaveType ==
    ASSUME TypeInv, NEW p \in Procs, NEW run \in Rows, NEW then \in ExecSteps,
           NEW raise \in ExecSteps, Save(p, run, then, raise),
           {then, raise} \cap AttemptSteps # {}
             => Heads(exec[p], AttemptSteps \cup {"attempt"}),
           {then, raise} \cap AttemptSteps # {} => exec[p].attempt <= MaxAttempts,
           "attempt" \notin {then, raise}
    PROVE  exec' \in [Procs -> Executions] /\ ItemAtHand'
<1> DEFINE e == [exec[p] EXCEPT !.run = run, !.pc = "renew", !.then = then,
                                !.raise = raise]
<1>1. exec[p] \in Executions /\ AtHand(exec[p])
  BY DEF TypeInv, TypeOK, ItemAtHand
<1>r. "renew" \in ExecSteps
  BY DEF ExecSteps
<1>2. e \in Executions
  BY <1>1, <1>r DEF Executions
<1>3. /\ e.pc = "renew" /\ e.then = then /\ e.raise = raise
      /\ e.item = exec[p].item /\ e.attempt = exec[p].attempt
  BY <1>1 DEF Executions
<1>4. AtHand(e)
  BY <1>1, <1>3 DEF AtHand, Heads, AttemptSteps
<1>5. exec' = [exec EXCEPT ![p] = e]
  BY DEF Save, TypeInv, TypeOK
<1> QED BY <1>2, <1>4, <1>5, MoveExec

(* A save after which the execution is at no item. *)
LEMMA SaveOutsideType ==
    ASSUME TypeInv, NEW p \in Procs, NEW run \in Rows,
           NEW then \in ExecSteps \ (AttemptSteps \cup {"attempt"}),
           NEW raise \in ExecSteps \ (AttemptSteps \cup {"attempt"}),
           Save(p, run, then, raise)
    PROVE  exec' \in [Procs -> Executions] /\ ItemAtHand'
<1>1. {then, raise} \cap AttemptSteps = {} /\ "attempt" \notin {then, raise}
  OBVIOUS
<1> QED BY <1>1, SaveType

(* The other variables of TypeOK. *)
LEMMA ExecAloneType ==
    ASSUME TypeInv, exec' \in [Procs -> Executions], ItemAtHand',
           UNCHANGED <<database, workspace, control, registered, cmd, bounds>>
    PROVE  TypeInv'
BY DEF TypeInv, TypeOK, ItemAtHand, AtHand, Heads, CommandKnown, database,
       workspace, bounds


(* A command that does nothing is typed. *)
LEMMA IdleCmdType == IdleCmd \in Cmds /\ IdleCmd.pc = "idle"
BY FreshRowType DEF IdleCmd, Cmds, CmdSteps

(* Replacing one command keeps the invariant of commands. *)
LEMMA MoveCmd ==
    ASSUME TypeInv, NEW p \in Procs, NEW c \in Cmds,
           c.pc # "idle" => c.kind # "none", cmd' = [cmd EXCEPT ![p] = c]
    PROVE  cmd' \in [Procs -> Cmds] /\ CommandKnown'
<1>1. cmd' \in [Procs -> Cmds]
  BY DEF TypeInv, TypeOK
<1>2. \A q \in Procs : cmd'[q] = IF q = p THEN c ELSE cmd[q]
  BY DEF TypeInv, TypeOK
<1> QED BY <1>1, <1>2 DEF TypeInv, CommandKnown

(* A command that is under way goes on to its next step. *)
LEMMA NextCmdStep ==
    ASSUME TypeInv, NEW p \in Procs, NEW step \in CmdSteps, cmd[p].pc # "idle",
           cmd' = [cmd EXCEPT ![p] = [@ EXCEPT !.pc = step]]
    PROVE  cmd' \in [Procs -> Cmds] /\ CommandKnown'
<1> DEFINE c == [cmd[p] EXCEPT !.pc = step]
<1>1. cmd[p] \in Cmds /\ cmd[p].kind # "none"
  BY DEF TypeInv, TypeOK, CommandKnown
<1>2. c \in Cmds /\ c.kind = cmd[p].kind
  BY <1>1 DEF Cmds
<1> HIDE DEF c
<1>3. cmd' = [cmd EXCEPT ![p] = c]
  BY DEF c
<1> QED BY <1>1, <1>2, <1>3, MoveCmd

(* ... with a row it read. *)
LEMMA NextCmdRow ==
    ASSUME TypeInv, NEW p \in Procs, NEW step \in CmdSteps, NEW run \in Rows,
           cmd[p].pc # "idle",
           cmd' = [cmd EXCEPT ![p] = [@ EXCEPT !.pc = step, !.run = run]]
    PROVE  cmd' \in [Procs -> Cmds] /\ CommandKnown'
<1> DEFINE c == [cmd[p] EXCEPT !.pc = step, !.run = run]
<1>1. cmd[p] \in Cmds /\ cmd[p].kind # "none"
  BY DEF TypeInv, TypeOK, CommandKnown
<1>2. c \in Cmds /\ c.kind = cmd[p].kind
  BY <1>1 DEF Cmds
<1> HIDE DEF c
<1>3. cmd' = [cmd EXCEPT ![p] = c]
  BY DEF c
<1> QED BY <1>1, <1>2, <1>3, MoveCmd

(* A command begins. *)
LEMMA IssueType ==
    ASSUME TypeInv, NEW p \in Procs, NEW step \in CmdSteps,
           NEW kind \in {"paused", "running", "cancelling"}, Issue(p, step, kind)
    PROVE  cmd' \in [Procs -> Cmds] /\ CommandKnown'
<1> DEFINE c == [IdleCmd EXCEPT !.pc = step, !.kind = kind]
<1>1. c \in Cmds /\ c.kind = kind
  BY IdleCmdType DEF Cmds
<1> HIDE DEF c
<1>2. cmd' = [cmd EXCEPT ![p] = c]
  BY DEF c, Issue
<1> QED BY <1>1, <1>2, MoveCmd

(* A command ends. *)
LEMMA EndCmdType ==
    ASSUME TypeInv, NEW p \in Procs, cmd' = [cmd EXCEPT ![p] = IdleCmd]
    PROVE  cmd' \in [Procs -> Cmds] /\ CommandKnown'
BY IdleCmdType, MoveCmd

(* The other variables of TypeOK. *)
LEMMA CmdAloneType ==
    ASSUME TypeInv, cmd' \in [Procs -> Cmds], CommandKnown',
           control' \in [Procs -> Controls],
           registered' \in [Procs -> {"none", "exec", "cancel"}],
           row' \in Rows, lease' \in [owner : Owners, live : BOOLEAN],
           effects' \subseteq Items, journal' \subseteq Items,
           commands' \in 0 .. MaxCommands,
           UNCHANGED <<checkpoint, asking, evidence, marker, exec, crashes, stalls>>
    PROVE  TypeInv'
BY DEF TypeInv, TypeOK, ItemAtHand, AtHand, Heads

(* A control with another flag is a control. *)
LEMMA ControlTypes ==
    ASSUME TypeInv, NEW p \in Procs, NEW b \in BOOLEAN
    PROVE  /\ [control EXCEPT ![p] = [@ EXCEPT !.paused = b]] \in [Procs -> Controls]
           /\ [control EXCEPT ![p] = [@ EXCEPT !.cancelled = b]] \in [Procs -> Controls]
           /\ [control EXCEPT ![p] = [@ EXCEPT !.deferred = b]] \in [Procs -> Controls]
<1>1. control[p] \in Controls
  BY DEF TypeInv, TypeOK
<1>2. /\ [control[p] EXCEPT !.paused = b] \in Controls
      /\ [control[p] EXCEPT !.cancelled = b] \in Controls
      /\ [control[p] EXCEPT !.deferred = b] \in Controls
  BY <1>1 DEF Controls
<1> QED BY <1>2 DEF TypeInv, TypeOK

(* The leases that are taken, renewed and released are leases. *)
LEMMA LeaseTypes ==
    ASSUME TypeInv, NEW p \in Procs
    PROVE  /\ Free \in [owner : Owners, live : BOOLEAN]
           /\ Touched(p) \in [owner : Owners, live : BOOLEAN]
           /\ \A task \in {"exec", "cancel"} :
                 [owner |-> <<p, task>>, live |-> TRUE]
                   \in [owner : Owners, live : BOOLEAN]
BY DEF Free, Touched, Owners, TypeInv, TypeOK

(* A step of an execution that also touches the database or the project. *)
LEMMA ExecWithType ==
    ASSUME TypeInv, exec' \in [Procs -> Executions], ItemAtHand',
           row' \in Rows, lease' \in [owner : Owners, live : BOOLEAN],
           checkpoint' \in BOOLEAN, asking' \in BOOLEAN, marker' \in BOOLEAN,
           evidence' \subseteq Items \X (1 .. MaxAttempts),
           effects' \subseteq Items, journal' \subseteq Items,
           control' \in [Procs -> Controls],
           registered' \in [Procs -> {"none", "exec", "cancel"}],
           cmd' \in [Procs -> Cmds], CommandKnown',
           commands' \in 0 .. MaxCommands, crashes' \in 0 .. MaxCrashes,
           UNCHANGED stalls
    PROVE  TypeInv'
BY DEF TypeInv, TypeOK

-----------------------------------------------------------------------------
(* The invariant holds of a run that was just created. *)
LEMMA InitType == Init => TypeInv
<1> SUFFICES ASSUME Init PROVE TypeInv
    OBVIOUS
<1>1. exec \in [Procs -> Executions] /\ ItemAtHand
  BY IdleExecType DEF Init, ItemAtHand
<1>2. cmd \in [Procs -> Cmds] /\ CommandKnown
  BY FreshRowType DEF Init, IdleCmd, Cmds, CmdSteps, CommandKnown
<1>3. control \in [Procs -> Controls]
  BY DEF Init, NoControl, Controls
<1>4. lease \in [owner : Owners, live : BOOLEAN]
  BY DEF Init, Free, Owners
<1>5. commands \in 0 .. MaxCommands /\ crashes \in 0 .. MaxCrashes
      /\ stalls \in 0 .. MaxStalls
  BY LifecycleAssumption DEF Init
<1>6. row \in Rows
  BY FreshRowType DEF Init
<1> QED BY <1>1, <1>2, <1>3, <1>4, <1>5, <1>6 DEF Init, TypeInv, TypeOK

(* Every step keeps it. *)
LEMMA StepType == TypeInv /\ [Next]_vars => TypeInv'
<1> SUFFICES ASSUME TypeInv, [Next]_vars PROVE TypeInv'
    OBVIOUS
<1> USE LifecycleAssumption
<1>t. /\ row \in Rows /\ lease \in [owner : Owners, live : BOOLEAN]
      /\ checkpoint \in BOOLEAN /\ asking \in BOOLEAN /\ marker \in BOOLEAN
      /\ evidence \subseteq Items \X (1 .. MaxAttempts)
      /\ effects \subseteq Items /\ journal \subseteq Items
      /\ exec \in [Procs -> Executions] /\ control \in [Procs -> Controls]
      /\ registered \in [Procs -> {"none", "exec", "cancel"}]
      /\ cmd \in [Procs -> Cmds] /\ CommandKnown
      /\ commands \in 0 .. MaxCommands /\ crashes \in 0 .. MaxCrashes
  BY DEF TypeInv, TypeOK
<1>c. \A p \in Procs : cmd[p] \in Cmds /\ cmd[p].run \in Rows
  BY DEF TypeInv, TypeOK, Cmds
<1>1. ASSUME NEW p \in Procs, EnterProject(p) PROVE TypeInv'
  <2>1. exec' \in [Procs -> Executions] /\ ItemAtHand'
    BY <1>1, GotoType DEF EnterProject, Heads, ExecSteps, AttemptSteps
  <2> QED BY <1>1, <2>1, ExecAloneType DEF EnterProject
<1>2. ASSUME NEW p \in Procs, Stopped(p) PROVE TypeInv'
  <2>1. exec' \in [Procs -> Executions] /\ ItemAtHand'
    BY <1>2, GotoType DEF Stopped, Heads, ExecSteps, AttemptSteps
  <2> QED BY <1>2, <2>1, ExecAloneType DEF Stopped
<1>3. ASSUME NEW p \in Procs, AttemptFails(p) PROVE TypeInv'
  <2>1. exec' \in [Procs -> Executions] /\ ItemAtHand'
    BY <1>3, GotoType DEF AttemptFails, Heads, ExecSteps, AttemptSteps
  <2> QED BY <1>3, <2>1, ExecAloneType DEF AttemptFails
<1>4. ASSUME NEW p \in Procs, Start(p) PROVE TypeInv'
  <2> DEFINE starts == [exec[p].run EXCEPT !.state = "running"]
             fails == [exec[p].run EXCEPT !.state = "failed"]
  <2>1. starts \in Rows /\ fails \in Rows
    BY ExecRows DEF RunStates
  <2> HIDE DEF starts, fails
  <2>2. CASE Save(p, starts, "begin", "exit") \/ Save(p, fails, "exit", "exit")
    <3>1. exec' \in [Procs -> Executions] /\ ItemAtHand'
      BY <2>1, <2>2, SaveOutsideType DEF ExecSteps, AttemptSteps
    <3> QED BY <1>4, <3>1, ExecAloneType DEF Start
  <2>3. CASE Goto(p, "exit")
    <3>1. exec' \in [Procs -> Executions] /\ ItemAtHand'
      BY <2>3, GotoType DEF ExecSteps, AttemptSteps
    <3> QED BY <1>4, <3>1, ExecAloneType DEF Start
  <2> QED BY <1>4, <2>2, <2>3 DEF Start, starts, fails
<1>5. ASSUME NEW p \in Procs, Turn(p) PROVE TypeInv'
  <2> DEFINE saved == exec[p].run
  <2>1. saved \in Rows
    BY ExecRows
  <2>2. Save(p, saved, "model", "attemptFailed") /\ exec[p].pc = "work"
    BY <1>5 DEF Turn
  <2>3. /\ Heads(exec[p], AttemptSteps \cup {"attempt"})
        /\ exec[p].attempt <= MaxAttempts
    BY <2>2 DEF Heads, AttemptSteps, TypeInv, ItemAtHand, AtHand
  <2> HIDE DEF saved
  <2>4. exec' \in [Procs -> Executions] /\ ItemAtHand'
    BY <2>1, <2>2, <2>3, SaveType DEF ExecSteps, AttemptSteps
  <2> QED BY <1>5, <2>4, ExecAloneType DEF Turn
<1>6. ASSUME NEW p \in Procs, CompleteItem(p) PROVE TypeInv'
  <2> DEFINE saved == [exec[p].run EXCEPT !.item[exec[p].item] = "succeeded"]
  <2>1. saved \in Rows
    BY ExecRows DEF ItemStates
  <2>2. Save(p, saved, "itemDone", "attemptFailed") /\ exec[p].pc = "model"
    BY <1>6 DEF CompleteItem
  <2>3. /\ Heads(exec[p], AttemptSteps \cup {"attempt"})
        /\ exec[p].attempt <= MaxAttempts
    BY <2>2 DEF Heads, AttemptSteps, TypeInv, ItemAtHand, AtHand
  <2> HIDE DEF saved
  <2>4. exec' \in [Procs -> Executions] /\ ItemAtHand'
    BY <2>1, <2>2, <2>3, SaveType DEF ExecSteps, AttemptSteps
  <2> QED BY <1>6, <2>4, ExecAloneType DEF CompleteItem
<1>7. ASSUME NEW p \in Procs, Suspend(p) PROVE TypeInv'
  <2> DEFINE saved == [row EXCEPT !.state = "paused"]
  <2>1. saved \in Rows
    BY ExecRows DEF RunStates
  <2>2. Save(p, saved, "exit", "catch")
    BY <1>7 DEF Suspend
  <2> HIDE DEF saved
  <2>3. exec' \in [Procs -> Executions] /\ ItemAtHand'
    BY <2>1, <2>2, SaveOutsideType DEF ExecSteps, AttemptSteps
  <2> QED BY <1>7, <2>3, ExecAloneType DEF Suspend
<1>8. ASSUME NEW p \in Procs, AttemptFailed(p) PROVE TypeInv'
  <2> DEFINE saved == row
  <2>1. saved \in Rows
    BY ExecRows
  <2>2. Save(p, saved, "decide", "catch") /\ exec[p].pc = "attemptFailed"
    BY <1>8 DEF AttemptFailed
  <2>3. /\ Heads(exec[p], AttemptSteps \cup {"attempt"})
        /\ exec[p].attempt <= MaxAttempts
    BY <2>2 DEF Heads, AttemptSteps, TypeInv, ItemAtHand, AtHand
  <2> HIDE DEF saved
  <2>4. exec' \in [Procs -> Executions] /\ ItemAtHand'
    BY <2>1, <2>2, <2>3, SaveType DEF ExecSteps, AttemptSteps
  <2> QED BY <1>8, <2>4, ExecAloneType DEF AttemptFailed
<1>9. ASSUME NEW p \in Procs, Verify(p) PROVE TypeInv'
  <2>1. CASE Save(p, exec[p].run, "commit", "catch")
    <3>1. exec' \in [Procs -> Executions] /\ ItemAtHand'
      BY <2>1, ExecRows, SaveOutsideType DEF ExecSteps, AttemptSteps
    <3> QED BY <1>9, <3>1, ExecAloneType DEF Verify
  <2>2. CASE Goto(p, "commit") \/ Goto(p, "catch")
    <3>1. exec' \in [Procs -> Executions] /\ ItemAtHand'
      BY <2>2, GotoType DEF ExecSteps, AttemptSteps
    <3> QED BY <1>9, <3>1, ExecAloneType DEF Verify
  <2> QED BY <1>9, <2>1, <2>2 DEF Verify
<1>10. ASSUME NEW p \in Procs, Final(p) PROVE TypeInv'
  <2>1. PICK state \in RunStates : Save(p, [row EXCEPT !.state = state], "exit", "exit")
    BY <1>10 DEF Final, RunStates
  <2> DEFINE saved == [row EXCEPT !.state = state]
  <2>2. saved \in Rows
    BY ExecRows
  <2>3. Save(p, saved, "exit", "exit")
    BY <2>1
  <2> HIDE DEF saved
  <2>4. exec' \in [Procs -> Executions] /\ ItemAtHand'
    BY <2>2, <2>3, SaveOutsideType DEF ExecSteps, AttemptSteps
  <2> QED BY <1>10, <2>4, ExecAloneType DEF Final
<1>11. ASSUME NEW p \in Procs, ReadRun(p) PROVE TypeInv'
  <2>1. /\ exec[p] \in Executions /\ exec[p].run \in Rows /\ row \in Rows
        /\ AtHand(exec[p]) /\ exec[p].item \in 1 .. ItemCount + 1
        /\ exec[p].attempt \in 0 .. MaxAttempts + 1
    BY DEF TypeInv, TypeOK, Executions, ItemAtHand
  <2> DEFINE e2 == [exec[p] EXCEPT !.pc = "acquire", !.run = row]
  <2>2. ASSUME exec' = [exec EXCEPT ![p] = e2]
       PROVE  exec' \in [Procs -> Executions] /\ ItemAtHand'
    <3>1. e2 \in Executions
      BY <2>1 DEF Executions, ExecSteps
    <3>2. AtHand(e2)
      BY <1>11, <2>1, <2>2 DEF ReadRun, Executions, AtHand, Heads, AttemptSteps
    <3> QED BY <2>2, <3>1, <3>2, MoveExec
  <2>3. exec' \in [Procs -> Executions] /\ ItemAtHand'
    BY <1>11, <2>1, <2>2, GotoType
       DEF ReadRun, AtHand, Heads, ExecSteps, AttemptSteps, RunStates,
           ItemStates
  <2> QED BY <1>11, <2>3, ExecAloneType DEF ReadRun
<1>12. ASSUME NEW p \in Procs, Begin(p) PROVE TypeInv'
  <2>1. /\ exec[p] \in Executions /\ exec[p].run \in Rows /\ row \in Rows
        /\ AtHand(exec[p]) /\ exec[p].item \in 1 .. ItemCount + 1
        /\ exec[p].attempt \in 0 .. MaxAttempts + 1
    BY DEF TypeInv, TypeOK, Executions, ItemAtHand
  <2> DEFINE e2 == [exec[p] EXCEPT !.pc = "item", !.known = journal]
  <2>2. ASSUME exec' = [exec EXCEPT ![p] = e2]
       PROVE  exec' \in [Procs -> Executions] /\ ItemAtHand'
    <3>3. journal \in SUBSET Items
      BY <1>12, <2>1, <2>2 DEF TypeInv, TypeOK
    <3>1. e2 \in Executions
      BY <2>1, <3>3 DEF Executions, ExecSteps
    <3>2. AtHand(e2)
      BY <1>12, <2>1, <2>2, <3>3
         DEF Begin, Executions, AtHand, Heads, AttemptSteps
    <3> QED BY <2>2, <3>1, <3>2, MoveExec
  <2> DEFINE e3 == [exec[p] EXCEPT !.run = [exec[p].run EXCEPT !.state = "succeeded"],
                               !.pc = "renew", !.then = "exit",
                               !.raise = "catch", !.committed = TRUE]
  <2>3. ASSUME exec' = [exec EXCEPT ![p] = e3]
       PROVE  exec' \in [Procs -> Executions] /\ ItemAtHand'
    <3>3. [exec[p].run EXCEPT !.state = "succeeded"] \in Rows
      BY <1>12, <2>1, <2>3, RowTypes DEF RunStates
    <3>1. e3 \in Executions
      BY <2>1, <3>3 DEF Executions, ExecSteps
    <3>2. AtHand(e3)
      BY <1>12, <2>1, <2>3, <3>3
         DEF Begin, Executions, AtHand, Heads, AttemptSteps
    <3> QED BY <2>3, <3>1, <3>2, MoveExec
  <2> DEFINE e4 == [exec[p] EXCEPT !.pc = "catch", !.committed = TRUE]
  <2>4. ASSUME exec' = [exec EXCEPT ![p] = e4]
       PROVE  exec' \in [Procs -> Executions] /\ ItemAtHand'
    <3>1. e4 \in Executions
      BY <2>1 DEF Executions, ExecSteps
    <3>2. AtHand(e4)
      BY <1>12, <2>1, <2>4 DEF Begin, Executions, AtHand, Heads, AttemptSteps
    <3> QED BY <2>4, <3>1, <3>2, MoveExec
  <2>5. exec' \in [Procs -> Executions] /\ ItemAtHand'
    BY <1>12, <2>1, <2>2, <2>3, <2>4, GotoType
       DEF Begin, AtHand, Heads, ExecSteps, AttemptSteps, RunStates, ItemStates
  <2> QED BY <1>12, <2>5, ExecAloneType DEF Begin
<1>13. ASSUME NEW p \in Procs, NextItem(p) PROVE TypeInv'
  <2>1. /\ exec[p] \in Executions /\ exec[p].run \in Rows /\ row \in Rows
        /\ AtHand(exec[p]) /\ exec[p].item \in 1 .. ItemCount + 1
        /\ exec[p].attempt \in 0 .. MaxAttempts + 1
    BY DEF TypeInv, TypeOK, Executions, ItemAtHand
  <2> DEFINE e2 == [exec[p] EXCEPT !.run = row, !.item = exec[p].item + 1]
  <2>2. ASSUME exec[p].item <= ItemCount, exec' = [exec EXCEPT ![p] = e2]
       PROVE  exec' \in [Procs -> Executions] /\ ItemAtHand'
    <3>3. exec[p].item + 1 \in 1 .. ItemCount + 1
      BY <1>13, <2>1, <2>2
    <3>1. e2 \in Executions
      BY <2>1, <3>3 DEF Executions, ExecSteps
    <3>2. AtHand(e2)
      BY <1>13, <2>1, <2>2, <3>3
         DEF NextItem, Executions, AtHand, Heads, AttemptSteps
    <3> QED BY <2>2, <3>1, <3>2, MoveExec
  <2> DEFINE e3 == [exec[p] EXCEPT !.run = row, !.pc = "attempt",
                               !.attempt = FirstAttempt(row, exec[p].item)]
  <2>3. ASSUME exec[p].item <= ItemCount, exec' = [exec EXCEPT ![p] = e3]
       PROVE  exec' \in [Procs -> Executions] /\ ItemAtHand'
    <3>3. exec[p].item \in Items
      BY <1>13, <2>1, <2>3 DEF Items
    <3>4. row.attempts[exec[p].item] \in 0 .. MaxAttempts
      BY <1>13, <2>1, <2>3, <3>3 DEF Rows
    <3>5. /\ FirstAttempt(row, exec[p].item) >= 1
          /\ FirstAttempt(row, exec[p].item) \in 0 .. MaxAttempts + 1
      BY <1>13, <2>1, <2>3, <3>3, <3>4 DEF FirstAttempt
    <3>6. "attempt" \in ExecSteps
      BY DEF ExecSteps
    <3>1. e3 \in Executions
      <4> DEFINE n == FirstAttempt(row, exec[p].item)
      <4>1. n \in 0 .. MaxAttempts + 1
        BY <3>5
      <4> HIDE DEF n
      <4>2. [exec[p] EXCEPT !.run = row, !.pc = "attempt", !.attempt = n] \in Executions
        BY <2>1, <3>6, <4>1 DEF Executions
      <4> QED BY <4>2 DEF n
    <3>2. AtHand(e3)
      BY <1>13, <2>1, <2>3, <3>3, <3>4, <3>5
         DEF NextItem, Executions, AtHand, Heads, AttemptSteps
    <3> QED BY <2>3, <3>1, <3>2, MoveExec
  <2> DEFINE blocked == [row EXCEPT !.item[exec[p].item] = "blocked"]
  <2>4. ASSUME Save(p, blocked, "catch", "catch")
       PROVE  exec' \in [Procs -> Executions] /\ ItemAtHand'
    <3>1. blocked \in Rows
      BY ExecRows DEF ItemStates
    <3> HIDE DEF blocked
    <3> QED BY <2>4, <3>1, SaveOutsideType DEF ExecSteps, AttemptSteps
  <2>5. ASSUME Goto(p, "verify")
       PROVE  exec' \in [Procs -> Executions] /\ ItemAtHand'
    BY <2>5, GotoType DEF ExecSteps, AttemptSteps
  <2>6. \/ Goto(p, "verify") \/ Save(p, blocked, "catch", "catch")
        \/ exec[p].item <= ItemCount /\ exec' = [exec EXCEPT ![p] = e2]
        \/ exec[p].item <= ItemCount /\ exec' = [exec EXCEPT ![p] = e3]
    BY <1>13 DEF NextItem
  <2> HIDE DEF e2, e3, blocked
  <2>7. exec' \in [Procs -> Executions] /\ ItemAtHand'
    BY <2>2, <2>3, <2>4, <2>5, <2>6
  <2> QED BY <1>13, <2>7, ExecAloneType DEF NextItem
<1>14. ASSUME NEW p \in Procs, Attempt(p) PROVE TypeInv'
  <2>1. /\ exec[p].run \in Rows /\ AtHand(exec[p])
        /\ exec[p].attempt \in 0 .. MaxAttempts + 1
    BY DEF TypeInv, TypeOK, Executions, ItemAtHand
  <2> DEFINE i == exec[p].item
             n == exec[p].attempt
             started == [exec[p].run EXCEPT !.item[i] = "running", !.attempts[i] = n]
             exhausted == [exec[p].run EXCEPT !.item[i] = "failed"]
  <2>2. exhausted \in Rows
    BY <2>1, RowTypes DEF ItemStates
  <2>3. CASE n <= MaxAttempts /\ Save(p, started, "work", "catch")
    <3>1. n \in 0 .. MaxAttempts
      BY <2>1, <2>3
    <3>2. started \in Rows
      BY <2>1, <3>1, RowTypes DEF ItemStates
    <3>3. exec' \in [Procs -> Executions] /\ ItemAtHand'
      <4> HIDE DEF started
      <4> QED BY <1>14, <2>3, <3>2, SaveType
                 DEF Attempt, Heads, ExecSteps, AttemptSteps
    <3> QED BY <1>14, <3>3, ExecAloneType DEF Attempt
  <2>4. CASE Save(p, exhausted, "catch", "catch")
    <3>1. exec' \in [Procs -> Executions] /\ ItemAtHand'
      <4> HIDE DEF exhausted
      <4> QED BY <2>2, <2>4, SaveType DEF ExecSteps, AttemptSteps
    <3> QED BY <1>14, <3>1, ExecAloneType DEF Attempt
  <2> QED BY <1>14, <2>3, <2>4 DEF Attempt
<1>15. ASSUME NEW p \in Procs, ChooseTool(p) PROVE TypeInv'
  <2>1. /\ exec[p] \in Executions /\ exec[p].run \in Rows /\ row \in Rows
        /\ AtHand(exec[p]) /\ exec[p].item \in 1 .. ItemCount + 1
        /\ exec[p].attempt \in 0 .. MaxAttempts + 1
    BY DEF TypeInv, TypeOK, Executions, ItemAtHand
  <2> DEFINE e2 == [exec[p] EXCEPT !.run = row, !.pc = "tool"]
  <2>2. ASSUME exec' = [exec EXCEPT ![p] = e2]
       PROVE  exec' \in [Procs -> Executions] /\ ItemAtHand'
    <3>1. e2 \in Executions
      BY <2>1 DEF Executions, ExecSteps
    <3>2. AtHand(e2)
      BY <1>15, <2>1, <2>2
         DEF ChooseTool, Executions, AtHand, Heads, AttemptSteps
    <3> QED BY <2>2, <3>1, <3>2, MoveExec
  <2>3. exec' \in [Procs -> Executions] /\ ItemAtHand'
    BY <1>15, <2>1, <2>2 DEF ChooseTool
  <2> QED BY <1>15, <2>3, ExecAloneType DEF ChooseTool
<1>16. ASSUME NEW p \in Procs, ItemDone(p) PROVE TypeInv'
  <2>1. /\ exec[p] \in Executions /\ exec[p].run \in Rows /\ row \in Rows
        /\ AtHand(exec[p]) /\ exec[p].item \in 1 .. ItemCount + 1
        /\ exec[p].attempt \in 0 .. MaxAttempts + 1
    BY DEF TypeInv, TypeOK, Executions, ItemAtHand
  <2> DEFINE e2 == [exec[p] EXCEPT !.item = exec[p].item + 1, !.pc = "item"]
  <2>2. ASSUME exec[p].pc = "itemDone", exec' = [exec EXCEPT ![p] = e2]
       PROVE  exec' \in [Procs -> Executions] /\ ItemAtHand'
    <3>3. exec[p].item + 1 \in 1 .. ItemCount + 1
      BY <1>16, <2>1, <2>2 DEF AtHand, Heads, AttemptSteps, Items
    <3>1. e2 \in Executions
      BY <2>1, <3>3 DEF Executions, ExecSteps
    <3>2. AtHand(e2)
      BY <1>16, <2>1, <2>2, <3>3
         DEF ItemDone, Executions, AtHand, Heads, AttemptSteps
    <3> QED BY <2>2, <3>1, <3>2, MoveExec
  <2>3. exec' \in [Procs -> Executions] /\ ItemAtHand'
    BY <1>16, <2>1, <2>2 DEF ItemDone
  <2> QED BY <1>16, <2>3, ExecAloneType DEF ItemDone
<1>17. ASSUME NEW p \in Procs, Decide(p) PROVE TypeInv'
  <2>1. /\ exec[p] \in Executions /\ exec[p].run \in Rows /\ row \in Rows
        /\ AtHand(exec[p]) /\ exec[p].item \in 1 .. ItemCount + 1
        /\ exec[p].attempt \in 0 .. MaxAttempts + 1
    BY DEF TypeInv, TypeOK, Executions, ItemAtHand
  <2> DEFINE e2 == [exec[p] EXCEPT
                  !.run = [exec[p].run EXCEPT !.item[exec[p].item] = "queued"],
                  !.attempt = exec[p].attempt + 1, !.pc = "renew", !.then = "attempt",
                  !.raise = "catch"]
  <2>2. ASSUME exec[p].attempt < MaxAttempts, exec[p].pc = "decide",
               exec' = [exec EXCEPT ![p] = e2]
       PROVE  exec' \in [Procs -> Executions] /\ ItemAtHand'
    <3>3. [exec[p].run EXCEPT !.item[exec[p].item] = "queued"] \in Rows
      BY <1>17, <2>1, <2>2, RowTypes DEF ItemStates
    <3>4. exec[p].attempt + 1 \in 0 .. MaxAttempts + 1
      BY <1>17, <2>1, <2>2, <3>3
    <3>5. "renew" \in ExecSteps /\ "attempt" \in ExecSteps /\ "catch" \in ExecSteps
      BY DEF ExecSteps
    <3>1. e2 \in Executions
      <4> DEFINE saved == [exec[p].run EXCEPT !.item[exec[p].item] = "queued"]
      <4>1. saved \in Rows
        BY <3>3
      <4> HIDE DEF saved
      <4>2. [exec[p] EXCEPT !.run = saved, !.attempt = exec[p].attempt + 1,
               !.pc = "renew", !.then = "attempt", !.raise = "catch"] \in Executions
        BY <2>1, <3>4, <3>5, <4>1 DEF Executions
      <4> QED BY <4>2 DEF saved
    <3>2. AtHand(e2)
      BY <1>17, <2>1, <2>2, <3>3, <3>4
         DEF Decide, Executions, AtHand, Heads, AttemptSteps
    <3> QED BY <2>2, <3>1, <3>2, MoveExec
  <2> DEFINE failed == [exec[p].run EXCEPT !.item[exec[p].item] = "failed"]
  <2>3. ASSUME Save(p, failed, "catch", "catch")
       PROVE  exec' \in [Procs -> Executions] /\ ItemAtHand'
    <3>1. failed \in Rows
      BY ExecRows DEF ItemStates
    <3> HIDE DEF failed
    <3> QED BY <2>3, <3>1, SaveOutsideType DEF ExecSteps, AttemptSteps
  <2>4. \/ Save(p, failed, "catch", "catch")
        \/ /\ exec[p].attempt < MaxAttempts /\ exec[p].pc = "decide"
           /\ exec' = [exec EXCEPT ![p] = e2]
    BY <1>17 DEF Decide
  <2> HIDE DEF e2, failed
  <2>5. exec' \in [Procs -> Executions] /\ ItemAtHand'
    BY <2>2, <2>3, <2>4
  <2> QED BY <1>17, <2>5, ExecAloneType DEF Decide
<1>18. ASSUME NEW p \in Procs, Pause(p) PROVE TypeInv'
  <2>1. cmd' \in [Procs -> Cmds] /\ CommandKnown'
    BY <1>18, <1>t, <1>c, IssueType DEF Pause, CmdSteps
  <2>2. control' \in [Procs -> Controls]
    BY <1>18, <1>t, <1>c, ControlTypes DEF Pause, Controls
  <2> QED BY <1>18, <1>t, <1>c, <2>1, <2>2, CmdAloneType
             DEF Pause, Command, database, workspace, bounds
<1>19. ASSUME NEW p \in Procs, Resume(p) PROVE TypeInv'
  <2>1. cmd' \in [Procs -> Cmds] /\ CommandKnown'
    BY <1>19, <1>t, <1>c, IssueType DEF Resume, CmdSteps
  <2>2. control' \in [Procs -> Controls]
    BY <1>19, <1>t, <1>c, ControlTypes DEF Resume, Controls
  <2> QED BY <1>19, <1>t, <1>c, <2>1, <2>2, CmdAloneType
             DEF Resume, Command, database, workspace, bounds
<1>20. ASSUME NEW p \in Procs, ReadForSave(p) PROVE TypeInv'
  <2>1. cmd' \in [Procs -> Cmds] /\ CommandKnown'
    BY <1>20, <1>t, <1>c, NextCmdRow DEF ReadForSave, CmdSteps
  <2> QED BY <1>20, <1>t, <1>c, <2>1, CmdAloneType
             DEF ReadForSave, Command, database, workspace, bounds
<1>21. ASSUME NEW p \in Procs, AwaitExecution(p) PROVE TypeInv'
  <2>1. cmd' \in [Procs -> Cmds] /\ CommandKnown'
    BY <1>21, <1>t, <1>c, NextCmdStep DEF AwaitExecution, CmdSteps
  <2> QED BY <1>21, <1>t, <1>c, <2>1, CmdAloneType
             DEF AwaitExecution, Command, database, workspace, bounds
<1>22. ASSUME NEW p \in Procs, CommandPuts(p) PROVE TypeInv'
  <2>1. cmd' \in [Procs -> Cmds] /\ CommandKnown'
    BY <1>22, <1>t, <1>c, EndCmdType DEF CommandPuts, CmdSteps
  <2>2. row' \in Rows
    BY <1>22, <1>t, <1>c, RowTypes
       DEF CommandPuts, TypeInv, CommandKnown, Cmds, RunStates
  <2> QED BY <1>22, <1>t, <1>c, <2>1, <2>2, CmdAloneType
             DEF CommandPuts, Command, database, workspace, bounds
<1>23. ASSUME NEW p \in Procs, EnterProjectToCancel(p) PROVE TypeInv'
  <2>1. cmd' \in [Procs -> Cmds] /\ CommandKnown'
    BY <1>23, <1>t, <1>c, NextCmdStep DEF EnterProjectToCancel, CmdSteps
  <2> QED BY <1>23, <1>t, <1>c, <2>1, CmdAloneType
             DEF EnterProjectToCancel, Command, database, workspace, bounds
<1>24. ASSUME NEW p \in Procs, ReadPaused(p) PROVE TypeInv'
  <2>1. cmd' \in [Procs -> Cmds] /\ CommandKnown'
    BY <1>24, <1>t, <1>c, NextCmdRow DEF ReadPaused, CmdSteps
  <2> QED BY <1>24, <1>t, <1>c, <2>1, CmdAloneType
             DEF ReadPaused, Command, database, workspace, bounds
<1>25. ASSUME NEW p \in Procs, PutCancelled(p) PROVE TypeInv'
  <2>1. cmd' \in [Procs -> Cmds] /\ CommandKnown'
    BY <1>25, <1>t, <1>c, NextCmdStep DEF PutCancelled, CmdSteps
  <2> QED BY <1>25, <1>t, <1>c, <2>1, CmdAloneType
             DEF PutCancelled, Command, database, workspace, bounds
<1>26. ASSUME NEW p \in Procs, ReleaseCancelLease(p) PROVE TypeInv'
  <2>1. cmd' \in [Procs -> Cmds] /\ CommandKnown'
    BY <1>26, <1>t, <1>c, EndCmdType DEF ReleaseCancelLease, CmdSteps
  <2>2. lease' \in [owner : Owners, live : BOOLEAN]
    BY <1>26, <1>t, <1>c, LeaseTypes DEF ReleaseCancelLease
  <2>3. registered' \in [Procs -> {"none", "exec", "cancel"}]
    BY <1>26, <1>t, <1>c DEF ReleaseCancelLease
  <2> QED BY <1>26, <1>t, <1>c, <2>1, <2>2, <2>3, CmdAloneType
             DEF ReleaseCancelLease, Command, database, workspace, bounds
<1>27. ASSUME NEW p \in Procs, AcquireCancelLease(p) PROVE TypeInv'
  <2>1. cmd' \in [Procs -> Cmds] /\ CommandKnown'
    BY <1>27, <1>t, <1>c, EndCmdType, NextCmdStep
       DEF AcquireCancelLease, CmdSteps
  <2>2. lease' \in [owner : Owners, live : BOOLEAN]
    <3>1. lease' \in {lease, [owner |-> <<p, "cancel">>, live |-> TRUE]}
      BY <1>27 DEF AcquireCancelLease
    <3> QED BY <3>1, <1>t, LeaseTypes
  <2>3. registered' \in [Procs -> {"none", "exec", "cancel"}]
    BY <1>27, <1>t, <1>c DEF AcquireCancelLease
  <2> QED BY <1>27, <1>t, <1>c, <2>1, <2>2, <2>3, CmdAloneType
             DEF AcquireCancelLease, Command, database, workspace, bounds
<1>28. ASSUME NEW p \in Procs, RollBackPaused(p) PROVE TypeInv'
  <2>1. CancelledRow(cmd[p].run) \in Rows
    BY <1>t, <1>c, RowTypes
  <2>2. cmd' \in [Procs -> Cmds] /\ CommandKnown'
    <3> DEFINE saved == CancelledRow(cmd[p].run)
    <3>1. cmd[p].pc # "idle" /\ {"drelease", "drenew"} \subseteq CmdSteps
      BY <1>28 DEF RollBackPaused, CmdSteps
    <3>2. CASE cmd' = [cmd EXCEPT ![p] = [@ EXCEPT !.pc = "drelease"]]
      BY <3>1, <3>2, NextCmdStep
    <3>3. CASE cmd' = [cmd EXCEPT ![p] = [@ EXCEPT !.pc = "drenew", !.run = saved]]
      <4>1. saved \in Rows
        BY <2>1
      <4> HIDE DEF saved
      <4> QED BY <3>1, <3>3, <4>1, NextCmdRow
    <3> QED BY <1>28, <3>2, <3>3 DEF RollBackPaused
  <2> QED BY <1>28, <1>t, <1>c, <2>2, CmdAloneType
             DEF RollBackPaused, database, workspace, bounds
<1>29. ASSUME NEW p \in Procs, ReadForCancel(p) PROVE TypeInv'
  <2>1. cmd' \in [Procs -> Cmds] /\ CommandKnown'
    <3>1. CASE cmd' = [cmd EXCEPT ![p] = IdleCmd]
      BY <3>1, EndCmdType
    <3>2. CASE cmd' = [cmd EXCEPT ![p] = [@ EXCEPT !.pc = "dacquire"]]
      BY <3>2, <1>29, NextCmdStep DEF ReadForCancel, CmdSteps
    <3>3. CASE cmd' = [cmd EXCEPT ![p] = [@ EXCEPT !.pc = "renew", !.run = row]]
      BY <3>3, <1>29, <1>t, NextCmdRow DEF ReadForCancel, CmdSteps
    <3> QED BY <3>1, <3>2, <3>3, <1>29 DEF ReadForCancel
  <2> DEFINE b == control[p].cancelled \/ cmd[p].had = "live"
  <2>2. b \in BOOLEAN
    OBVIOUS
  <2>3. [control EXCEPT ![p] = [@ EXCEPT !.cancelled = b]] \in [Procs -> Controls]
    <3> HIDE DEF b
    <3> QED BY <2>2, ControlTypes
  <2>4. control' \in [Procs -> Controls]
    BY <1>29, <1>t, <1>c, <2>3 DEF ReadForCancel
  <2> QED BY <1>29, <1>t, <1>c, <2>1, <2>4, CmdAloneType
             DEF ReadForCancel, database, workspace, bounds
<1>30. ASSUME NEW p \in Procs, CommandRenews(p) PROVE TypeInv'
  <2>1. cmd' \in [Procs -> Cmds] /\ CommandKnown'
    BY <1>30, <1>t, <1>c, NextCmdStep, EndCmdType DEF CommandRenews, CmdSteps
  <2>2. lease' \in [owner : Owners, live : BOOLEAN]
    <3>1. lease' \in {lease, Touched(p)}
      BY <1>30 DEF CommandRenews
    <3> QED BY <3>1, <1>t, LeaseTypes
  <2> QED BY <1>30, <1>t, <1>c, <2>1, <2>2, CmdAloneType
             DEF CommandRenews, Command, database, workspace, bounds
<1>31. ASSUME NEW p \in Procs, Cancel(p) PROVE TypeInv'
  <2> DEFINE c == [IdleCmd EXCEPT !.pc = "cancel", !.kind = "cancelling",
                                  !.had = IF control[p].present THEN "live" ELSE "null"]
  <2>1. c \in Cmds /\ c.kind = "cancelling"
    BY IdleCmdType DEF Cmds, CmdSteps
  <2>2. cmd' \in [Procs -> Cmds] /\ CommandKnown'
    <3>1. CASE cmd' = [cmd EXCEPT ![p] = c]
      <4> HIDE DEF c
      <4> QED BY <3>1, <2>1, MoveCmd
    <3>2. CASE Issue(p, "await", "cancelling")
      BY <3>2, IssueType DEF CmdSteps
    <3> QED BY <1>31, <3>1, <3>2 DEF Cancel
  <2>3. [control EXCEPT ![p] = [@ EXCEPT !.cancelled = TRUE]] \in [Procs -> Controls]
    BY ControlTypes
  <2>4. control' \in [Procs -> Controls]
    BY <1>31, <1>t, <1>c, <2>3 DEF Cancel
  <2> QED BY <1>31, <1>t, <1>c, <2>2, <2>4, CmdAloneType
             DEF Cancel, Command, database, workspace, bounds
<1>32. ASSUME NEW p \in Procs, Execute(p) PROVE TypeInv'
  <2>1. exec[p] \in Executions /\ AtHand(exec[p]) /\ exec[p].run \in Rows
    BY DEF TypeInv, TypeOK, ItemAtHand, Executions
  <2>2. exec' \in [Procs -> Executions] /\ ItemAtHand'
    BY <1>32, GotoType DEF Execute, Heads, ExecSteps, AttemptSteps
  <2> QED BY <1>32, <1>t, <2>2, ExecWithType
             DEF Execute, CommandKnown, Command, database, workspace, bounds
<1>33. ASSUME NEW p \in Procs, Recover(p) PROVE TypeInv'
  <2>1. exec[p] \in Executions /\ AtHand(exec[p]) /\ exec[p].run \in Rows
    BY DEF TypeInv, TypeOK, ItemAtHand, Executions
  <2>2. exec' \in [Procs -> Executions] /\ ItemAtHand'
    BY <1>33, GotoType DEF Recover, Heads, ExecSteps, AttemptSteps
  <2>3. row' \in Rows /\ lease' \in [owner : Owners, live : BOOLEAN]
    BY <1>33, <1>t, <2>1, RecoveredType, LeaseTypes
       DEF Recover, RecoverInFlightRuns, TypeInv
  <2> QED BY <1>33, <1>t, <2>2, <2>3, ExecWithType
             DEF Recover, CommandKnown, Command, database, workspace, bounds
<1>34. ASSUME NEW p \in Procs, Startup(p) PROVE TypeInv'
  <2>1. exec[p] \in Executions /\ AtHand(exec[p]) /\ exec[p].run \in Rows
    BY DEF TypeInv, TypeOK, ItemAtHand, Executions
  <2>2. exec' \in [Procs -> Executions] /\ ItemAtHand'
    BY <1>34, GotoType DEF Startup, Heads, ExecSteps, AttemptSteps
  <2>3. row' \in Rows /\ lease' \in [owner : Owners, live : BOOLEAN]
    BY <1>34, <1>t, <2>1, RecoveredType, LeaseTypes
       DEF Startup, RecoverInFlightRuns, TypeInv
  <2> QED BY <1>34, <1>t, <2>2, <2>3, ExecWithType
             DEF Startup, CommandKnown, Command, database, workspace, bounds
<1>35. ASSUME NEW p \in Procs, Defer(p) PROVE TypeInv'
  <2>1. exec[p] \in Executions /\ AtHand(exec[p]) /\ exec[p].run \in Rows
    BY DEF TypeInv, TypeOK, ItemAtHand, Executions
  <2>2. exec' \in [Procs -> Executions] /\ ItemAtHand'
    BY <1>35, GotoType DEF Defer, Heads, ExecSteps, AttemptSteps
  <2>3. control' \in [Procs -> Controls]
    BY <1>35, <1>t, <2>1, ControlTypes DEF Defer
  <2> QED BY <1>35, <1>t, <2>2, <2>3, ExecWithType
             DEF Defer, CommandKnown, Command, database, workspace, bounds
<1>36. ASSUME NEW p \in Procs, Commit(p) PROVE TypeInv'
  <2>1. exec[p] \in Executions /\ AtHand(exec[p]) /\ exec[p].run \in Rows
    BY DEF TypeInv, TypeOK, ItemAtHand, Executions
  <2>2. exec' \in [Procs -> Executions] /\ ItemAtHand'
    <3> DEFINE e == [exec[p] EXCEPT !.committed = TRUE, !.pc = "checkpoint"]
    <3>1. e \in Executions
      BY <1>t, <2>1 DEF Executions, ExecSteps
    <3>2. AtHand(e)
      BY <1>36, <2>1 DEF Commit, Executions, AtHand, Heads, AttemptSteps
    <3>3. exec' = [exec EXCEPT ![p] = e]
      BY <1>36 DEF Commit
    <3> QED BY <3>1, <3>2, <3>3, MoveExec
  <2> QED BY <1>36, <1>t, <2>2, ExecWithType
             DEF Commit, CommandKnown, Command, database, workspace, bounds
<1>37. ASSUME NEW p \in Procs, Catch(p) PROVE TypeInv'
  <2>1. exec[p] \in Executions /\ AtHand(exec[p]) /\ exec[p].run \in Rows
    BY DEF TypeInv, TypeOK, ItemAtHand, Executions
  <2>2. exec' \in [Procs -> Executions] /\ ItemAtHand'
    <3> DEFINE e == [exec[p] EXCEPT !.cancelled = control[p].cancelled, !.pc = "final"]
    <3>4. control[p].cancelled \in BOOLEAN /\ "final" \in ExecSteps
      BY <1>t DEF Controls, ExecSteps
    <3>1. e \in Executions
      BY <2>1, <3>4 DEF Executions
    <3>2. AtHand(e)
      BY <1>37, <2>1 DEF Catch, Executions, AtHand, Heads, AttemptSteps
    <3>3. exec' = [exec EXCEPT ![p] = e]
      BY <1>37 DEF Catch
    <3> QED BY <3>1, <3>2, <3>3, MoveExec
  <2> QED BY <1>37, <1>t, <2>2, ExecWithType
             DEF Catch, CommandKnown, Command, database, workspace, bounds
<1>38. ASSUME NEW p \in Procs, RecordCheckpoint(p) PROVE TypeInv'
  <2>1. exec[p] \in Executions /\ AtHand(exec[p]) /\ exec[p].run \in Rows
    BY DEF TypeInv, TypeOK, ItemAtHand, Executions
  <2>2. exec' \in [Procs -> Executions] /\ ItemAtHand'
    <3> DEFINE saved == [exec[p].run EXCEPT !.state = "succeeded"]
    <3>1. saved \in Rows
      BY ExecRows DEF RunStates
    <3>2. Save(p, saved, "exit", "catch")
      BY <1>38 DEF RecordCheckpoint
    <3> HIDE DEF saved
    <3> QED BY <3>1, <3>2, SaveOutsideType DEF ExecSteps, AttemptSteps
  <2> QED BY <1>38, <1>t, <2>2, ExecWithType
             DEF RecordCheckpoint, CommandKnown, Command, database, workspace,
                 bounds
<1>39. ASSUME NEW p \in Procs, Exit(p) PROVE TypeInv'
  <2>1. exec[p] \in Executions /\ AtHand(exec[p]) /\ exec[p].run \in Rows
    BY DEF TypeInv, TypeOK, ItemAtHand, Executions
  <2>2. exec' \in [Procs -> Executions] /\ ItemAtHand'
    <3>1. exec' = [exec EXCEPT ![p] = IdleExec]
      BY <1>39 DEF Exit
    <3> QED BY <3>1, IdleExecType, MoveExec
  <2>3. lease' \in [owner : Owners, live : BOOLEAN]
    BY <1>39, <1>t, <2>1, LeaseTypes DEF Exit
  <2>4. registered' \in [Procs -> {"none", "exec", "cancel"}]
    BY <1>39, <1>t, <2>1 DEF Exit
  <2>5. control' \in [Procs -> Controls]
    BY <1>39, <1>t, <2>1 DEF Exit, Controls, NoControl
  <2>6. [cmd[p] EXCEPT !.had = IF cmd[p].had = "live" THEN "gone" ELSE cmd[p].had]
          \in {c \in Cmds : c.pc = cmd[p].pc /\ c.kind = cmd[p].kind}
    BY <1>39, <1>t, <2>1 DEF Cmds
  <2>7. cmd' \in [Procs -> Cmds] /\ CommandKnown'
    BY <1>39, <1>t, <2>1, <2>6, MoveCmd DEF Exit, CommandKnown
  <2> QED BY <1>39, <1>t, <2>2, <2>3, <2>4, <2>5, <2>6, <2>7, ExecWithType
             DEF Exit, CommandKnown, Command, database, workspace, bounds
<1>40. ASSUME NEW p \in Procs, Crash(p) PROVE TypeInv'
  <2>1. exec[p] \in Executions /\ AtHand(exec[p]) /\ exec[p].run \in Rows
    BY DEF TypeInv, TypeOK, ItemAtHand, Executions
  <2>2. exec' \in [Procs -> Executions] /\ ItemAtHand'
    <3> DEFINE e == [IdleExec EXCEPT !.pc = "down"]
    <3>1. e \in Executions
      BY IdleExecType DEF Executions, ExecSteps
    <3>2. AtHand(e)
      BY IdleExecType DEF Crash, Executions, AtHand, Heads, AttemptSteps
    <3>3. exec' = [exec EXCEPT ![p] = e]
      BY <1>40 DEF Crash
    <3> QED BY <3>1, <3>2, <3>3, MoveExec
  <2>3. lease' \in [owner : Owners, live : BOOLEAN]
    BY <1>40, <1>t, <2>1 DEF Crash, Owners
  <2>4. registered' \in [Procs -> {"none", "exec", "cancel"}]
    BY <1>40, <1>t, <2>1 DEF Crash
  <2>5. control' \in [Procs -> Controls]
    BY <1>40, <1>t, <2>1 DEF Crash, Controls, NoControl
  <2>6. cmd' \in [Procs -> Cmds] /\ CommandKnown'
    BY <1>40, <1>t, <2>1, EndCmdType DEF Crash
  <2> QED BY <1>40, <1>t, <2>2, <2>3, <2>4, <2>5, <2>6, ExecWithType
             DEF Crash, CommandKnown, Command, database, workspace, bounds
<1>41. ASSUME NEW p \in Procs, AcquireLease(p) PROVE TypeInv'
  <2>1. exec[p] \in Executions /\ AtHand(exec[p]) /\ exec[p].run \in Rows
    BY DEF TypeInv, TypeOK, ItemAtHand, Executions
  <2>2. exec' \in [Procs -> Executions] /\ ItemAtHand'
    <3>1. CASE exec' = [exec EXCEPT ![p] = IdleExec]
      BY <3>1, IdleExecType, MoveExec
    <3>2. CASE Goto(p, "waiting")
      BY <3>2, GotoType DEF ExecSteps, AttemptSteps
    <3> QED BY <1>41, <3>1, <3>2 DEF AcquireLease
  <2>3. lease' \in [owner : Owners, live : BOOLEAN]
    <3>1. lease' \in {lease, [owner |-> <<p, "exec">>, live |-> TRUE]}
      BY <1>41 DEF AcquireLease
    <3> QED BY <3>1, <1>t, LeaseTypes
  <2>4. registered' \in [Procs -> {"none", "exec", "cancel"}]
    BY <1>41, <1>t, <2>1 DEF AcquireLease
  <2>5. control' \in [Procs -> Controls]
    <3> DEFINE c == [NoControl EXCEPT !.present = TRUE]
    <3>1. c \in Controls
      BY DEF Controls, NoControl
    <3>2. control' \in {control, [control EXCEPT ![p] = c]}
      BY <1>41 DEF AcquireLease
    <3> HIDE DEF c
    <3> QED BY <1>t, <3>1, <3>2
  <2> QED BY <1>41, <1>t, <2>2, <2>3, <2>4, <2>5, ExecWithType
             DEF AcquireLease, CommandKnown, Command, database, workspace,
                 bounds
<1>42. ASSUME NEW p \in Procs, RenewBeforeSave(p) PROVE TypeInv'
  <2>1. exec[p] \in Executions /\ AtHand(exec[p]) /\ exec[p].run \in Rows
    BY DEF TypeInv, TypeOK, ItemAtHand, Executions
  <2>2. exec' \in [Procs -> Executions] /\ ItemAtHand'
    <3> DEFINE e(s) == [exec[p] EXCEPT !.pc = s]
    <3>1. ASSUME NEW s \in {"put", exec[p].raise}, exec' = [exec EXCEPT ![p] = e(s)]
          PROVE  exec' \in [Procs -> Executions] /\ ItemAtHand'
      <4>1. e(s) \in Executions
        BY <2>1 DEF Executions, ExecSteps
      <4>2. AtHand(e(s))
        BY <1>42, <2>1
           DEF RenewBeforeSave, Executions, AtHand, Heads, AttemptSteps
      <4> QED BY <3>1, <4>1, <4>2, MoveExec
    <3> QED BY <1>42, <3>1 DEF RenewBeforeSave, Goto
  <2>3. lease' \in [owner : Owners, live : BOOLEAN]
    <3>1. lease' \in {lease, Touched(p)}
      BY <1>42 DEF RenewBeforeSave
    <3> QED BY <3>1, <1>t, LeaseTypes
  <2> QED BY <1>42, <1>t, <2>2, <2>3, ExecWithType
             DEF RenewBeforeSave, CommandKnown, Command, database, workspace,
                 bounds
<1>43. ASSUME NEW p \in Procs, Put(p) PROVE TypeInv'
  <2>1. exec[p] \in Executions /\ AtHand(exec[p]) /\ exec[p].run \in Rows
    BY DEF TypeInv, TypeOK, ItemAtHand, Executions
  <2>2. exec' \in [Procs -> Executions] /\ ItemAtHand'
    <3> DEFINE e == [exec[p] EXCEPT !.pc = exec[p].then, !.then = "idle",
                                    !.raise = "exit"]
    <3>1. e \in Executions
      BY <1>t, <2>1 DEF Executions, ExecSteps
    <3>2. AtHand(e)
      BY <1>43, <2>1 DEF Put, Executions, AtHand, Heads, AttemptSteps
    <3>3. exec' = [exec EXCEPT ![p] = e]
      BY <1>43 DEF Put
    <3> QED BY <3>1, <3>2, <3>3, MoveExec
  <2>3. row' \in Rows
    BY <1>43, <1>t, <2>1 DEF Put
  <2> QED BY <1>43, <1>t, <2>2, <2>3, ExecWithType
             DEF Put, CommandKnown, Command, database, workspace, bounds
<1>44. ASSUME NEW p \in Procs, RunTool(p) PROVE TypeInv'
  <2>1. exec[p] \in Executions /\ AtHand(exec[p]) /\ exec[p].run \in Rows
    BY DEF TypeInv, TypeOK, ItemAtHand, Executions
  <2>2. exec[p].item \in Items /\ exec[p].attempt \in 1 .. MaxAttempts
    BY <1>44, <2>1 DEF RunTool, AtHand, Heads, AttemptSteps, Executions
  <2> DEFINE e(new) == [exec[p] EXCEPT !.known = exec[p].known \cup new,
                          !.pc = "renew", !.then = "work", !.raise = "attemptFailed"]
  <2>3. PICK new \in SUBSET {exec[p].item} :
            /\ effects' = effects \cup new /\ journal' = journal \cup new
            /\ exec' = [exec EXCEPT ![p] = e(new)]
    BY <1>44 DEF RunTool
  <2>4. e(new) \in Executions
    <3>1. {"renew", "work", "attemptFailed"} \subseteq ExecSteps
      BY DEF ExecSteps
    <3>2. exec[p].known \cup new \in SUBSET Items
      BY <2>1, <2>2 DEF Executions
    <3> QED BY <2>1, <3>1, <3>2 DEF Executions
  <2>5. AtHand(e(new))
    BY <1>44, <2>1 DEF RunTool, Executions, AtHand, Heads, AttemptSteps
  <2>6. exec' \in [Procs -> Executions] /\ ItemAtHand'
    BY <2>3, <2>4, <2>5, MoveExec
  <2>7. effects' \subseteq Items /\ journal' \subseteq Items
    BY <1>t, <2>2, <2>3
  <2>8. evidence' \subseteq Items \X (1 .. MaxAttempts)
    BY <1>44, <1>t, <2>2 DEF RunTool
  <2> QED BY <1>44, <1>t, <2>6, <2>7, <2>8, ExecWithType
             DEF RunTool, CommandKnown, bounds
<1>45. ASSUME NEW p \in Procs, Heartbeat(p) PROVE TypeInv'
  <2>1. lease \in [owner : Owners, live : BOOLEAN] /\ control[p].present \in BOOLEAN
    BY DEF TypeInv, TypeOK, Controls
  <2>2. lease' \in [owner : Owners, live : BOOLEAN]
    BY <1>45, <2>1, LeaseTypes DEF Heartbeat
  <2>3. [control EXCEPT ![p] = [@ EXCEPT !.cancelled = control[p].present]]
          \in [Procs -> Controls]
    BY <2>1, ControlTypes
  <2>4. control' \in [Procs -> Controls]
    BY <1>45, <2>3 DEF Heartbeat, TypeInv, TypeOK
  <2> QED BY <1>45, <2>2, <2>4
             DEF Heartbeat, TypeInv, TypeOK, ItemAtHand, CommandKnown,
                 workspace, bounds
<1>46. ASSUME Answer PROVE TypeInv'
  BY <1>46
     DEF Answer, TypeInv, TypeOK, ItemAtHand, CommandKnown, workspace, memory,
         bounds
<1>47. ASSUME Expire PROVE TypeInv'
  <2>1. lease' \in [owner : Owners, live : BOOLEAN]
    BY <1>47 DEF Expire, TypeInv, TypeOK
  <2>2. stalls' \in 0 .. MaxStalls
    BY <1>47 DEF Expire, TypeInv, TypeOK
  <2> QED BY <1>47, <2>1, <2>2
             DEF Expire, TypeInv, TypeOK, ItemAtHand, CommandKnown, workspace,
                 memory
<1>48. ASSUME UNCHANGED vars PROVE TypeInv'
  BY <1>48
     DEF vars, database, workspace, memory, bounds, TypeInv, TypeOK, ItemAtHand,
         CommandKnown
<1>49. ASSUME NEW p \in Procs, Execution(p) PROVE TypeInv'
  BY <1>42, <1>43, <1>11, <1>33, <1>41, <1>1, <1>4, <1>12, <1>2, <1>13,
     <1>14, <1>5, <1>15, <1>44, <1>6, <1>35, <1>3, <1>16, <1>7, <1>8, <1>17,
     <1>9, <1>36, <1>38, <1>37, <1>10, <1>39, <1>49 DEF Execution,
     EndAttempt
<1>50. ASSUME NEW p \in Procs, UserCommand(p) PROVE TypeInv'
  BY <1>20, <1>21, <1>29, <1>30, <1>22, <1>27, <1>23, <1>24, <1>28, <1>25,
     <1>26, <1>50 DEF UserCommand
<1> QED BY <1>18, <1>19, <1>31, <1>32, <1>34, <1>40, <1>45, <1>46, <1>47,
     <1>48, <1>49, <1>50 DEF Next

(* The coordinator never leaves the types of its tables and of its memory, *)
(* and an execution never works on an attempt its item may not have.       *)
THEOREM TypeCorrect == Spec => []TypeOK
<1>1. TypeInv => TypeOK
  BY DEF TypeInv
<1> QED BY <1>1, InitType, StepType, PTL DEF Spec

-----------------------------------------------------------------------------
(* Everything that says the run has succeeded, or lets it be said, was     *)
(* written after the COMMITTED marker.                                     *)
SuccessFollowsMarker ==
    /\ (checkpoint \/ row.state = "succeeded") => marker
    /\ \A p \in Procs :
        /\ (\/ exec[p].committed
            \/ Heads(exec[p], {"checkpoint"})
            \/ exec[p].run.state = "succeeded") => marker
        /\ cmd[p].run.state = "succeeded" => marker

-----------------------------------------------------------------------------
(* An execution that jumps to another step, or saves another row. *)
LEMMA ExecSuccess ==
    ASSUME TypeInv, SuccessFollowsMarker, NEW p \in Procs,
           UNCHANGED <<row, checkpoint, cmd>>,
           marker => marker', NEW e, exec' = [exec EXCEPT ![p] = e],
           e.committed \/ Heads(e, {"checkpoint"}) \/ e.run.state = "succeeded"
             => marker'
    PROVE  SuccessFollowsMarker'
<1>1. \A q \in Procs : exec'[q] = IF q = p THEN e ELSE exec[q]
  BY DEF TypeInv, TypeOK
<1> QED BY <1>1 DEF SuccessFollowsMarker

(* An execution that jumps elsewhere than to its checkpoint. *)
LEMMA GotoSuccess ==
    ASSUME TypeInv, SuccessFollowsMarker, NEW p \in Procs,
           UNCHANGED <<row, checkpoint, cmd>>,
           marker => marker', NEW step, step \notin {"checkpoint", "renew", "put"},
           Goto(p, step)
    PROVE  SuccessFollowsMarker'
<1> DEFINE e == [exec[p] EXCEPT !.pc = step]
<1>1. e.pc = step /\ e.committed = exec[p].committed /\ e.run = exec[p].run
  BY DEF TypeInv, TypeOK, Executions
<1>2. exec' = [exec EXCEPT ![p] = e]
  BY DEF Goto
<1> HIDE DEF e
<1> QED BY <1>1, <1>2, ExecSuccess DEF SuccessFollowsMarker, Heads

(* A save that does not go on to the checkpoint. *)
LEMMA SaveSuccess ==
    ASSUME TypeInv, SuccessFollowsMarker, NEW p \in Procs, UNCHANGED <<row, cmd>>,
           marker => marker', checkpoint' => marker',
           NEW run, NEW then, NEW raise, "checkpoint" \notin {then, raise},
           Save(p, run, then, raise),
           run.state = "succeeded" => marker'
    PROVE  SuccessFollowsMarker'
<1> DEFINE e == [exec[p] EXCEPT !.run = run, !.pc = "renew", !.then = then,
                                !.raise = raise]
<1>1. /\ e.pc = "renew" /\ e.then = then /\ e.raise = raise
      /\ e.committed = exec[p].committed /\ e.run = run
  BY DEF TypeInv, TypeOK, Executions
<1>2. \A q \in Procs : exec'[q] = IF q = p THEN e ELSE exec[q]
  BY DEF Save, TypeInv, TypeOK
<1> HIDE DEF e
<1> QED BY <1>1, <1>2 DEF SuccessFollowsMarker, Heads

(* A command that changes its own state. *)
LEMMA CmdSuccess ==
    ASSUME TypeInv, SuccessFollowsMarker, NEW p \in Procs,
           UNCHANGED <<checkpoint, exec, marker>>,
           row'.state = "succeeded"
             => row.state = "succeeded" \/ cmd[p].run.state = "succeeded",
           NEW c, cmd' = [cmd EXCEPT ![p] = c],
           c.run.state = "succeeded"
             => cmd[p].run.state = "succeeded" \/ row.state = "succeeded"
    PROVE  SuccessFollowsMarker'
<1>1. \A q \in Procs : cmd'[q] = IF q = p THEN c ELSE cmd[q]
  BY DEF TypeInv, TypeOK
<1> QED BY <1>1 DEF SuccessFollowsMarker

(* No run has succeeded when it is created. *)
LEMMA InitSuccess == Init => SuccessFollowsMarker
BY DEF Init, SuccessFollowsMarker, FreshRow, IdleExec, IdleCmd, Heads

(* Every step keeps success behind the marker. *)
LEMMA StepSuccess ==
    TypeInv /\ SuccessFollowsMarker /\ [Next]_vars => SuccessFollowsMarker'
<1> SUFFICES ASSUME TypeInv, SuccessFollowsMarker, [Next]_vars
             PROVE  SuccessFollowsMarker'
    OBVIOUS
<1>1. /\ row \in Rows /\ cmd \in [Procs -> Cmds] /\ exec \in [Procs -> Executions]
      /\ control \in [Procs -> Controls] /\ marker \in BOOLEAN
  BY DEF TypeInv, TypeOK
<1>2. FreshRow.state = "awaitingApproval"
  BY DEF FreshRow
<1>3. ASSUME NEW run \in Rows, NEW s \in RunStates, NEW r, r = [run EXCEPT !.state = s]
      PROVE  r.state = s
  BY <1>3, RowTypes
<1>4. ASSUME NEW p \in Procs, EnterProject(p) PROVE SuccessFollowsMarker'
  BY <1>4, GotoSuccess DEF EnterProject, database, workspace
<1>5. ASSUME NEW p \in Procs, Stopped(p) PROVE SuccessFollowsMarker'
  BY <1>5, GotoSuccess DEF Stopped, database, workspace
<1>6. ASSUME NEW p \in Procs, AttemptFails(p) PROVE SuccessFollowsMarker'
  BY <1>6, GotoSuccess DEF AttemptFails, database, workspace
<1>7. ASSUME NEW p \in Procs, Execute(p) PROVE SuccessFollowsMarker'
  BY <1>7, GotoSuccess DEF Execute, database, workspace
<1>8. ASSUME NEW p \in Procs, Defer(p) PROVE SuccessFollowsMarker'
  BY <1>8, GotoSuccess DEF Defer, workspace
<1>9. ASSUME NEW p \in Procs, Start(p) PROVE SuccessFollowsMarker'
  <2>1. exec[p] \in Executions /\ exec[p].run \in Rows
        /\ (exec[p].run.state = "succeeded" => marker)
    BY <1>1 DEF SuccessFollowsMarker, Heads, Executions
  <2> DEFINE started == [exec[p].run EXCEPT !.state = "running"]
             blocked == [exec[p].run EXCEPT !.state = "failed"]
  <2>2. started.state = "running" /\ blocked.state = "failed"
    BY <2>1 DEF Rows
  <2>3. \/ Save(p, started, "begin", "exit") \/ Save(p, blocked, "exit", "exit")
        \/ Goto(p, "exit")
    BY <1>9 DEF Start
  <2> HIDE DEF started, blocked
  <2> QED BY <1>9, <2>2, <2>3, SaveSuccess, GotoSuccess
             DEF Start, database, workspace, SuccessFollowsMarker
<1>10. ASSUME NEW p \in Procs, Turn(p) PROVE SuccessFollowsMarker'
  <2>1. exec[p] \in Executions /\ exec[p].run \in Rows
        /\ (exec[p].run.state = "succeeded" => marker)
    BY <1>1 DEF SuccessFollowsMarker, Heads, Executions
  <2> QED BY <1>10, <1>1, <2>1, SaveSuccess, GotoSuccess
             DEF Turn, Rows, database, workspace, SuccessFollowsMarker
<1>11. ASSUME NEW p \in Procs, CompleteItem(p) PROVE SuccessFollowsMarker'
  <2>1. exec[p] \in Executions /\ exec[p].run \in Rows
        /\ (exec[p].run.state = "succeeded" => marker)
    BY <1>1 DEF SuccessFollowsMarker, Heads, Executions
  <2> QED BY <1>11, <1>1, <2>1, SaveSuccess, GotoSuccess
             DEF CompleteItem, Rows, database, workspace, SuccessFollowsMarker
<1>12. ASSUME NEW p \in Procs, Suspend(p) PROVE SuccessFollowsMarker'
  <2>1. exec[p] \in Executions /\ exec[p].run \in Rows
        /\ (exec[p].run.state = "succeeded" => marker)
    BY <1>1 DEF SuccessFollowsMarker, Heads, Executions
  <2> QED BY <1>12, <1>1, <2>1, SaveSuccess, GotoSuccess
             DEF Suspend, Rows, database, workspace, SuccessFollowsMarker
<1>13. ASSUME NEW p \in Procs, AttemptFailed(p) PROVE SuccessFollowsMarker'
  <2>1. exec[p] \in Executions /\ exec[p].run \in Rows
        /\ (exec[p].run.state = "succeeded" => marker)
    BY <1>1 DEF SuccessFollowsMarker, Heads, Executions
  <2> QED BY <1>13, <1>1, <2>1, SaveSuccess, GotoSuccess
             DEF AttemptFailed, Rows, database, workspace, SuccessFollowsMarker
<1>14. ASSUME NEW p \in Procs, Verify(p) PROVE SuccessFollowsMarker'
  <2>1. exec[p] \in Executions /\ exec[p].run \in Rows
        /\ (exec[p].run.state = "succeeded" => marker)
    BY <1>1 DEF SuccessFollowsMarker, Heads, Executions
  <2> QED BY <1>14, <1>1, <2>1, SaveSuccess, GotoSuccess
             DEF Verify, Rows, database, workspace, SuccessFollowsMarker
<1>15. ASSUME NEW p \in Procs, ReadRun(p) PROVE SuccessFollowsMarker'
  <2>1. exec[p] \in Executions /\ exec[p].run \in Rows
        /\ (exec[p].run.state = "succeeded" => marker)
    BY <1>1 DEF SuccessFollowsMarker, Heads, Executions
  <2> DEFINE e2 == [exec[p] EXCEPT !.pc = "acquire", !.run = row]
  <2>2. CASE exec' = [exec EXCEPT ![p] = e2]
    <3>1. e2.committed \/ Heads(e2, {"checkpoint"}) \/ e2.run.state = "succeeded"
            => marker'
      BY <1>15, <1>1, <2>1, <2>2
         DEF ReadRun, SuccessFollowsMarker, Heads, Executions, database,
             workspace
    <3> HIDE DEF e2
    <3> QED BY <1>15, <2>2, <3>1, ExecSuccess DEF ReadRun, database, workspace
  <2> QED BY <1>15, <1>1, <2>1, <2>2, GotoSuccess
             DEF ReadRun, Rows, database, workspace, SuccessFollowsMarker
<1>16. ASSUME NEW p \in Procs, ChooseTool(p) PROVE SuccessFollowsMarker'
  <2>1. exec[p] \in Executions /\ exec[p].run \in Rows
        /\ (exec[p].run.state = "succeeded" => marker)
    BY <1>1 DEF SuccessFollowsMarker, Heads, Executions
  <2> DEFINE e2 == [exec[p] EXCEPT !.run = row, !.pc = "tool"]
  <2>2. CASE exec' = [exec EXCEPT ![p] = e2]
    <3>1. e2.committed \/ Heads(e2, {"checkpoint"}) \/ e2.run.state = "succeeded"
            => marker'
      BY <1>16, <1>1, <2>1, <2>2
         DEF ChooseTool, SuccessFollowsMarker, Heads, Executions, database,
             workspace
    <3> HIDE DEF e2
    <3> QED BY <1>16, <2>2, <3>1, ExecSuccess
               DEF ChooseTool, database, workspace
  <2> QED BY <1>16, <1>1, <2>1, <2>2
             DEF ChooseTool, Rows, database, workspace, SuccessFollowsMarker
<1>17. ASSUME NEW p \in Procs, Begin(p) PROVE SuccessFollowsMarker'
  <2>1. exec[p] \in Executions /\ exec[p].run \in Rows
        /\ (exec[p].run.state = "succeeded" => marker)
    BY <1>1 DEF SuccessFollowsMarker, Heads, Executions
  <2> DEFINE e2 == [exec[p] EXCEPT !.pc = "item", !.known = journal]
             e3 == [exec[p] EXCEPT !.run = [exec[p].run EXCEPT !.state = "succeeded"],
                    !.pc = "renew", !.then = "exit",
                    !.raise = "catch", !.committed = TRUE]
             e4 == [exec[p] EXCEPT !.pc = "catch", !.committed = TRUE]
  <2>2. CASE exec' = [exec EXCEPT ![p] = e2]
    <3>1. e2.committed \/ Heads(e2, {"checkpoint"}) \/ e2.run.state = "succeeded"
            => marker'
      BY <1>17, <1>1, <2>1, <2>2
         DEF Begin, SuccessFollowsMarker, Heads, Executions, database, workspace
    <3> HIDE DEF e2
    <3> QED BY <1>17, <2>2, <3>1, ExecSuccess DEF Begin, database, workspace
  <2>3. CASE marker /\ exec' = [exec EXCEPT ![p] = e3]
    <3>1. e3.committed \/ Heads(e3, {"checkpoint"}) \/ e3.run.state = "succeeded"
            => marker'
      BY <1>17, <1>1, <2>1, <2>3
         DEF Begin, SuccessFollowsMarker, Heads, Executions, database, workspace
    <3> HIDE DEF e3
    <3> QED BY <1>17, <2>3, <3>1, ExecSuccess DEF Begin, database, workspace
  <2>4. CASE marker /\ exec' = [exec EXCEPT ![p] = e4]
    <3>1. e4.committed \/ Heads(e4, {"checkpoint"}) \/ e4.run.state = "succeeded"
            => marker'
      BY <1>17, <1>1, <2>1, <2>4
         DEF Begin, SuccessFollowsMarker, Heads, Executions, database, workspace
    <3> HIDE DEF e4
    <3> QED BY <1>17, <2>4, <3>1, ExecSuccess DEF Begin, database, workspace
  <2> QED BY <1>17, <1>1, <2>1, <2>2, <2>3, <2>4, GotoSuccess
             DEF Begin, Rows, database, workspace, SuccessFollowsMarker
<1>18. ASSUME NEW p \in Procs, NextItem(p) PROVE SuccessFollowsMarker'
  <2>1. exec[p] \in Executions /\ exec[p].run \in Rows
        /\ (exec[p].run.state = "succeeded" => marker)
    BY <1>1 DEF SuccessFollowsMarker, Heads, Executions
  <2> DEFINE e2 == [exec[p] EXCEPT !.run = row, !.item = exec[p].item + 1]
             e3 == [exec[p] EXCEPT !.run = row, !.pc = "attempt",
                    !.attempt = FirstAttempt(row, exec[p].item)]
  <2>2. CASE exec' = [exec EXCEPT ![p] = e2]
    <3>1. e2.committed \/ Heads(e2, {"checkpoint"}) \/ e2.run.state = "succeeded"
            => marker'
      BY <1>18, <1>1, <2>1, <2>2
         DEF NextItem, SuccessFollowsMarker, Heads, Executions, database,
             workspace
    <3> HIDE DEF e2
    <3> QED BY <1>18, <2>2, <3>1, ExecSuccess DEF NextItem, database, workspace
  <2>3. CASE exec' = [exec EXCEPT ![p] = e3]
    <3>1. e3.committed \/ Heads(e3, {"checkpoint"}) \/ e3.run.state = "succeeded"
            => marker'
      BY <1>18, <1>1, <2>1, <2>3
         DEF NextItem, SuccessFollowsMarker, Heads, Executions, database,
             workspace
    <3> HIDE DEF e3
    <3> QED BY <1>18, <2>3, <3>1, ExecSuccess DEF NextItem, database, workspace
  <2> QED BY <1>18, <1>1, <2>1, <2>2, <2>3, GotoSuccess, SaveSuccess
             DEF NextItem, Rows, database, workspace, SuccessFollowsMarker
<1>19. ASSUME NEW p \in Procs, Attempt(p) PROVE SuccessFollowsMarker'
  <2>1. exec[p] \in Executions /\ exec[p].run \in Rows
        /\ (exec[p].run.state = "succeeded" => marker)
    BY <1>1 DEF SuccessFollowsMarker, Heads, Executions
  <2> DEFINE started == [exec[p].run EXCEPT !.item[exec[p].item] = "running",
                                        !.attempts[exec[p].item] = exec[p].attempt]
             exhausted == [exec[p].run EXCEPT !.item[exec[p].item] = "failed"]
  <2>2. started.state = exec[p].run.state /\ exhausted.state = exec[p].run.state
    BY <2>1 DEF Rows
  <2>3. Save(p, started, "work", "catch") \/ Save(p, exhausted, "catch", "catch")
    BY <1>19 DEF Attempt
  <2> HIDE DEF started, exhausted
  <2> QED BY <1>19, <2>1, <2>2, <2>3, SaveSuccess
             DEF Attempt, database, workspace, SuccessFollowsMarker
<1>20. ASSUME NEW p \in Procs, ItemDone(p) PROVE SuccessFollowsMarker'
  <2>1. exec[p] \in Executions /\ exec[p].run \in Rows
        /\ (exec[p].run.state = "succeeded" => marker)
    BY <1>1 DEF SuccessFollowsMarker, Heads, Executions
  <2> DEFINE e2 == [exec[p] EXCEPT !.item = exec[p].item + 1, !.pc = "item"]
  <2>2. CASE exec' = [exec EXCEPT ![p] = e2]
    <3>1. e2.committed \/ Heads(e2, {"checkpoint"}) \/ e2.run.state = "succeeded"
            => marker'
      BY <1>20, <1>1, <2>1, <2>2
         DEF ItemDone, SuccessFollowsMarker, Heads, Executions, database,
             workspace
    <3> HIDE DEF e2
    <3> QED BY <1>20, <2>2, <3>1, ExecSuccess DEF ItemDone, database, workspace
  <2> QED BY <1>20, <1>1, <2>1, <2>2
             DEF ItemDone, Rows, database, workspace, SuccessFollowsMarker
<1>21. ASSUME NEW p \in Procs, Decide(p) PROVE SuccessFollowsMarker'
  <2>1. exec[p] \in Executions /\ exec[p].run \in Rows
        /\ (exec[p].run.state = "succeeded" => marker)
    BY <1>1 DEF SuccessFollowsMarker, Heads, Executions
  <2> DEFINE e2 == [exec[p] EXCEPT
                      !.run = [exec[p].run EXCEPT !.item[exec[p].item] = "queued"],
                      !.attempt = exec[p].attempt + 1, !.pc = "renew",
                    !.then = "attempt", !.raise = "catch"]
  <2>2. CASE exec' = [exec EXCEPT ![p] = e2]
    <3>1. e2.committed \/ Heads(e2, {"checkpoint"}) \/ e2.run.state = "succeeded"
            => marker'
      BY <1>21, <1>1, <2>1, <2>2
         DEF Decide, SuccessFollowsMarker, Heads, Executions, database,
             workspace, Rows
    <3> HIDE DEF e2
    <3> QED BY <1>21, <2>2, <3>1, ExecSuccess DEF Decide, database, workspace
  <2> QED BY <1>21, <1>1, <2>1, <2>2, SaveSuccess
             DEF Decide, Rows, database, workspace, SuccessFollowsMarker
<1>22. ASSUME NEW p \in Procs, RunTool(p) PROVE SuccessFollowsMarker'
  <2>1. exec[p] \in Executions /\ exec[p].run \in Rows
        /\ (exec[p].run.state = "succeeded" => marker)
    BY <1>1 DEF SuccessFollowsMarker, Heads, Executions
  <2>2. PICK new : exec' = [exec EXCEPT ![p] =
              [exec[p] EXCEPT !.known = exec[p].known \cup new, !.pc = "renew",
                              !.then = "work", !.raise = "attemptFailed"]]
    BY <1>22 DEF RunTool
  <2> DEFINE e == [exec[p] EXCEPT !.known = exec[p].known \cup new, !.pc = "renew",
                                  !.then = "work", !.raise = "attemptFailed"]
  <2>3. e.committed \/ Heads(e, {"checkpoint"}) \/ e.run.state = "succeeded" => marker
    BY <2>1 DEF SuccessFollowsMarker, Heads, Executions
  <2> HIDE DEF e
  <2> QED BY <1>22, <2>2, <2>3, ExecSuccess DEF e, RunTool
<1>23. ASSUME NEW p \in Procs, Commit(p) PROVE SuccessFollowsMarker'
  <2>1. exec[p] \in Executions /\ exec[p].run \in Rows
        /\ (exec[p].run.state = "succeeded" => marker)
    BY <1>1 DEF SuccessFollowsMarker, Heads, Executions
  <2> DEFINE e2 == [exec[p] EXCEPT !.committed = TRUE, !.pc = "checkpoint"]
  <2>2. CASE exec' = [exec EXCEPT ![p] = e2]
    <3>1. e2.committed \/ Heads(e2, {"checkpoint"}) \/ e2.run.state = "succeeded"
            => marker'
      BY <1>23, <1>1, <2>1, <2>2
         DEF Commit, SuccessFollowsMarker, Heads, Executions, database
    <3> HIDE DEF e2
    <3> QED BY <1>23, <2>2, <3>1, ExecSuccess DEF Commit, database
  <2> QED BY <1>23, <1>1, <2>1, <2>2
             DEF Commit, Rows, database, SuccessFollowsMarker
<1>24. ASSUME NEW p \in Procs, Catch(p) PROVE SuccessFollowsMarker'
  <2>1. exec[p] \in Executions /\ exec[p].run \in Rows
        /\ (exec[p].run.state = "succeeded" => marker)
    BY <1>1 DEF SuccessFollowsMarker, Heads, Executions
  <2> DEFINE e2 == [exec[p] EXCEPT !.cancelled = control[p].cancelled, !.pc = "final"]
  <2>2. CASE exec' = [exec EXCEPT ![p] = e2]
    <3>1. e2.committed \/ Heads(e2, {"checkpoint"}) \/ e2.run.state = "succeeded"
            => marker'
      BY <1>24, <1>1, <2>1, <2>2
         DEF Catch, SuccessFollowsMarker, Heads, Executions, database
    <3> HIDE DEF e2
    <3> QED BY <1>24, <2>2, <3>1, ExecSuccess DEF Catch, database
  <2> QED BY <1>24, <1>1, <2>1, <2>2
             DEF Catch, Rows, database, SuccessFollowsMarker
<1>25. ASSUME NEW p \in Procs, RecordCheckpoint(p) PROVE SuccessFollowsMarker'
  <2>1. exec[p] \in Executions /\ exec[p].run \in Rows
        /\ (exec[p].run.state = "succeeded" => marker)
    BY <1>1 DEF SuccessFollowsMarker, Heads, Executions
  <2>2. marker
    BY <1>25 DEF RecordCheckpoint, SuccessFollowsMarker, Heads
  <2> QED BY <1>25, <2>2, SaveSuccess DEF RecordCheckpoint, workspace
<1>26. ASSUME NEW p \in Procs, Final(p) PROVE SuccessFollowsMarker'
  <2>1. exec[p] \in Executions /\ exec[p].run \in Rows
        /\ (exec[p].run.state = "succeeded" => marker)
    BY <1>1 DEF SuccessFollowsMarker, Heads, Executions
  <2>2. exec[p].committed => marker
    BY DEF SuccessFollowsMarker
  <2> DEFINE state == IF exec[p].committed
                      THEN IF AllSucceeded(row) THEN "succeeded" ELSE "interrupted"
                      ELSE IF exec[p].cancelled THEN "cancelled" ELSE "failed"
             run == [row EXCEPT !.state = state]
  <2>3. run.state = "succeeded" => marker
    BY <1>1, <2>2 DEF Rows
  <2>4. Save(p, run, "exit", "exit")
    BY <1>26 DEF Final
  <2> HIDE DEF run
  <2> QED BY <1>26, <2>3, <2>4, SaveSuccess
             DEF Final, database, workspace, SuccessFollowsMarker
<1>27. ASSUME NEW p \in Procs, RenewBeforeSave(p) PROVE SuccessFollowsMarker'
  <2>1. exec[p] \in Executions /\ exec[p].run \in Rows
        /\ (exec[p].run.state = "succeeded" => marker)
    BY <1>1 DEF SuccessFollowsMarker, Heads, Executions
  <2>2. ASSUME NEW s \in {"put", exec[p].raise},
               exec' = [exec EXCEPT ![p] = [@ EXCEPT !.pc = s]]
        PROVE  SuccessFollowsMarker'
    <3> DEFINE e == [exec[p] EXCEPT !.pc = s]
    <3>1. e.committed \/ Heads(e, {"checkpoint"}) \/ e.run.state = "succeeded" => marker
      BY <1>27, <2>1
         DEF RenewBeforeSave, SuccessFollowsMarker, Heads, Executions
    <3> HIDE DEF e
    <3> QED BY <1>27, <2>2, <3>1, ExecSuccess DEF e, RenewBeforeSave, workspace
  <2> QED BY <1>27, <2>2 DEF RenewBeforeSave, Goto
<1>28. ASSUME NEW p \in Procs, AcquireLease(p) PROVE SuccessFollowsMarker'
  <2>1. CASE Goto(p, "waiting")
    BY <1>28, <2>1, GotoSuccess DEF AcquireLease, workspace
  <2>2. CASE exec' = [exec EXCEPT ![p] = IdleExec]
    BY <1>28, <2>2, <1>2, ExecSuccess
       DEF AcquireLease, workspace, IdleExec, Heads
  <2> QED BY <1>28, <2>1, <2>2 DEF AcquireLease
<1>29. ASSUME NEW p \in Procs, Put(p) PROVE SuccessFollowsMarker'
  <2> DEFINE e == [exec[p] EXCEPT !.pc = exec[p].then, !.then = "idle",
                                    !.raise = "exit"]
  <2>1. e.committed \/ Heads(e, {"checkpoint"}) \/ e.run.state = "succeeded" => marker
    BY <1>29, <1>1 DEF Put, SuccessFollowsMarker, Heads, Executions
  <2>2. exec' = [exec EXCEPT ![p] = e]
    BY <1>29 DEF Put
  <2>3. \A q \in Procs : exec'[q] = IF q = p THEN e ELSE exec[q]
    BY <2>2, <1>1
  <2>4. row'.state = "succeeded" => marker
    BY <1>29 DEF Put, SuccessFollowsMarker
  <2> HIDE DEF e
  <2> QED BY <1>29, <2>1, <2>3, <2>4 DEF Put, workspace, SuccessFollowsMarker
<1>30. ASSUME NEW p \in Procs, Recover(p) PROVE SuccessFollowsMarker'
  <2> DEFINE e == [exec[p] EXCEPT !.pc = "reread"]
  <2>1. e.committed \/ Heads(e, {"checkpoint"}) \/ e.run.state = "succeeded" => marker
    BY <1>1 DEF SuccessFollowsMarker, Heads, Executions
  <2>2. exec' = [exec EXCEPT ![p] = e]
    BY <1>30 DEF Recover, Goto
  <2>3. \A q \in Procs : exec'[q] = IF q = p THEN e ELSE exec[q]
    BY <2>2, <1>1
  <2>4. Recovered.state = "succeeded" => marker
    BY <1>1 DEF Recovered, Rows, SuccessFollowsMarker
  <2>5. row'.state = "succeeded" => marker
    <3> HIDE DEF e
    <3> QED BY <1>30, <2>4
               DEF Recover, RecoverInFlightRuns, SuccessFollowsMarker
  <2> HIDE DEF e
  <2> QED BY <1>30, <2>1, <2>3, <2>5
             DEF Recover, workspace, SuccessFollowsMarker
<1>31. ASSUME NEW p \in Procs, Startup(p) PROVE SuccessFollowsMarker'
  <2> DEFINE e == [exec[p] EXCEPT !.pc = "idle"]
  <2>1. e.committed \/ Heads(e, {"checkpoint"}) \/ e.run.state = "succeeded" => marker
    BY <1>1 DEF SuccessFollowsMarker, Heads, Executions
  <2>2. exec' = [exec EXCEPT ![p] = e]
    BY <1>31 DEF Startup, Goto
  <2>3. \A q \in Procs : exec'[q] = IF q = p THEN e ELSE exec[q]
    BY <2>2, <1>1
  <2>4. Recovered.state = "succeeded" => marker
    BY <1>1 DEF Recovered, Rows, SuccessFollowsMarker
  <2>5. row'.state = "succeeded" => marker
    <3> HIDE DEF e
    <3> QED BY <1>31, <2>4
               DEF Startup, RecoverInFlightRuns, SuccessFollowsMarker
  <2> HIDE DEF e
  <2> QED BY <1>31, <2>1, <2>3, <2>5
             DEF Startup, workspace, SuccessFollowsMarker
<1>32. ASSUME NEW p \in Procs, Exit(p) PROVE SuccessFollowsMarker'
  <2>1. \A q \in Procs : exec'[q] = IF q = p THEN IdleExec ELSE exec[q]
    BY <1>32, <1>1 DEF Exit
  <2>2. \A q \in Procs : cmd'[q].run = cmd[q].run
    BY <1>32, <1>1 DEF Exit, Cmds
  <2>3. ~IdleExec.committed /\ ~Heads(IdleExec, {"checkpoint"})
        /\ IdleExec.run.state # "succeeded"
    BY <1>2 DEF IdleExec, Heads
  <2> QED BY <1>32, <2>1, <2>2, <2>3 DEF Exit, workspace, SuccessFollowsMarker
<1>33. ASSUME NEW p \in Procs, Crash(p) PROVE SuccessFollowsMarker'
  <2>1. \A q \in Procs : exec'[q] = IF q = p THEN [IdleExec EXCEPT !.pc = "down"]
                                           ELSE exec[q]
    BY <1>33, <1>1 DEF Crash
  <2>2. \A q \in Procs : cmd'[q] = IF q = p THEN IdleCmd ELSE cmd[q]
    BY <1>33, <1>1 DEF Crash
  <2>3. LET e == [IdleExec EXCEPT !.pc = "down"] IN
        ~e.committed /\ ~Heads(e, {"checkpoint"}) /\ e.run.state # "succeeded"
    BY <1>2 DEF IdleExec, Heads
  <2>4. IdleCmd.run.state # "succeeded"
    BY <1>2 DEF IdleCmd
  <2> QED BY <1>33, <2>1, <2>2, <2>3, <2>4
             DEF Crash, workspace, SuccessFollowsMarker
<1>34. ASSUME NEW p \in Procs, Pause(p) PROVE SuccessFollowsMarker'
  <2>1. cmd[p] \in Cmds
    BY <1>1
  <2>2. row'.state = "succeeded"
          => row.state = "succeeded" \/ cmd[p].run.state = "succeeded"
    BY <1>34, <1>1, <2>1 DEF Pause, Cmds, Rows, database
  <2> DEFINE c3 == [IdleCmd EXCEPT !.pc = "read", !.kind = "paused"]
  <2>3. CASE cmd' = [cmd EXCEPT ![p] = c3]
    <3>1. c3.run.state = "succeeded"
            => cmd[p].run.state = "succeeded" \/ row.state = "succeeded"
      BY <1>1, <1>2, <2>1 DEF Cmds, IdleCmd, Rows
    <3> HIDE DEF c3
    <3> QED BY <1>34, <2>2, <2>3, <3>1, CmdSuccess
               DEF Pause, database, workspace
  <2> QED BY <1>34, <2>1, <2>3 DEF Pause, Issue
<1>35. ASSUME NEW p \in Procs, Resume(p) PROVE SuccessFollowsMarker'
  <2>1. cmd[p] \in Cmds
    BY <1>1
  <2>2. row'.state = "succeeded"
          => row.state = "succeeded" \/ cmd[p].run.state = "succeeded"
    BY <1>35, <1>1, <2>1 DEF Resume, Cmds, Rows, database
  <2> DEFINE c3 == [IdleCmd EXCEPT !.pc = "read", !.kind = "running"]
  <2>3. CASE cmd' = [cmd EXCEPT ![p] = c3]
    <3>1. c3.run.state = "succeeded"
            => cmd[p].run.state = "succeeded" \/ row.state = "succeeded"
      BY <1>1, <1>2, <2>1 DEF Cmds, IdleCmd, Rows
    <3> HIDE DEF c3
    <3> QED BY <1>35, <2>2, <2>3, <3>1, CmdSuccess
               DEF Resume, database, workspace
  <2> QED BY <1>35, <2>1, <2>3 DEF Resume, Issue
<1>36. ASSUME NEW p \in Procs, Cancel(p) PROVE SuccessFollowsMarker'
  <2>1. cmd[p] \in Cmds
    BY <1>1
  <2>2. row'.state = "succeeded"
          => row.state = "succeeded" \/ cmd[p].run.state = "succeeded"
    BY <1>36, <1>1, <2>1 DEF Cancel, Cmds, Rows, database
  <2> DEFINE c3 == [IdleCmd EXCEPT !.pc = "await", !.kind = "cancelling"]
  <2>3. CASE cmd' = [cmd EXCEPT ![p] = c3]
    <3>1. c3.run.state = "succeeded"
            => cmd[p].run.state = "succeeded" \/ row.state = "succeeded"
      BY <1>1, <1>2, <2>1 DEF Cmds, IdleCmd, Rows
    <3> HIDE DEF c3
    <3> QED BY <1>36, <2>2, <2>3, <3>1, CmdSuccess
               DEF Cancel, database, workspace
  <2> DEFINE c4 == [IdleCmd EXCEPT !.pc = "cancel", !.kind = "cancelling",
            !.had = IF control[p].present THEN "live" ELSE "null"]
  <2>4. CASE cmd' = [cmd EXCEPT ![p] = c4]
    <3>1. c4.run.state = "succeeded"
            => cmd[p].run.state = "succeeded" \/ row.state = "succeeded"
      BY <1>1, <1>2, <2>1 DEF Cmds, IdleCmd, Rows
    <3> HIDE DEF c4
    <3> QED BY <1>36, <2>2, <2>4, <3>1, CmdSuccess
               DEF Cancel, database, workspace
  <2> QED BY <1>36, <2>1, <2>3, <2>4 DEF Cancel, Issue
<1>37. ASSUME NEW p \in Procs, ReadForSave(p) PROVE SuccessFollowsMarker'
  <2>1. cmd[p] \in Cmds
    BY <1>1
  <2>2. row'.state = "succeeded"
          => row.state = "succeeded" \/ cmd[p].run.state = "succeeded"
    BY <1>37, <1>1, <2>1 DEF ReadForSave, Cmds, Rows, database
  <2> DEFINE c3 == [cmd[p] EXCEPT !.pc = "renew", !.run = row]
  <2>3. CASE cmd' = [cmd EXCEPT ![p] = c3]
    <3>1. c3.run.state = "succeeded"
            => cmd[p].run.state = "succeeded" \/ row.state = "succeeded"
      BY <1>1, <1>2, <2>1 DEF Cmds, IdleCmd, Rows
    <3> HIDE DEF c3
    <3> QED BY <1>37, <2>2, <2>3, <3>1, CmdSuccess
               DEF ReadForSave, database, workspace
  <2> QED BY <1>37, <2>1, <2>3 DEF ReadForSave, Issue
<1>38. ASSUME NEW p \in Procs, AwaitExecution(p) PROVE SuccessFollowsMarker'
  <2>1. cmd[p] \in Cmds
    BY <1>1
  <2>2. row'.state = "succeeded"
          => row.state = "succeeded" \/ cmd[p].run.state = "succeeded"
    BY <1>38, <1>1, <2>1 DEF AwaitExecution, Cmds, Rows, database
  <2> DEFINE c3 == [cmd[p] EXCEPT !.pc = "cancel"]
  <2>3. CASE cmd' = [cmd EXCEPT ![p] = c3]
    <3>1. c3.run.state = "succeeded"
            => cmd[p].run.state = "succeeded" \/ row.state = "succeeded"
      BY <1>1, <1>2, <2>1 DEF Cmds, IdleCmd, Rows
    <3> HIDE DEF c3
    <3> QED BY <1>38, <2>2, <2>3, <3>1, CmdSuccess
               DEF AwaitExecution, database, workspace
  <2> QED BY <1>38, <2>1, <2>3 DEF AwaitExecution, Issue
<1>39. ASSUME NEW p \in Procs, ReadForCancel(p) PROVE SuccessFollowsMarker'
  <2>1. cmd[p] \in Cmds
    BY <1>1
  <2>2. row'.state = "succeeded"
          => row.state = "succeeded" \/ cmd[p].run.state = "succeeded"
    BY <1>39, <1>1, <2>1 DEF ReadForCancel, Cmds, Rows, database
  <2>3. CASE cmd' = [cmd EXCEPT ![p] = IdleCmd]
    <3>1. IdleCmd.run.state = "succeeded"
            => cmd[p].run.state = "succeeded" \/ row.state = "succeeded"
      BY <1>1, <1>2, <2>1 DEF Cmds, IdleCmd, Rows
    <3> QED BY <1>39, <2>2, <2>3, <3>1, CmdSuccess
               DEF ReadForCancel, database, workspace
  <2> DEFINE c4 == [cmd[p] EXCEPT !.pc = "dacquire"]
  <2>4. CASE cmd' = [cmd EXCEPT ![p] = c4]
    <3>1. c4.run.state = "succeeded"
            => cmd[p].run.state = "succeeded" \/ row.state = "succeeded"
      BY <1>1, <1>2, <2>1 DEF Cmds, IdleCmd, Rows
    <3> HIDE DEF c4
    <3> QED BY <1>39, <2>2, <2>4, <3>1, CmdSuccess
               DEF ReadForCancel, database, workspace
  <2> DEFINE c5 == [cmd[p] EXCEPT !.pc = "renew", !.run = row]
  <2>5. CASE cmd' = [cmd EXCEPT ![p] = c5]
    <3>1. c5.run.state = "succeeded"
            => cmd[p].run.state = "succeeded" \/ row.state = "succeeded"
      BY <1>1, <1>2, <2>1 DEF Cmds, IdleCmd, Rows
    <3> HIDE DEF c5
    <3> QED BY <1>39, <2>2, <2>5, <3>1, CmdSuccess
               DEF ReadForCancel, database, workspace
  <2> QED BY <1>39, <2>1, <2>3, <2>4, <2>5 DEF ReadForCancel, Issue
<1>40. ASSUME NEW p \in Procs, CommandPuts(p) PROVE SuccessFollowsMarker'
  <2>1. cmd[p] \in Cmds
    BY <1>1
  <2>2. row'.state = "succeeded"
          => row.state = "succeeded" \/ cmd[p].run.state = "succeeded"
    BY <1>40, <1>1, <2>1 DEF CommandPuts, Cmds, Rows, database
  <2>3. CASE cmd' = [cmd EXCEPT ![p] = IdleCmd]
    <3>1. IdleCmd.run.state = "succeeded"
            => cmd[p].run.state = "succeeded" \/ row.state = "succeeded"
      BY <1>1, <1>2, <2>1 DEF Cmds, IdleCmd, Rows
    <3> QED BY <1>40, <2>2, <2>3, <3>1, CmdSuccess
               DEF CommandPuts, database, workspace
  <2> QED BY <1>40, <2>1, <2>3 DEF CommandPuts, Issue
<1>41. ASSUME NEW p \in Procs, AcquireCancelLease(p) PROVE SuccessFollowsMarker'
  <2>1. cmd[p] \in Cmds
    BY <1>1
  <2>2. row'.state = "succeeded"
          => row.state = "succeeded" \/ cmd[p].run.state = "succeeded"
    BY <1>41, <1>1, <2>1 DEF AcquireCancelLease, Cmds, Rows, database
  <2>3. CASE cmd' = [cmd EXCEPT ![p] = IdleCmd]
    <3>1. IdleCmd.run.state = "succeeded"
            => cmd[p].run.state = "succeeded" \/ row.state = "succeeded"
      BY <1>1, <1>2, <2>1 DEF Cmds, IdleCmd, Rows
    <3> QED BY <1>41, <2>2, <2>3, <3>1, CmdSuccess
               DEF AcquireCancelLease, database, workspace
  <2> DEFINE c4 == [cmd[p] EXCEPT !.pc = "dwait"]
  <2>4. CASE cmd' = [cmd EXCEPT ![p] = c4]
    <3>1. c4.run.state = "succeeded"
            => cmd[p].run.state = "succeeded" \/ row.state = "succeeded"
      BY <1>1, <1>2, <2>1 DEF Cmds, IdleCmd, Rows
    <3> HIDE DEF c4
    <3> QED BY <1>41, <2>2, <2>4, <3>1, CmdSuccess
               DEF AcquireCancelLease, database, workspace
  <2> QED BY <1>41, <2>1, <2>3, <2>4 DEF AcquireCancelLease, Issue
<1>42. ASSUME NEW p \in Procs, EnterProjectToCancel(p) PROVE SuccessFollowsMarker'
  <2>1. cmd[p] \in Cmds
    BY <1>1
  <2>2. row'.state = "succeeded"
          => row.state = "succeeded" \/ cmd[p].run.state = "succeeded"
    BY <1>42, <1>1, <2>1 DEF EnterProjectToCancel, Cmds, Rows, database
  <2> DEFINE c3 == [cmd[p] EXCEPT !.pc = "dread"]
  <2>3. CASE cmd' = [cmd EXCEPT ![p] = c3]
    <3>1. c3.run.state = "succeeded"
            => cmd[p].run.state = "succeeded" \/ row.state = "succeeded"
      BY <1>1, <1>2, <2>1 DEF Cmds, IdleCmd, Rows
    <3> HIDE DEF c3
    <3> QED BY <1>42, <2>2, <2>3, <3>1, CmdSuccess
               DEF EnterProjectToCancel, database, workspace
  <2> QED BY <1>42, <2>1, <2>3 DEF EnterProjectToCancel, Issue
<1>43. ASSUME NEW p \in Procs, PutCancelled(p) PROVE SuccessFollowsMarker'
  <2>1. cmd[p] \in Cmds
    BY <1>1
  <2>2. row'.state = "succeeded"
          => row.state = "succeeded" \/ cmd[p].run.state = "succeeded"
    BY <1>43, <1>1, <2>1 DEF PutCancelled, Cmds, Rows, database
  <2> DEFINE c3 == [cmd[p] EXCEPT !.pc = "drelease"]
  <2>3. CASE cmd' = [cmd EXCEPT ![p] = c3]
    <3>1. c3.run.state = "succeeded"
            => cmd[p].run.state = "succeeded" \/ row.state = "succeeded"
      BY <1>1, <1>2, <2>1 DEF Cmds, IdleCmd, Rows
    <3> HIDE DEF c3
    <3> QED BY <1>43, <2>2, <2>3, <3>1, CmdSuccess
               DEF PutCancelled, database, workspace
  <2> QED BY <1>43, <2>1, <2>3 DEF PutCancelled, Issue
<1>44. ASSUME NEW p \in Procs, ReleaseCancelLease(p) PROVE SuccessFollowsMarker'
  <2>1. cmd[p] \in Cmds
    BY <1>1
  <2>2. row'.state = "succeeded"
          => row.state = "succeeded" \/ cmd[p].run.state = "succeeded"
    BY <1>44, <1>1, <2>1 DEF ReleaseCancelLease, Cmds, Rows, database
  <2>3. CASE cmd' = [cmd EXCEPT ![p] = IdleCmd]
    <3>1. IdleCmd.run.state = "succeeded"
            => cmd[p].run.state = "succeeded" \/ row.state = "succeeded"
      BY <1>1, <1>2, <2>1 DEF Cmds, IdleCmd, Rows
    <3> QED BY <1>44, <2>2, <2>3, <3>1, CmdSuccess
               DEF ReleaseCancelLease, database, workspace
  <2> QED BY <1>44, <2>1, <2>3 DEF ReleaseCancelLease, Issue
<1>45. ASSUME NEW p \in Procs, RollBackPaused(p) PROVE SuccessFollowsMarker'
  <2>1. cmd[p] \in Cmds
    BY <1>1
  <2>2. row'.state = "succeeded"
          => row.state = "succeeded" \/ cmd[p].run.state = "succeeded"
    BY <1>45, <1>1, <2>1 DEF RollBackPaused, Cmds, Rows, database
  <2> DEFINE c3 == [cmd[p] EXCEPT !.pc = "drelease"]
  <2>3. CASE cmd' = [cmd EXCEPT ![p] = c3]
    <3>1. c3.run.state = "succeeded"
            => cmd[p].run.state = "succeeded" \/ row.state = "succeeded"
      BY <1>1, <1>2, <2>1 DEF Cmds, IdleCmd, Rows
    <3> HIDE DEF c3
    <3> QED BY <1>45, <2>2, <2>3, <3>1, CmdSuccess
               DEF RollBackPaused, database, workspace
  <2> DEFINE c4 == [cmd[p] EXCEPT !.pc = "drenew", !.run = CancelledRow(cmd[p].run)]
  <2>4. CASE cmd' = [cmd EXCEPT ![p] = c4]
    <3>1. c4.run.state = "succeeded"
            => cmd[p].run.state = "succeeded" \/ row.state = "succeeded"
      BY <1>1, <1>2, <2>1 DEF Cmds, IdleCmd, Rows, CancelledRow
    <3> HIDE DEF c4
    <3> QED BY <1>45, <2>2, <2>4, <3>1, CmdSuccess
               DEF RollBackPaused, database, workspace
  <2> QED BY <1>45, <2>1, <2>3, <2>4 DEF RollBackPaused, Issue
<1>46. ASSUME NEW p \in Procs, ReadPaused(p) PROVE SuccessFollowsMarker'
  <2>1. cmd[p] \in Cmds
    BY <1>1
  <2>2. row'.state = "succeeded"
          => row.state = "succeeded" \/ cmd[p].run.state = "succeeded"
    BY <1>46, <1>1, <2>1 DEF ReadPaused, Cmds, Rows, database
  <2> DEFINE c3 == [cmd[p] EXCEPT !.pc = IF row.state = "paused" THEN "dbegin"
                                                        ELSE "drelease",
                                 !.run = row]
  <2>3. CASE cmd' = [cmd EXCEPT ![p] = c3]
    <3>1. c3.run.state = "succeeded"
            => cmd[p].run.state = "succeeded" \/ row.state = "succeeded"
      BY <1>1, <1>2, <2>1 DEF Cmds, IdleCmd, Rows
    <3> HIDE DEF c3
    <3> QED BY <1>46, <2>2, <2>3, <3>1, CmdSuccess
               DEF ReadPaused, database, workspace
  <2> QED BY <1>46, <2>1, <2>3 DEF ReadPaused, Issue
<1>47. ASSUME NEW p \in Procs, CommandRenews(p) PROVE SuccessFollowsMarker'
  <2>1. cmd[p] \in Cmds
    BY <1>1
  <2>2. row'.state = "succeeded"
          => row.state = "succeeded" \/ cmd[p].run.state = "succeeded"
    BY <1>47, <1>1, <2>1 DEF CommandRenews, Cmds, Rows, database
  <2>3. CASE cmd' = [cmd EXCEPT ![p] = IdleCmd]
    <3>1. IdleCmd.run.state = "succeeded"
            => cmd[p].run.state = "succeeded" \/ row.state = "succeeded"
      BY <1>1, <1>2, <2>1 DEF Cmds, IdleCmd, Rows
    <3> QED BY <1>47, <2>2, <2>3, <3>1, CmdSuccess
               DEF CommandRenews, database, workspace
  <2> DEFINE c4 == [cmd[p] EXCEPT !.pc = "drelease"]
  <2>4. CASE cmd' = [cmd EXCEPT ![p] = c4]
    <3>1. c4.run.state = "succeeded"
            => cmd[p].run.state = "succeeded" \/ row.state = "succeeded"
      BY <1>1, <1>2, <2>1 DEF Cmds, IdleCmd, Rows
    <3> HIDE DEF c4
    <3> QED BY <1>47, <2>2, <2>4, <3>1, CmdSuccess
               DEF CommandRenews, database, workspace
  <2> DEFINE c5 == [cmd[p] EXCEPT !.pc = IF cmd[p].pc = "renew" THEN "put" ELSE "dput"]
  <2>5. CASE cmd' = [cmd EXCEPT ![p] = c5]
    <3>1. c5.run.state = "succeeded"
            => cmd[p].run.state = "succeeded" \/ row.state = "succeeded"
      BY <1>1, <1>2, <2>1 DEF Cmds, IdleCmd, Rows
    <3> HIDE DEF c5
    <3> QED BY <1>47, <2>2, <2>5, <3>1, CmdSuccess
               DEF CommandRenews, database, workspace
  <2> QED BY <1>47, <2>1, <2>3, <2>4, <2>5 DEF CommandRenews, Issue
<1>48. ASSUME NEW p \in Procs, Heartbeat(p) PROVE SuccessFollowsMarker'
  BY <1>48 DEF Heartbeat, SuccessFollowsMarker, workspace
<1>49. ASSUME Answer PROVE SuccessFollowsMarker'
  BY <1>49 DEF Answer, SuccessFollowsMarker, workspace, memory
<1>50. ASSUME Expire PROVE SuccessFollowsMarker'
  BY <1>50 DEF Expire, SuccessFollowsMarker, workspace, memory
<1>51. ASSUME UNCHANGED vars PROVE SuccessFollowsMarker'
  BY <1>51 DEF SuccessFollowsMarker, vars, database, workspace, memory
<1>52. ASSUME NEW p \in Procs, Execution(p) PROVE SuccessFollowsMarker'
  BY <1>27, <1>29, <1>15, <1>30, <1>28, <1>4, <1>9, <1>17, <1>5, <1>18,
     <1>19, <1>10, <1>16, <1>22, <1>11, <1>8, <1>6, <1>20, <1>12, <1>13,
     <1>21, <1>14, <1>23, <1>25, <1>24, <1>26, <1>32, <1>52 DEF Execution,
     EndAttempt
<1>53. ASSUME NEW p \in Procs, UserCommand(p) PROVE SuccessFollowsMarker'
  BY <1>37, <1>38, <1>39, <1>47, <1>40, <1>41, <1>42, <1>46, <1>45, <1>43,
     <1>44, <1>53 DEF UserCommand
<1> QED BY <1>7, <1>31, <1>33, <1>34, <1>35, <1>36, <1>48, <1>49, <1>50,
     <1>51, <1>52, <1>53 DEF Next

(* A run that is shown as succeeded has a committed workspace, also when   *)
(* its processes crash, lose their leases and overwrite each other's rows. *)
THEOREM SuccessIsCommitted == Spec => []SucceededIsCommitted
<1>1. SuccessFollowsMarker => SucceededIsCommitted
  BY DEF SuccessFollowsMarker, SucceededIsCommitted
<1> QED BY <1>1, InitType, StepType, InitSuccess, StepSuccess, PTL DEF Spec

-----------------------------------------------------------------------------
(***************************************************************************)
(* The lease.                                                              *)
(***************************************************************************)
(* While no lease expired under a living process, whoever is engaged in    *)
(* the run holds its lease, and the lease has not run out.                 *)
LeaseHeld ==
    stalls = 0 =>
        \A p \in Procs :
            /\ control[p].present => Owns(p, "exec") /\ lease.live
            /\ DurablyCancels(p) => Owns(p, "cancel") /\ lease.live

-----------------------------------------------------------------------------
(* Owners of different tasks or processes are different. *)
LEMMA OwnersDiffer ==
    ASSUME NEW p, NEW q
    PROVE  /\ <<p, "exec">> # <<q, "cancel">>
           /\ p # q => <<p, "exec">> # <<q, "exec">> /\ <<p, "cancel">> # <<q, "cancel">>
           /\ <<p, "exec">> # <<"gone">> /\ <<p, "cancel">> # <<"gone">>
           /\ <<p, "exec">> # <<"none">> /\ <<p, "cancel">> # <<"none">>
OBVIOUS

(* A step that engages nobody and leaves the lease with its owner. *)
LEMMA LeaseKept ==
    ASSUME TypeInv, LeaseHeld, stalls' = stalls,
           lease' \in {lease, [lease EXCEPT !.live = TRUE]},
           \A q \in Procs : control'[q].present => control[q].present,
           \A q \in Procs : DurablyCancels(q)' => DurablyCancels(q)
    PROVE  LeaseHeld'
<1>1. lease \in [owner : Owners, live : BOOLEAN]
  BY DEF TypeInv, TypeOK
<1>2. lease'.owner = lease.owner /\ (lease.live => lease'.live)
  BY <1>1
<1> QED BY <1>2 DEF LeaseHeld, Owns

(* While the lease can be acquired nobody is engaged. *)
LEMMA AvailableMeansIdle ==
    ASSUME TypeInv, LeaseHeld, stalls = 0, Available
    PROVE  \A q \in Procs : ~control[q].present /\ ~DurablyCancels(q)
BY OwnersDiffer DEF LeaseHeld, Available, Owns

(* The lease is acquired by the one task that is engaged afterwards. *)
LEMMA LeaseTaken ==
    ASSUME TypeInv, NEW p \in Procs, NEW task \in {"exec", "cancel"},
           lease' = [owner |-> <<p, task>>, live |-> TRUE],
           \A q \in Procs : control'[q].present => q = p /\ task = "exec",
           \A q \in Procs : DurablyCancels(q)' => q = p /\ task = "cancel"
    PROVE  LeaseHeld'
<1>1. lease'.owner = <<p, task>> /\ lease'.live
  OBVIOUS
<1> QED BY <1>1 DEF LeaseHeld, Owns

(* The task that held the lease ends, and nobody else was engaged. *)
LEMMA LeaseLeft ==
    ASSUME TypeInv, LeaseHeld, stalls' = stalls, NEW p \in Procs,
           NEW task \in {"exec", "cancel"}, Owns(p, task),
           \A q \in Procs : control'[q].present =>
                control[q].present /\ ~(q = p /\ task = "exec"),
           \A q \in Procs : DurablyCancels(q)' =>
                DurablyCancels(q) /\ ~(q = p /\ task = "cancel")
    PROVE  LeaseHeld'
BY OwnersDiffer DEF LeaseHeld, Owns

(* Nobody is engaged when a run is created. *)
LEMMA InitLease == Init => LeaseHeld
BY DEF Init, LeaseHeld, NoControl, IdleCmd, DurablyCancels

(* Every step keeps the lease with whoever is engaged. *)
LEMMA StepLease == TypeInv /\ LeaseHeld /\ [Next]_vars => LeaseHeld'
<1> SUFFICES ASSUME TypeInv, LeaseHeld, [Next]_vars PROVE LeaseHeld'
    OBVIOUS
<1> DEFINE Kept == UNCHANGED <<lease, control, cmd, stalls>>
<1>1. ASSUME Kept PROVE LeaseHeld'
  BY <1>1, LeaseKept DEF DurablyCancels
<1>12. /\ cmd \in [Procs -> Cmds] /\ control \in [Procs -> Controls]
      /\ lease \in [owner : Owners, live : BOOLEAN] /\ stalls \in Nat
  BY LifecycleAssumption DEF TypeInv, TypeOK
<1>2. ASSUME NEW p \in Procs, Execution(p) PROVE LeaseHeld'
  <2>1. ASSUME Put(p) \/ ReadRun(p) \/ EnterProject(p) \/ Start(p) \/ Begin(p) PROVE Kept
    BY <2>1 DEF Put, ReadRun, EnterProject, Start, Begin, database, bounds
  <2>2. ASSUME Stopped(p) \/ NextItem(p) \/ Attempt(p) \/ Turn(p) \/ ChooseTool(p)
        PROVE Kept
    BY <2>2 DEF Stopped, NextItem, Attempt, Turn, ChooseTool, database, bounds
  <2>3. ASSUME RunTool(p) \/ CompleteItem(p) \/ AttemptFails(p) \/ ItemDone(p)
                 \/ Suspend(p)
        PROVE Kept
    BY <2>3
       DEF RunTool, CompleteItem, AttemptFails, ItemDone, Suspend, database,
           bounds
  <2>4. ASSUME AttemptFailed(p) \/ Decide(p) \/ Verify(p) \/ Commit(p)
        PROVE Kept
    BY <2>4 DEF AttemptFailed, Decide, Verify, Commit, database, bounds
  <2>5. ASSUME RecordCheckpoint(p) \/ Catch(p) \/ Final(p) PROVE Kept
    BY <2>5 DEF RecordCheckpoint, Catch, Final, database, bounds
  <2>6. ASSUME RenewBeforeSave(p) PROVE LeaseHeld'
    BY <2>6, LeaseKept DEF RenewBeforeSave, Touched, DurablyCancels, bounds
  <2>7. ASSUME Recover(p) PROVE LeaseHeld'
    <3>1. CASE lease' = lease
      BY <2>7, <3>1, <1>1 DEF Recover, bounds
    <3>2. CASE InFlight /\ Available /\ lease' = Free
      <4>1. stalls = 0 => \A q \in Procs : ~control[q].present /\ ~DurablyCancels(q)
        BY <3>2, AvailableMeansIdle
      <4> QED BY <2>7, <4>1 DEF Recover, LeaseHeld, DurablyCancels, bounds
    <3> QED BY <2>7, <3>1, <3>2 DEF Recover, RecoverInFlightRuns
  <2>8. ASSUME AcquireLease(p) PROVE LeaseHeld'
    <3>1. CASE ~Available
      BY <2>8, <3>1, <1>1 DEF AcquireLease, bounds
    <3>2. CASE Available
      <4>1. stalls = 0 => \A q \in Procs : ~control[q].present /\ ~DurablyCancels(q)
        BY <3>2, AvailableMeansIdle
      <4>2. \A q \in Procs : q # p => control'[q] = control[q]
        BY <2>8, <3>2, <1>12 DEF AcquireLease
      <4>3. DurablyCancels(p)' = DurablyCancels(p) /\ cmd' = cmd /\ stalls' = stalls
        BY <2>8 DEF AcquireLease, DurablyCancels, bounds
      <4>4. CASE stalls = 0
        BY <2>8, <3>2, <4>1, <4>2, <4>3, <4>4, LeaseTaken
           DEF AcquireLease, DurablyCancels
      <4> QED BY <4>3, <4>4 DEF LeaseHeld
    <3> QED BY <3>1, <3>2
  <2>9. ASSUME Defer(p) PROVE LeaseHeld'
    <3>1. \A q \in Procs : control'[q].present = control[q].present
      BY <2>9, <1>12 DEF Defer, Controls
    <3> QED BY <2>9, <3>1, LeaseKept DEF Defer, DurablyCancels, bounds
  <2>10. ASSUME Exit(p) PROVE LeaseHeld'
    <3>1. \A q \in Procs : control'[q].present => control[q].present /\ q # p
      BY <2>10, <1>12 DEF Exit, Controls, NoControl
    <3>2. \A q \in Procs : DurablyCancels(q)' => DurablyCancels(q)
      BY <2>10, <1>12 DEF Exit, DurablyCancels, Cmds
    <3>3. stalls' = stalls
      BY <2>10 DEF Exit, bounds
    <3>4. CASE Owns(p, "exec")
      BY <3>1, <3>2, <3>3, <3>4, LeaseLeft
    <3>5. CASE ~Owns(p, "exec")
      BY <2>10, <3>1, <3>2, <3>3, <3>5, LeaseKept DEF Exit
    <3> QED BY <3>4, <3>5
  <2> QED BY <1>1, <1>2, <2>1, <2>2, <2>3, <2>4, <2>5, <2>6, <2>7, <2>8, <2>9,
             <2>10
             DEF Execution, EndAttempt
<1>3. ASSUME NEW p \in Procs, UserCommand(p) PROVE LeaseHeld'
  <2>1. ASSUME ReadForSave(p) \/ AwaitExecution(p) \/ CommandPuts(p)
        PROVE LeaseHeld'
    <3>1. \A q \in Procs : q # p => cmd'[q] = cmd[q]
      BY <2>1, <1>12 DEF ReadForSave, AwaitExecution, CommandPuts
    <3>2. cmd'[p].pc \in {"idle", "renew", "cancel"}
      <4>1. CASE ReadForSave(p)
        BY <4>1, <1>12 DEF ReadForSave, Cmds
      <4>2. CASE AwaitExecution(p)
        BY <4>2, <1>12 DEF AwaitExecution, Cmds
      <4>3. CASE CommandPuts(p)
        BY <4>3, <1>12 DEF CommandPuts, IdleCmd
      <4> QED BY <2>1, <4>1, <4>2, <4>3
    <3>3. \A q \in Procs : DurablyCancels(q)' => DurablyCancels(q)
      BY <3>1, <3>2 DEF DurablyCancels
    <3> QED BY <2>1, <3>3, LeaseKept
               DEF ReadForSave, AwaitExecution, CommandPuts, database, bounds
  <2>2. ASSUME EnterProjectToCancel(p) \/ ReadPaused(p) \/ RollBackPaused(p)
                 \/ PutCancelled(p)
        PROVE LeaseHeld'
    <3>1. \A q \in Procs : DurablyCancels(q)' => DurablyCancels(q)
      BY <2>2, <1>12
         DEF EnterProjectToCancel, ReadPaused, RollBackPaused, PutCancelled,
             DurablyCancels, Cmds
    <3> QED BY <2>2, <3>1, LeaseKept
               DEF EnterProjectToCancel, ReadPaused, RollBackPaused,
                   PutCancelled, database, bounds
  <2>3. ASSUME ReadForCancel(p) PROVE LeaseHeld'
    <3>4. \A q \in Procs : q # p => cmd'[q] = cmd[q]
      BY <2>3, <1>12 DEF ReadForCancel
    <3>5. cmd'[p].pc \in {"idle", "dacquire", "renew"}
      <4>1. CASE cmd' = [cmd EXCEPT ![p] = IdleCmd]
        BY <4>1, <1>12 DEF IdleCmd
      <4>2. CASE cmd' = [cmd EXCEPT ![p] = [@ EXCEPT !.pc = "dacquire"]]
        BY <4>2, <1>12 DEF Cmds
      <4>3. CASE cmd' = [cmd EXCEPT ![p] = [@ EXCEPT !.pc = "renew", !.run = row]]
        BY <4>3, <1>12 DEF Cmds
      <4> QED BY <2>3, <4>1, <4>2, <4>3 DEF ReadForCancel
    <3>1. \A q \in Procs : DurablyCancels(q)' => DurablyCancels(q)
      BY <3>4, <3>5 DEF DurablyCancels
    <3>2. \A q \in Procs : control'[q].present = control[q].present
      BY <2>3, <1>12 DEF ReadForCancel, Controls
    <3> QED BY <2>3, <3>1, <3>2, LeaseKept DEF ReadForCancel, database, bounds
  <2>4. ASSUME CommandRenews(p) PROVE LeaseHeld'
    <3>1. \A q \in Procs : DurablyCancels(q)' => DurablyCancels(q)
      BY <2>4, <1>12 DEF CommandRenews, DurablyCancels, Cmds, IdleCmd
    <3> QED BY <2>4, <3>1, LeaseKept DEF CommandRenews, Touched, bounds
  <2>5. ASSUME AcquireCancelLease(p) PROVE LeaseHeld'
    <3>1. CASE ~Available
      <4>1. \A q \in Procs : DurablyCancels(q)' => DurablyCancels(q)
        BY <2>5, <3>1, <1>12
           DEF AcquireCancelLease, DurablyCancels, Cmds, IdleCmd
      <4> QED BY <2>5, <3>1, <4>1, LeaseKept DEF AcquireCancelLease, bounds
    <3>2. CASE Available
      <4>1. stalls = 0 => \A q \in Procs : ~control[q].present /\ ~DurablyCancels(q)
        BY <3>2, AvailableMeansIdle
      <4>2. \A q \in Procs : q # p => (DurablyCancels(q)' => DurablyCancels(q))
        BY <2>5, <3>2, <1>12 DEF AcquireCancelLease, DurablyCancels
      <4>3. control' = control /\ stalls' = stalls
        BY <2>5 DEF AcquireCancelLease, bounds
      <4>4. CASE stalls = 0
        BY <2>5, <3>2, <4>1, <4>2, <4>3, <4>4, LeaseTaken DEF AcquireCancelLease
      <4> QED BY <4>3, <4>4 DEF LeaseHeld
    <3> QED BY <3>1, <3>2
  <2>6. ASSUME ReleaseCancelLease(p) PROVE LeaseHeld'
    <3>1. \A q \in Procs : DurablyCancels(q)' => DurablyCancels(q) /\ q # p
      BY <2>6, <1>12 DEF ReleaseCancelLease, DurablyCancels, Cmds, IdleCmd
    <3>2. control' = control /\ stalls' = stalls
      BY <2>6 DEF ReleaseCancelLease, bounds
    <3>3. CASE Owns(p, "cancel")
      BY <3>1, <3>2, <3>3, LeaseLeft
    <3>4. CASE ~Owns(p, "cancel")
      BY <2>6, <3>1, <3>2, <3>4, LeaseKept DEF ReleaseCancelLease
    <3> QED BY <3>3, <3>4
  <2> QED BY <1>3, <2>1, <2>2, <2>3, <2>4, <2>5, <2>6 DEF UserCommand
<1>4. ASSUME NEW p \in Procs, Heartbeat(p) PROVE LeaseHeld'
  <2>1. \A q \in Procs : control'[q].present = control[q].present
    BY <1>4, <1>12 DEF Heartbeat, Controls
  <2> QED BY <1>4, <2>1, LeaseKept
             DEF Heartbeat, Touched, DurablyCancels, bounds
<1>5. ASSUME NEW p \in Procs, Execute(p) PROVE LeaseHeld'
  BY <1>5, <1>1 DEF Execute, database
<1>6. ASSUME NEW p \in Procs, Pause(p) \/ Resume(p) \/ Cancel(p) PROVE LeaseHeld'
  <2>3. \A q \in Procs : q # p => cmd'[q] = cmd[q]
    BY <1>6, <1>12 DEF Pause, Resume, Cancel, Issue
  <2>4. cmd'[p].pc \in {"read", "await", "cancel"}
    <3>1. ASSUME NEW step, NEW kind, Issue(p, step, kind) PROVE cmd'[p].pc = step
      BY <3>1, <1>12 DEF Issue, IdleCmd
    <3>2. ASSUME Pause(p) \/ Resume(p) PROVE cmd'[p].pc = "read"
      BY <3>1, <3>2 DEF Pause, Resume
    <3>3. ASSUME Cancel(p) PROVE cmd'[p].pc \in {"await", "cancel"}
      BY <3>1, <3>3, <1>12 DEF Cancel, IdleCmd
    <3> QED BY <1>6, <3>2, <3>3
  <2>1. \A q \in Procs : DurablyCancels(q)' => DurablyCancels(q)
    BY <2>3, <2>4 DEF DurablyCancels
  <2>2. \A q \in Procs : control'[q].present = control[q].present
    BY <1>6, <1>12 DEF Pause, Resume, Cancel, Controls
  <2> QED BY <1>6, <2>1, <2>2, LeaseKept DEF Pause, Resume, Cancel, database
<1>7. ASSUME NEW p \in Procs, Startup(p) PROVE LeaseHeld'
  <2>1. CASE lease' = lease
    BY <1>7, <2>1, <1>1 DEF Startup, bounds
  <2>2. CASE InFlight /\ Available /\ lease' = Free
    <3>1. stalls = 0 => \A q \in Procs : ~control[q].present /\ ~DurablyCancels(q)
      BY <2>2, AvailableMeansIdle
    <3> QED BY <1>7, <3>1 DEF Startup, LeaseHeld, DurablyCancels, bounds
  <2> QED BY <1>7, <2>1, <2>2 DEF Startup, RecoverInFlightRuns
<1>8. ASSUME NEW p \in Procs, Crash(p) PROVE LeaseHeld'
  <2>1. \A q \in Procs : control'[q].present => control[q].present /\ q # p
    BY <1>8, <1>12 DEF Crash, Controls, NoControl
  <2>2. \A q \in Procs : DurablyCancels(q)' => DurablyCancels(q) /\ q # p
    BY <1>8, <1>12 DEF Crash, DurablyCancels, Cmds, IdleCmd
  <2>3. stalls' = stalls
    BY <1>8 DEF Crash
  <2>4. CASE Owns(p, "exec")
    BY <2>1, <2>2, <2>3, <2>4, LeaseLeft
  <2>5. CASE Owns(p, "cancel")
    BY <2>1, <2>2, <2>3, <2>5, LeaseLeft
  <2>6. CASE ~Owns(p, "exec") /\ ~Owns(p, "cancel")
    BY <1>8, <2>1, <2>2, <2>3, <2>6, LeaseKept DEF Crash
  <2> QED BY <2>4, <2>5, <2>6
<1>9. ASSUME Answer PROVE LeaseHeld'
  BY <1>9, <1>1 DEF Answer, memory, bounds
<1>10. ASSUME Expire PROVE LeaseHeld'
  <2>1. CASE stalls' = stalls + 1
    BY <2>1, <1>12 DEF LeaseHeld
  <2>2. CASE lease.owner = <<"gone">> /\ stalls' = stalls
    <3>1. stalls = 0 => \A q \in Procs : ~control[q].present /\ ~DurablyCancels(q)
      BY <2>2, OwnersDiffer DEF LeaseHeld, Owns
    <3> QED BY <1>10, <2>2, <3>1 DEF Expire, LeaseHeld, DurablyCancels, memory
  <2> QED BY <1>10, <2>1, <2>2 DEF Expire
<1>11. ASSUME UNCHANGED vars PROVE LeaseHeld'
  BY <1>11, <1>1 DEF vars, database, memory, bounds
<1> QED BY <1>2, <1>3, <1>4, <1>5, <1>6, <1>7, <1>8, <1>9, <1>10, <1>11 DEF Next

(* At any time at most one task of one process is engaged in the run, as   *)
(* long as no lease runs out under a living process.                       *)
THEOREM RunIsExecutedOnce == Spec => []OneExecution
<1>1. TypeInv /\ LeaseHeld => OneExecution
  <2> SUFFICES ASSUME LeaseHeld, stalls = 0 PROVE Cardinality(Engaged) <= 1
      BY DEF OneExecution
  <2>1. Engaged \subseteq {lease.owner}
    BY DEF Engaged, LeaseHeld, Owns
  <2>2. IsFiniteSet({lease.owner}) /\ Cardinality({lease.owner}) = 1
    BY FS_Singleton
  <2> QED BY <2>1, <2>2, FS_Subset
<1> QED BY <1>1, InitType, StepType, InitLease, StepLease, PTL DEF Spec

-----------------------------------------------------------------------------
(* The steps of an execution with a transaction at hand, and those of one   *)
(* that has written "running" to the row and not yet its last state.       *)
TransactionSteps ==
    AttemptSteps \cup {"item", "attempt", "verify", "commit", "catch"}

ActiveSteps == TransactionSteps \cup {"begin", "checkpoint", "final"}

(* The save that precedes "begin" has not written "running" yet. *)
Active(e) ==
    \/ e.pc \in ActiveSteps
    \/ e.pc \in {"renew", "put"} /\ (e.then \in ActiveSteps \ {"begin"} \/ e.raise \in ActiveSteps)

(* Where an execution is that knows of the commit. *)
EndSteps == {"checkpoint", "catch", "final", "exit"}

AtEnd(e) ==
    \/ e.pc \in EndSteps
    \/ e.pc \in {"renew", "put"} /\ e.then \in EndSteps /\ e.raise \in EndSteps

(* Where a save goes on to, and where its exception surfaces; and a        *)
(* checkpoint is recorded after the commit.                                *)
AfterSave == {"begin", "work", "model", "itemDone", "decide", "attempt", "catch", "commit",
              "exit"}

AfterLoss == {"attemptFailed", "catch", "exit"}

OnTrack(e) ==
    /\ e.pc \in {"renew", "put"} => e.then \in AfterSave /\ e.raise \in AfterLoss
    /\ e.pc = "checkpoint" => e.committed

(* The project is as it was before the run. *)
Undone == ~marker /\ effects = {}

(* What an execution knows of the project: nothing but its transaction has *)
(* changed it, what it saves as cancelled is undone, and the row is not    *)
(* shown as cancelled while it works.                                      *)
Accounted(e) ==
    /\ Heads(e, TransactionSteps) /\ ~e.committed => ~marker /\ effects \subseteq e.known
    /\ e.pc = "final" /\ ~e.committed => Undone
    /\ e.run.state = "cancelled" =>
         \/ e.pc = "exit"
         \/ e.pc \in {"renew", "put"} /\ e.then = "exit" /\ e.raise = "exit" /\ Undone
    /\ Active(e) => row.state # "cancelled"

Outside == {"idle", "down", "read", "recover", "reread", "acquire"}

(* The journal tells the effects; who is in the run has a control, and     *)
(* knows of the commit only at its end; and, while no lease ran out under  *)
(* a living process, what a cancellation writes is undone.                 *)
ProjectKnown ==
    /\ journal = effects
    /\ \A p \in Procs : /\ exec[p].pc \notin Outside => control[p].present
                        /\ exec[p].committed => AtEnd(exec[p])
                        /\ OnTrack(exec[p])
    /\ stalls = 0 =>
         /\ \A p \in Procs : Accounted(exec[p])
         /\ \A p \in Procs : cmd[p].pc \in {"drenew", "dput"} => Undone
         /\ row.state = "cancelled" => Undone

-----------------------------------------------------------------------------
(* Who is outside the run knows nothing of the project, and who is engaged *)
(* is alone.                                                               *)
LEMMA AloneInRun ==
    ASSUME TypeInv, LeaseHeld, ProjectKnown, stalls = 0
    PROVE  /\ \A p, q \in Procs : control[p].present /\ q # p => exec[q].pc \in Outside
           /\ \A p, q \in Procs : control[p].present => ~DurablyCancels(q)
           /\ \A p, q \in Procs : DurablyCancels(p) => exec[q].pc \in Outside
           /\ \A p, q \in Procs : DurablyCancels(p) /\ q # p => ~DurablyCancels(q)
<1>1. \A p, q \in Procs : control[p].present /\ q # p => ~control[q].present
  BY OwnersDiffer DEF LeaseHeld, Owns
<1>2. \A p, q \in Procs : control[p].present => ~DurablyCancels(q)
  BY OwnersDiffer DEF LeaseHeld, Owns
<1>3. \A p, q \in Procs : DurablyCancels(p) /\ q # p => ~DurablyCancels(q)
  BY OwnersDiffer DEF LeaseHeld, Owns
<1> QED BY <1>1, <1>2, <1>3 DEF ProjectKnown

(* An execution moves; the project stays, and nobody writes "cancelled". *)
LEMMA MoveProject ==
    ASSUME TypeInv, ProjectKnown, NEW p \in Procs, NEW e, exec' = [exec EXCEPT ![p] = e],
           row' = row \/ row'.state # "cancelled", UNCHANGED <<workspace, stalls>>,
           \A q \in Procs : q # p /\ control[q].present => control'[q].present,
           e.pc \notin Outside => control'[p].present,
           \A q \in Procs : cmd'[q].pc \in {"drenew", "dput"} => cmd[q].pc \in {"drenew", "dput"},
           e.committed => AtEnd(e), OnTrack(e), stalls = 0 => Accounted(e)
    PROVE  ProjectKnown'
<1>1. \A q \in Procs : exec'[q] = IF q = p THEN e ELSE exec[q]
  BY DEF TypeInv, TypeOK
<1>2. journal' = effects' /\ Undone' = Undone
  BY DEF ProjectKnown, Undone, workspace
<1>3. \A q \in Procs : /\ exec'[q].pc \notin Outside => control'[q].present
                       /\ exec'[q].committed => AtEnd(exec'[q])
                       /\ OnTrack(exec'[q])
  BY <1>1 DEF ProjectKnown
<1>4. ASSUME NEW q \in Procs, stalls = 0 PROVE Accounted(exec[q])'
  <2>1. Accounted(exec'[q])
    BY <1>1, <1>4 DEF ProjectKnown
  <2> QED BY <2>1, <1>2 DEF Accounted, workspace
<1> QED BY <1>2, <1>3, <1>4 DEF ProjectKnown

(* An execution goes elsewhere, with what it knows. *)
LEMMA GotoProject ==
    ASSUME TypeInv, ProjectKnown, NEW p \in Procs, NEW step, Goto(p, step),
           UNCHANGED <<row, workspace, stalls, control, cmd>>,
           step \notin {"renew", "put", "checkpoint", "final"},
           step \notin Outside => exec[p].pc \notin Outside,
           exec[p].committed => step \in EndSteps,
           stalls = 0 /\ step \in TransactionSteps => Heads(exec[p], TransactionSteps),
           stalls = 0 /\ exec[p].run.state = "cancelled" => step = "exit",
           stalls = 0 /\ step \in ActiveSteps => row.state # "cancelled"
    PROVE  ProjectKnown'
<1> DEFINE e == [exec[p] EXCEPT !.pc = step]
<1>1. /\ e.pc = step /\ e.committed = exec[p].committed /\ e.run = exec[p].run
      /\ e.known = exec[p].known
  BY DEF TypeInv, TypeOK, Executions
<1>2. exec' = [exec EXCEPT ![p] = e]
  BY DEF Goto
<1> HIDE DEF e
<1>3. e.pc \notin Outside => control'[p].present
  BY <1>1 DEF ProjectKnown
<1>4. e.committed => AtEnd(e)
  BY <1>1 DEF AtEnd
<1>6. OnTrack(e)
  BY <1>1 DEF OnTrack
<1>5. ASSUME stalls = 0 PROVE Accounted(e)
  <2>1. Accounted(exec[p])
    BY <1>5 DEF ProjectKnown
  <2>2. Heads(e, TransactionSteps) => step \in TransactionSteps
    BY <1>1 DEF Heads
  <2>3. Active(e) => row.state # "cancelled"
    BY <1>1, <1>5 DEF Active
  <2> QED BY <1>1, <1>5, <2>1, <2>2, <2>3 DEF Accounted
<1> QED BY <1>2, <1>3, <1>4, <1>5, <1>6, MoveProject

(* An execution saves a row. *)
LEMMA SaveProject ==
    ASSUME TypeInv, ProjectKnown, NEW p \in Procs, NEW run, NEW then \in AfterSave,
           NEW raise \in AfterLoss, Save(p, run, then, raise), exec[p].pc \notin Outside,
           UNCHANGED <<row, workspace, stalls, control, cmd>>,
           exec[p].committed => {then, raise} \subseteq EndSteps,
           stalls = 0 /\ {then, raise} \cap TransactionSteps # {}
             => exec[p].committed \/ Heads(exec[p], TransactionSteps),
           stalls = 0 /\ run.state = "cancelled" => then = "exit" /\ raise = "exit" /\ Undone,
           stalls = 0 /\ (then \in ActiveSteps \ {"begin"} \/ raise \in ActiveSteps)
             => row.state # "cancelled"
    PROVE  ProjectKnown'
<1> DEFINE e == [exec[p] EXCEPT !.run = run, !.pc = "renew", !.then = then, !.raise = raise]
<1>1. /\ e.pc = "renew" /\ e.then = then /\ e.raise = raise
      /\ e.committed = exec[p].committed /\ e.run = run /\ e.known = exec[p].known
  BY DEF TypeInv, TypeOK, Executions
<1>2. exec' = [exec EXCEPT ![p] = e]
  BY DEF Save
<1> HIDE DEF e
<1>3. e.pc \notin Outside => control'[p].present
  BY DEF ProjectKnown
<1>4. e.committed => AtEnd(e)
  BY <1>1 DEF AtEnd
<1>6. OnTrack(e)
  BY <1>1 DEF OnTrack
<1>5. ASSUME stalls = 0 PROVE Accounted(e)
  <2>1. Accounted(exec[p])
    BY <1>5 DEF ProjectKnown
  <2>2. Heads(e, TransactionSteps) => {then, raise} \cap TransactionSteps # {}
    BY <1>1 DEF Heads, TransactionSteps, AttemptSteps
  <2>3. Active(e) => row.state # "cancelled"
    BY <1>1, <1>5 DEF Active, ActiveSteps, TransactionSteps, AttemptSteps
  <2> QED BY <1>1, <1>5, <2>1, <2>2, <2>3 DEF Accounted
<1> QED BY <1>2, <1>3, <1>4, <1>5, <1>6, MoveProject

(* A step that concerns commands, leases or questions only. *)
LEMMA ProjectKept ==
    ASSUME TypeInv, ProjectKnown, UNCHANGED <<workspace, exec, stalls>>,
           row' = row \/ row'.state # "cancelled",
           \A q \in Procs : control[q].present => control'[q].present,
           \A q \in Procs : cmd'[q].pc \in {"drenew", "dput"} => cmd[q].pc \in {"drenew", "dput"}
    PROVE  ProjectKnown'
BY DEF ProjectKnown, Accounted, Undone, workspace

(* The execution that is alone in the run changes row or project. *)
LEMMA ChangeProject ==
    ASSUME TypeInv, LeaseHeld, ProjectKnown, NEW p \in Procs, control[p].present,
           NEW e, exec' = [exec EXCEPT ![p] = e], UNCHANGED <<control, cmd, stalls>>,
           e.committed => AtEnd(e), OnTrack(e), journal' = effects',
           stalls = 0 =>
             /\ Heads(e, TransactionSteps) /\ ~e.committed
                  => ~marker' /\ effects' \subseteq e.known
             /\ e.pc = "final" /\ ~e.committed => ~marker' /\ effects' = {}
             /\ e.run.state = "cancelled" =>
                  \/ e.pc = "exit"
                  \/ /\ e.pc \in {"renew", "put"} /\ e.then = "exit" /\ e.raise = "exit"
                     /\ ~marker' /\ effects' = {}
             /\ Active(e) => row'.state # "cancelled"
             /\ row'.state = "cancelled" => ~marker' /\ effects' = {}
    PROVE  ProjectKnown'
<1>1. \A q \in Procs : exec'[q] = IF q = p THEN e ELSE exec[q]
  BY DEF TypeInv, TypeOK
<1>2. \A q \in Procs : /\ exec'[q].pc \notin Outside => control'[q].present
                       /\ exec'[q].committed => AtEnd(exec'[q])
                       /\ OnTrack(exec'[q])
  BY <1>1 DEF ProjectKnown
<1>3. ASSUME NEW q \in Procs, q # p, stalls = 0 PROVE Accounted(exec[q])'
  <2>1. exec[q].pc \in Outside /\ Accounted(exec[q])
    BY <1>3, AloneInRun DEF ProjectKnown
  <2>2. exec'[q] = exec[q]
    BY <1>1, <1>3
  <2>3. /\ ~Heads(exec[q], TransactionSteps) /\ ~Active(exec[q])
        /\ exec[q].pc # "final" /\ exec[q].run.state # "cancelled"
    BY <2>1 DEF Accounted, Heads, Active, TransactionSteps, AttemptSteps, ActiveSteps, Outside
  <2> QED BY <2>2, <2>3 DEF Accounted, Active, Heads
<1>4. stalls = 0 => Accounted(exec[p])'
  BY <1>1 DEF Accounted, Undone, Active, Heads
<1>5. stalls = 0 => \A q \in Procs : cmd[q].pc \notin {"drenew", "dput"}
  BY AloneInRun DEF DurablyCancels
<1> QED BY <1>2, <1>3, <1>4, <1>5 DEF ProjectKnown, Undone

(* Nothing is known, and nothing has happened, when the run is created. *)
LEMMA InitProject == Init => ProjectKnown
BY DEF Init, ProjectKnown, Accounted, IdleExec, IdleCmd, FreshRow, Heads, Outside, OnTrack,
       TransactionSteps, AttemptSteps, Active, ActiveSteps

(* Every step of an execution keeps what is known of the project. *)
LEMMA ExecutionProject ==
    ASSUME TypeInv, LeaseHeld, ProjectKnown, NEW p \in Procs, Execution(p)
    PROVE  ProjectKnown'
<1> DEFINE e == exec[p]
<1>1. /\ exec \in [Procs -> Executions] /\ e \in Executions /\ control \in [Procs -> Controls]
      /\ row \in Rows /\ e.run \in Rows /\ cmd \in [Procs -> Cmds]
  BY DEF TypeInv, TypeOK, Executions
<1>2. stalls = 0 => Accounted(e)
  BY DEF ProjectKnown
<1>3. /\ journal = effects /\ (e.pc \notin Outside => control[p].present)
      /\ (e.committed => AtEnd(e)) /\ OnTrack(e)
  BY DEF ProjectKnown
<1>4. ASSUME NEW run \in Rows, NEW s \in RunStates
      PROVE  [run EXCEPT !.state = s].state = s
  BY <1>4, RowTypes
<1>5. ASSUME NEW run \in Rows, NEW i, NEW s, NEW n
      PROVE  /\ [run EXCEPT !.item[i] = s].state = run.state
             /\ [run EXCEPT !.item[i] = s, !.attempts[i] = n].state = run.state
  BY DEF Rows
<1>6. {"running", "failed", "succeeded", "paused", "interrupted", "cancelled"} \subseteq RunStates
  BY DEF RunStates
<1>10. CASE RenewBeforeSave(p)
  <2>1. ASSUME NEW step \in {"put", e.raise}, Goto(p, step) PROVE ProjectKnown'
    <3> DEFINE f == [exec[p] EXCEPT !.pc = step]
    <3>1. /\ f.pc = step /\ f.committed = e.committed /\ f.run = e.run /\ f.known = e.known
          /\ f.then = e.then /\ f.raise = e.raise
      BY <1>1 DEF Executions
    <3>2. exec' = [exec EXCEPT ![p] = f] /\ e.pc = "renew"
      BY <1>10, <2>1 DEF Goto, RenewBeforeSave
    <3> HIDE DEF f
    <3>3. f.committed => AtEnd(f)
      BY <1>3, <3>1, <3>2 DEF AtEnd, EndSteps
    <3>4. OnTrack(f)
      BY <1>3, <3>1, <3>2 DEF OnTrack, AfterLoss
    <3>5. stalls = 0 => Accounted(f)
      <4>1. CASE step = "put"
        <5>1. /\ Heads(f, TransactionSteps) = Heads(e, TransactionSteps)
              /\ Active(f) = Active(e)
          BY <3>1, <3>2, <4>1 DEF Heads, Active, TransactionSteps, AttemptSteps, ActiveSteps
        <5> QED BY <1>2, <3>1, <3>2, <4>1, <5>1 DEF Accounted
      <4>2. CASE step = e.raise
        <5>1. step \in {"attemptFailed", "catch", "exit"}
          BY <1>3, <3>2, <4>2 DEF OnTrack, AfterLoss
        <5>2. /\ Heads(f, TransactionSteps) => Heads(e, TransactionSteps)
              /\ Active(f) => Active(e)
          BY <3>1, <3>2, <4>2, <5>1 DEF Heads, Active
        <5> QED BY <1>2, <3>1, <3>2, <4>2, <5>1, <5>2 DEF Accounted
      <4> QED BY <2>1, <4>1, <4>2
    <3> QED BY <1>3, <1>10, <3>1, <3>2, <3>3, <3>4, <3>5, MoveProject
               DEF RenewBeforeSave, bounds, Outside
  <2> QED BY <1>10, <2>1 DEF RenewBeforeSave
<1>11. CASE ReadRun(p)
  <2>1. CASE Goto(p, "recover") \/ Goto(p, "idle")
    BY <1>1, <1>2, <1>3, <1>11, <2>1, GotoProject
       DEF ReadRun, Accounted, AtEnd, EndSteps, Outside, TransactionSteps, AttemptSteps,
           ActiveSteps, database, bounds
  <2> DEFINE f == [exec[p] EXCEPT !.pc = "acquire", !.run = row]
  <2>2. CASE Executable /\ exec' = [exec EXCEPT ![p] = f]
    <3>1. f.pc = "acquire" /\ f.run = row /\ f.committed = e.committed
      BY <1>1 DEF Executions
    <3>2. ~e.committed /\ row.state # "cancelled"
      BY <1>3, <1>11, <2>2 DEF ReadRun, AtEnd, EndSteps, Executable
    <3> HIDE DEF f
    <3>3. Accounted(f) /\ OnTrack(f)
      BY <3>1, <3>2 DEF Accounted, OnTrack, Heads, Active, TransactionSteps, AttemptSteps, ActiveSteps
    <3> QED BY <1>11, <2>2, <3>1, <3>2, <3>3, MoveProject DEF ReadRun, Outside, database, bounds
  <2> QED BY <1>11, <2>1, <2>2 DEF ReadRun
<1>12. CASE AcquireLease(p)
  <2>1. \A q \in Procs : q # p => control'[q] = control[q]
    BY <1>1, <1>12 DEF AcquireLease
  <2>2. e.pc = "acquire" /\ ~e.committed
    BY <1>3, <1>12 DEF AcquireLease, AtEnd, EndSteps
  <2>3. CASE Available
    <3> DEFINE f == [exec[p] EXCEPT !.pc = "waiting"]
    <3>1. f.pc = "waiting" /\ f.run = e.run /\ f.committed = e.committed
      BY <1>1 DEF Executions
    <3>2. exec' = [exec EXCEPT ![p] = f] /\ control'[p].present
      BY <1>1, <1>12, <2>3 DEF AcquireLease, Goto, NoControl
    <3> HIDE DEF f
    <3>3. OnTrack(f) /\ (stalls = 0 => Accounted(f))
      BY <1>2, <2>2, <3>1
         DEF Accounted, OnTrack, Heads, Active, TransactionSteps, AttemptSteps, ActiveSteps
    <3> QED BY <1>12, <2>1, <2>2, <3>1, <3>2, <3>3, MoveProject DEF AcquireLease, bounds
  <2>4. CASE ~Available
    <3>1. /\ IdleExec.pc = "idle" /\ ~IdleExec.committed
          /\ IdleExec.run.state # "cancelled"
      BY DEF IdleExec, FreshRow
    <3>2. OnTrack(IdleExec) /\ Accounted(IdleExec)
      BY <3>1 DEF Accounted, OnTrack, Heads, Active, TransactionSteps, AttemptSteps, ActiveSteps
    <3> QED BY <1>12, <2>4, <3>1, <3>2, MoveProject DEF AcquireLease, Outside, bounds
  <2> QED BY <2>3, <2>4
<1>13. CASE EnterProject(p)
  BY <1>2, <1>3, <1>13, GotoProject
     DEF EnterProject, Accounted, AtEnd, EndSteps, Outside, TransactionSteps, AttemptSteps,
         ActiveSteps, database, bounds
<1>14. CASE Start(p)
  <2>1. /\ e.pc = "start" /\ ~e.committed
        /\ [e.run EXCEPT !.state = "running"].state # "cancelled"
        /\ [e.run EXCEPT !.state = "failed"].state # "cancelled"
        /\ stalls = 0 => e.run.state # "cancelled"
    BY <1>1, <1>2, <1>3, <1>4, <1>6, <1>14 DEF Start, AtEnd, EndSteps, Accounted
  <2>2. CASE Save(p, [e.run EXCEPT !.state = "running"], "begin", "exit")
    BY <1>14, <2>1, <2>2, SaveProject
       DEF Start, Outside, AfterSave, AfterLoss, TransactionSteps, AttemptSteps, ActiveSteps,
           database, bounds
  <2>3. CASE Save(p, [e.run EXCEPT !.state = "failed"], "exit", "exit")
    BY <1>14, <2>1, <2>3, SaveProject
       DEF Start, Outside, AfterSave, AfterLoss, TransactionSteps, AttemptSteps, ActiveSteps,
           database, bounds
  <2>4. CASE Goto(p, "exit")
    BY <1>14, <2>1, <2>4, GotoProject
       DEF Start, Outside, EndSteps, TransactionSteps, AttemptSteps, ActiveSteps, database, bounds
  <2> QED BY <1>14, <2>2, <2>3, <2>4 DEF Start
<1>15. CASE Begin(p)
  <2>1. /\ e.pc = "begin" /\ ~e.committed /\ control[p].present
        /\ stalls = 0 => e.run.state # "cancelled" /\ row.state # "cancelled"
    BY <1>2, <1>3, <1>15 DEF Begin, AtEnd, EndSteps, Accounted, Active, ActiveSteps, Outside
  <2> DEFINE f == [exec[p] EXCEPT !.pc = "item", !.known = journal]
             g == [exec[p] EXCEPT !.run = [exec[p].run EXCEPT !.state = "succeeded"],
                                  !.pc = "renew", !.then = "exit",
                                  !.raise = "catch", !.committed = TRUE]
             h == [exec[p] EXCEPT !.pc = "catch", !.committed = TRUE]
  <2>2. CASE exec' = [exec EXCEPT ![p] = f] /\ ~marker
    <3>1. f.pc = "item" /\ f.known = effects /\ f.run = e.run /\ f.committed = e.committed
      BY <1>1, <1>3 DEF Executions
    <3> HIDE DEF f
    <3>2. OnTrack(f) /\ (stalls = 0 => Accounted(f))
      BY <2>1, <2>2, <3>1 DEF OnTrack, Accounted
    <3> QED BY <1>15, <2>1, <2>2, <3>1, <3>2, MoveProject DEF Begin, database, bounds
  <2>3. CASE exec' = [exec EXCEPT ![p] = g]
    <3>1. /\ g.pc = "renew" /\ g.then = "exit" /\ g.raise = "catch" /\ g.committed
          /\ g.run.state = "succeeded"
      BY <1>1, <1>4, <1>6 DEF Executions
    <3> HIDE DEF g
    <3>2. OnTrack(g) /\ AtEnd(g) /\ (stalls = 0 => Accounted(g))
      BY <2>1, <3>1 DEF OnTrack, AtEnd, EndSteps, Accounted, AfterSave, AfterLoss
    <3> QED BY <1>15, <2>1, <2>3, <3>1, <3>2, MoveProject DEF Begin, database, bounds
  <2>4. CASE exec' = [exec EXCEPT ![p] = h]
    <3>1. h.pc = "catch" /\ h.committed /\ h.run = e.run
      BY <1>1 DEF Executions
    <3> HIDE DEF h
    <3>2. OnTrack(h) /\ AtEnd(h) /\ (stalls = 0 => Accounted(h))
      BY <2>1, <3>1 DEF OnTrack, AtEnd, EndSteps, Accounted
    <3> QED BY <1>15, <2>1, <2>4, <3>1, <3>2, MoveProject DEF Begin, database, bounds
  <2>5. CASE Goto(p, "exit")
    BY <1>15, <2>1, <2>5, GotoProject
       DEF Begin, Outside, EndSteps, TransactionSteps, AttemptSteps, ActiveSteps, database, bounds
  <2> QED BY <1>15, <2>2, <2>3, <2>4, <2>5 DEF Begin
<1>16. ASSUME NEW steps, e.pc \in steps, steps \subseteq TransactionSteps
       PROVE  /\ ~e.committed \/ e.pc = "catch"
              /\ e.pc \notin Outside /\ Heads(e, TransactionSteps)
              /\ stalls = 0 => e.run.state # "cancelled" /\ row.state # "cancelled"
  BY <1>2, <1>3, <1>16
     DEF AtEnd, EndSteps, Accounted, Active, ActiveSteps, TransactionSteps, AttemptSteps, Outside,
         Heads
<1>17. ASSUME NEW step, Goto(p, step), e.pc \in TransactionSteps \ {"catch"},
              step \in TransactionSteps \cup {"exit"}, UNCHANGED <<row, workspace, stalls, control, cmd>>
       PROVE  ProjectKnown'
  BY <1>16, <1>17, GotoProject DEF Outside, EndSteps, ActiveSteps, TransactionSteps, AttemptSteps
<1>18. ASSUME NEW run, NEW then \in AfterSave, NEW raise \in AfterLoss, Save(p, run, then, raise),
              e.pc \in TransactionSteps \ {"catch"}, stalls = 0 => run.state # "cancelled",
              UNCHANGED <<row, workspace, stalls, control, cmd>>
       PROVE  ProjectKnown'
  BY <1>16, <1>18, SaveProject DEF ActiveSteps
<1>19. CASE Stopped(p)
  BY <1>17, <1>19 DEF Stopped, TransactionSteps, AttemptSteps, database, bounds
<1>20. CASE AttemptFails(p)
  BY <1>17, <1>20 DEF AttemptFails, TransactionSteps, AttemptSteps, database, bounds
<1>21. CASE NextItem(p)
  <2>1. e.pc = "item" /\ ~e.committed /\ (stalls = 0 => row.state # "cancelled")
    BY <1>16, <1>21 DEF NextItem, TransactionSteps
  <2> DEFINE f == [exec[p] EXCEPT !.run = row, !.item = e.item + 1]
             g == [exec[p] EXCEPT !.run = row, !.pc = "attempt",
                                  !.attempt = FirstAttempt(row, e.item)]
             blocked == [row EXCEPT !.item[e.item] = "blocked"]
  <2>2. CASE Goto(p, "verify")
    BY <1>17, <1>21, <2>1, <2>2 DEF NextItem, TransactionSteps, database, bounds
  <2>3. CASE exec' = [exec EXCEPT ![p] = f]
    <3>1. f.pc = "item" /\ f.run = row /\ f.committed = e.committed /\ f.known = e.known
      BY <1>1, <2>1 DEF Executions
    <3> HIDE DEF f
    <3>2. OnTrack(f) /\ (stalls = 0 => Accounted(f))
      BY <1>2, <2>1, <3>1 DEF OnTrack, Accounted, Heads, TransactionSteps
    <3> QED BY <1>3, <1>21, <2>1, <2>3, <3>1, <3>2, MoveProject
               DEF NextItem, Outside, database, bounds
  <2>4. CASE exec' = [exec EXCEPT ![p] = g]
    <3>1. g.pc = "attempt" /\ g.run = row /\ g.committed = e.committed /\ g.known = e.known
      BY <1>1, <2>1 DEF Executions
    <3> HIDE DEF g
    <3>2. OnTrack(g) /\ (stalls = 0 => Accounted(g))
      BY <1>2, <2>1, <3>1 DEF OnTrack, Accounted, Heads, TransactionSteps
    <3> QED BY <1>3, <1>21, <2>1, <2>4, <3>1, <3>2, MoveProject
               DEF NextItem, Outside, database, bounds
  <2>5. CASE Save(p, blocked, "catch", "catch")
    <3>1. blocked.state = row.state
      BY <1>1, <1>5
    <3> HIDE DEF blocked
    <3> QED BY <1>18, <1>21, <2>1, <2>5, <3>1
               DEF NextItem, AfterSave, AfterLoss, TransactionSteps, database, bounds
  <2> QED BY <1>21, <2>2, <2>3, <2>4, <2>5 DEF NextItem
<1>22. CASE Attempt(p)
  <2> DEFINE tried == [e.run EXCEPT !.item[e.item] = "running", !.attempts[e.item] = e.attempt]
             failed == [e.run EXCEPT !.item[e.item] = "failed"]
  <2>1. tried.state = e.run.state /\ failed.state = e.run.state
    BY <1>1, <1>5
  <2>2. Save(p, tried, "work", "catch") \/ Save(p, failed, "catch", "catch")
    BY <1>22 DEF Attempt
  <2> HIDE DEF tried, failed
  <2>3. e.pc = "attempt" /\ (stalls = 0 => e.run.state # "cancelled")
    BY <1>16, <1>22 DEF Attempt, TransactionSteps, AttemptSteps
  <2> QED BY <1>18, <1>22, <2>1, <2>2, <2>3
             DEF Attempt, AfterSave, AfterLoss, TransactionSteps, AttemptSteps, database, bounds
<1>23. CASE Turn(p)
  <2>1. e.pc = "work" /\ (stalls = 0 => e.run.state # "cancelled")
    BY <1>16, <1>23 DEF Turn, TransactionSteps, AttemptSteps
  <2> QED BY <1>18, <1>23, <2>1
             DEF Turn, AfterSave, AfterLoss, TransactionSteps, AttemptSteps, database, bounds
<1>24. CASE ChooseTool(p)
  <2> DEFINE f == [exec[p] EXCEPT !.run = row, !.pc = "tool"]
  <2>1. e.pc = "model" /\ ~e.committed /\ (stalls = 0 => row.state # "cancelled")
    BY <1>16, <1>24 DEF ChooseTool, TransactionSteps, AttemptSteps
  <2>2. /\ f.pc = "tool" /\ f.run = row /\ f.committed = e.committed /\ f.known = e.known
        /\ exec' = [exec EXCEPT ![p] = f]
    BY <1>1, <1>24 DEF Executions, ChooseTool
  <2> HIDE DEF f
  <2>3. OnTrack(f) /\ (stalls = 0 => Accounted(f))
    BY <1>2, <2>1, <2>2 DEF OnTrack, Accounted, Heads, TransactionSteps, AttemptSteps
  <2> QED BY <1>3, <1>24, <2>1, <2>2, <2>3, MoveProject DEF ChooseTool, Outside, database, bounds
<1>25. CASE CompleteItem(p)
  <2> DEFINE done == [e.run EXCEPT !.item[e.item] = "succeeded"]
  <2>1. done.state = e.run.state /\ Save(p, done, "itemDone", "attemptFailed")
    BY <1>1, <1>5, <1>25 DEF CompleteItem
  <2> HIDE DEF done
  <2>2. e.pc = "model" /\ (stalls = 0 => e.run.state # "cancelled")
    BY <1>16, <1>25 DEF CompleteItem, TransactionSteps, AttemptSteps
  <2> QED BY <1>18, <1>25, <2>1, <2>2
             DEF CompleteItem, AfterSave, AfterLoss, TransactionSteps, AttemptSteps, database, bounds
<1>26. CASE ItemDone(p)
  <2> DEFINE f == [exec[p] EXCEPT !.item = e.item + 1, !.pc = "item"]
  <2>1. /\ e.pc = "itemDone" /\ ~e.committed
        /\ stalls = 0 => row.state # "cancelled" /\ e.run.state # "cancelled"
    BY <1>16, <1>26 DEF ItemDone, TransactionSteps, AttemptSteps
  <2>2. /\ f.pc = "item" /\ f.run = e.run /\ f.committed = e.committed /\ f.known = e.known
        /\ exec' = [exec EXCEPT ![p] = f]
    BY <1>1, <1>26 DEF Executions, ItemDone
  <2> HIDE DEF f
  <2>3. OnTrack(f) /\ (stalls = 0 => Accounted(f))
    BY <1>2, <2>1, <2>2 DEF OnTrack, Accounted, Heads, TransactionSteps, AttemptSteps
  <2> QED BY <1>3, <1>26, <2>1, <2>2, <2>3, MoveProject DEF ItemDone, Outside, database, bounds
<1>27. CASE Defer(p)
  <2> DEFINE f == [exec[p] EXCEPT !.pc = "suspend"]
  <2>1. /\ e.pc = "model" /\ ~e.committed
        /\ stalls = 0 => row.state # "cancelled" /\ e.run.state # "cancelled"
    BY <1>16, <1>27 DEF Defer, TransactionSteps, AttemptSteps
  <2>2. /\ f.pc = "suspend" /\ f.run = e.run /\ f.committed = e.committed /\ f.known = e.known
        /\ exec' = [exec EXCEPT ![p] = f]
    BY <1>1, <1>27 DEF Executions, Defer, Goto
  <2> HIDE DEF f
  <2>3. OnTrack(f) /\ (stalls = 0 => Accounted(f))
    BY <1>2, <2>1, <2>2 DEF OnTrack, Accounted, Heads, TransactionSteps, AttemptSteps
  <2>4. \A q \in Procs : control'[q].present = control[q].present
    BY <1>1, <1>27 DEF Defer, Controls
  <2> QED BY <1>3, <1>27, <2>1, <2>2, <2>3, <2>4, MoveProject DEF Defer, Outside, bounds
<1>28. CASE Suspend(p)
  <2>1. [row EXCEPT !.state = "paused"].state # "cancelled"
    BY <1>1, <1>4, <1>6
  <2> QED BY <1>18, <1>28, <2>1
             DEF Suspend, AfterSave, AfterLoss, TransactionSteps, AttemptSteps, database, bounds
<1>29. CASE AttemptFailed(p)
  <2>1. e.pc = "attemptFailed" /\ (stalls = 0 => row.state # "cancelled")
    BY <1>16, <1>29 DEF AttemptFailed, TransactionSteps, AttemptSteps
  <2> QED BY <1>18, <1>29, <2>1
             DEF AttemptFailed, AfterSave, AfterLoss, TransactionSteps, AttemptSteps, database, bounds
<1>30. CASE Decide(p)
  <2>1. /\ e.pc = "decide" /\ ~e.committed
        /\ stalls = 0 => row.state # "cancelled" /\ e.run.state # "cancelled"
    BY <1>16, <1>30 DEF Decide, TransactionSteps, AttemptSteps
  <2> DEFINE again == [e.run EXCEPT !.item[e.item] = "queued"]
             failed == [e.run EXCEPT !.item[e.item] = "failed"]
             f == [exec[p] EXCEPT !.run = again, !.attempt = e.attempt + 1, !.pc = "renew",
                                  !.then = "attempt", !.raise = "catch"]
  <2>2. again.state = e.run.state /\ failed.state = e.run.state
    BY <1>1, <1>5
  <2>3. CASE Save(p, failed, "catch", "catch")
    <3> HIDE DEF failed
    <3> QED BY <1>18, <1>30, <2>1, <2>2, <2>3
               DEF Decide, AfterSave, AfterLoss, TransactionSteps, AttemptSteps, database, bounds
  <2>4. CASE exec' = [exec EXCEPT ![p] = f]
    <3>1. /\ f.pc = "renew" /\ f.run = again /\ f.committed = e.committed /\ f.known = e.known
          /\ f.then = "attempt" /\ f.raise = "catch"
      BY <1>1 DEF Executions
    <3> HIDE DEF f, again
    <3>2. OnTrack(f) /\ (stalls = 0 => Accounted(f))
      BY <1>2, <2>1, <2>2, <3>1
         DEF OnTrack, Accounted, Heads, TransactionSteps, AttemptSteps, AfterSave, AfterLoss
    <3> QED BY <1>3, <1>30, <2>1, <2>4, <3>1, <3>2, MoveProject
               DEF Decide, Outside, database, bounds
  <2> QED BY <1>30, <2>3, <2>4 DEF Decide
<1>31. CASE Verify(p)
  <2>1. e.pc = "verify" /\ (stalls = 0 => e.run.state # "cancelled")
    BY <1>16, <1>31 DEF Verify, TransactionSteps
  <2>2. CASE Save(p, e.run, "commit", "catch")
    BY <1>18, <1>31, <2>1, <2>2
       DEF Verify, AfterSave, AfterLoss, TransactionSteps, database, bounds
  <2>3. CASE Goto(p, "commit") \/ Goto(p, "catch")
    BY <1>17, <1>31, <2>1, <2>3 DEF Verify, TransactionSteps, database, bounds
  <2> QED BY <1>31, <2>2, <2>3 DEF Verify
<1>32. CASE Put(p)
  <2> DEFINE f == [exec[p] EXCEPT !.pc = e.then, !.then = "idle", !.raise = "exit"]
  <2>1. /\ f.pc = e.then /\ f.run = e.run /\ f.committed = e.committed /\ f.known = e.known
        /\ exec' = [exec EXCEPT ![p] = f] /\ e.pc = "put" /\ row' = e.run
    BY <1>1, <1>32 DEF Executions, Put
  <2> HIDE DEF f
  <2>2. f.pc \in AfterSave /\ e.pc \notin Outside
    BY <1>3, <2>1 DEF OnTrack, Outside
  <2>3. /\ Heads(f, TransactionSteps) => Heads(e, TransactionSteps)
        /\ OnTrack(f) /\ (f.committed => AtEnd(f))
        /\ Active(f) => f.pc \in ActiveSteps
    BY <1>3, <2>1, <2>2 DEF Heads, OnTrack, AtEnd, Active, AfterSave, EndSteps
  <2>4. stalls = 0 /\ e.run.state = "cancelled" => f.pc = "exit" /\ ~marker /\ effects = {}
    BY <1>2, <2>1 DEF Accounted, Undone
  <2> QED BY <1>2, <1>3, <1>32, <2>1, <2>2, <2>3, <2>4, ChangeProject
             DEF Put, Accounted, AfterSave, ActiveSteps, TransactionSteps, AttemptSteps, workspace,
                 bounds
<1>33. CASE RunTool(p)
  <2>1. PICK new \in SUBSET Items :
             /\ effects' = effects \cup new /\ journal' = journal \cup new
             /\ exec' = [exec EXCEPT ![p] = [@ EXCEPT !.known = e.known \cup new,
                            !.pc = "renew", !.then = "work", !.raise = "attemptFailed"]]
    <3>1. e.pc = "tool" /\ {e.item} \subseteq Items
      BY <1>33 DEF RunTool, TypeInv, ItemAtHand, AtHand, Heads, AttemptSteps
    <3> QED BY <1>33, <3>1 DEF RunTool
  <2> DEFINE f == [exec[p] EXCEPT !.known = e.known \cup new, !.pc = "renew",
                                  !.then = "work", !.raise = "attemptFailed"]
  <2>2. /\ f.pc = "renew" /\ f.then = "work" /\ f.raise = "attemptFailed" /\ f.run = e.run
        /\ f.committed = e.committed /\ f.known = e.known \cup new
        /\ exec' = [exec EXCEPT ![p] = f]
    BY <1>1, <2>1 DEF Executions
  <2> HIDE DEF f
  <2>3. /\ e.pc = "tool" /\ ~e.committed /\ control[p].present
        /\ stalls = 0 => /\ row.state # "cancelled" /\ e.run.state # "cancelled"
                         /\ ~marker /\ effects \subseteq e.known
    BY <1>2, <1>3, <1>16, <1>33 DEF RunTool, TransactionSteps, AttemptSteps, Accounted
  <2>4. OnTrack(f) /\ ~f.committed
    BY <2>2, <2>3 DEF OnTrack, AfterSave, AfterLoss
  <2>5. journal' = effects' /\ UNCHANGED <<row, marker, control, cmd, stalls>>
    BY <1>3, <1>33, <2>1 DEF RunTool, bounds
  <2> QED BY <2>1, <2>2, <2>3, <2>4, <2>5, ChangeProject
<1>34. CASE Commit(p)
  <2> DEFINE f == [exec[p] EXCEPT !.committed = TRUE, !.pc = "checkpoint"]
  <2>1. /\ f.pc = "checkpoint" /\ f.committed /\ f.run = e.run
        /\ exec' = [exec EXCEPT ![p] = f]
    BY <1>1, <1>34 DEF Executions, Commit
  <2> HIDE DEF f
  <2>2. /\ e.pc = "commit" /\ control[p].present
        /\ stalls = 0 => row.state # "cancelled" /\ e.run.state # "cancelled"
    BY <1>3, <1>16, <1>34 DEF Commit, TransactionSteps
  <2>3. OnTrack(f) /\ AtEnd(f)
    BY <2>1 DEF OnTrack, AtEnd, EndSteps
  <2>4. journal' = effects' /\ UNCHANGED <<row, control, cmd, stalls>>
    BY <1>3, <1>34 DEF Commit, database, bounds
  <2> QED BY <2>1, <2>2, <2>3, <2>4, ChangeProject
<1>35. CASE RecordCheckpoint(p)
  <2>1. /\ e.pc = "checkpoint" /\ [e.run EXCEPT !.state = "succeeded"].state # "cancelled"
        /\ stalls = 0 => row.state # "cancelled"
    BY <1>1, <1>2, <1>4, <1>6, <1>35 DEF RecordCheckpoint, Accounted, Active, ActiveSteps
  <2>2. e.committed
    BY <1>3, <2>1 DEF OnTrack
  <2> DEFINE f == [exec[p] EXCEPT !.run = [e.run EXCEPT !.state = "succeeded"],
                                  !.pc = "renew", !.then = "exit", !.raise = "catch"]
  <2>3. /\ f.pc = "renew" /\ f.then = "exit" /\ f.raise = "catch" /\ f.committed
        /\ f.run.state # "cancelled" /\ exec' = [exec EXCEPT ![p] = f]
    BY <1>1, <1>35, <2>1, <2>2 DEF Executions, RecordCheckpoint, Save
  <2> HIDE DEF f
  <2>4. OnTrack(f) /\ AtEnd(f) /\ (stalls = 0 => Accounted(f))
    BY <2>1, <2>3 DEF OnTrack, AtEnd, EndSteps, Accounted, AfterSave, AfterLoss
  <2> QED BY <1>3, <1>35, <2>1, <2>3, <2>4, MoveProject
             DEF RecordCheckpoint, Outside, bounds
<1>36. CASE Catch(p)
  <2> DEFINE f == [exec[p] EXCEPT !.cancelled = control[p].cancelled, !.pc = "final"]
  <2>1. /\ f.pc = "final" /\ f.run = e.run /\ f.committed = e.committed
        /\ exec' = [exec EXCEPT ![p] = f]
    BY <1>1, <1>36 DEF Executions, Catch
  <2> HIDE DEF f
  <2>2. /\ e.pc = "catch" /\ control[p].present
        /\ stalls = 0 => /\ row.state # "cancelled" /\ e.run.state # "cancelled"
                         /\ e.committed \/ (~marker /\ effects \subseteq e.known)
    BY <1>2, <1>3, <1>16, <1>36 DEF Catch, TransactionSteps, Accounted
  <2>3. OnTrack(f) /\ AtEnd(f) /\ ~Heads(f, TransactionSteps)
    BY <2>1 DEF OnTrack, AtEnd, EndSteps, Heads, TransactionSteps, AttemptSteps
  <2>4. journal' = effects' /\ UNCHANGED <<row, marker, control, cmd, stalls>>
    BY <1>3, <1>36 DEF Catch, database, bounds
  <2>5. ~e.committed => effects' = effects \ e.known
    BY <1>36 DEF Catch
  <2> QED BY <2>1, <2>2, <2>3, <2>4, <2>5, ChangeProject
<1>37. CASE Final(p)
  <2>1. PICK state \in {"succeeded", "interrupted", "cancelled", "failed"} :
             /\ Save(p, [row EXCEPT !.state = state], "exit", "exit")
             /\ state = "cancelled" => ~e.committed
    BY <1>37 DEF Final
  <2>2. [row EXCEPT !.state = state].state = state
    BY <1>1, <1>4, <1>6
  <2>3. e.pc = "final" /\ (stalls = 0 /\ ~e.committed => Undone)
    BY <1>2, <1>37 DEF Final, Accounted
  <2> DEFINE run == [row EXCEPT !.state = state]
  <2> HIDE DEF run
  <2>4. Save(p, run, "exit", "exit") /\ run.state = state
    BY <2>1, <2>2 DEF run
  <2> QED BY <1>37, <2>1, <2>3, <2>4, SaveProject
             DEF Final, Outside, EndSteps, AfterSave, AfterLoss, TransactionSteps, AttemptSteps,
                 ActiveSteps, database, bounds
<1>38. CASE Exit(p)
  <2>1. \A q \in Procs : q # p => control'[q] = control[q]
    BY <1>1, <1>38 DEF Exit
  <2>2. \A q \in Procs : cmd'[q].pc = cmd[q].pc
    BY <1>1, <1>38 DEF Exit, Cmds
  <2>3. /\ IdleExec.pc = "idle" /\ ~IdleExec.committed /\ IdleExec.run.state # "cancelled"
        /\ exec' = [exec EXCEPT ![p] = IdleExec]
    BY <1>38 DEF Exit, IdleExec, FreshRow
  <2>4. OnTrack(IdleExec) /\ Accounted(IdleExec)
    BY <2>3 DEF Accounted, OnTrack, Heads, Active, TransactionSteps, AttemptSteps, ActiveSteps
  <2> QED BY <1>38, <2>1, <2>2, <2>3, <2>4, MoveProject DEF Exit, Outside, bounds
<1>39. CASE Recover(p)
  <2> DEFINE f == [exec[p] EXCEPT !.pc = "reread"]
  <2>1. /\ f.pc = "reread" /\ f.run = e.run /\ f.committed = e.committed /\ e.pc = "recover"
        /\ exec' = [exec EXCEPT ![p] = f]
    BY <1>1, <1>39 DEF Executions, Recover, Goto
  <2> HIDE DEF f
  <2>2. ~f.committed /\ (stalls = 0 => f.run.state # "cancelled")
    BY <1>2, <1>3, <2>1 DEF AtEnd, EndSteps, Accounted
  <2>3. OnTrack(f) /\ (stalls = 0 => Accounted(f))
    BY <2>1, <2>2 DEF Accounted, OnTrack, Heads, Active, TransactionSteps, AttemptSteps, ActiveSteps
  <2>4. Recovered.state # "cancelled"
    BY <1>1, <1>4, <1>6 DEF Recovered
  <2>5. row' = row \/ row'.state # "cancelled"
    BY <1>39, <2>4 DEF Recover, RecoverInFlightRuns
  <2> QED BY <1>39, <2>1, <2>2, <2>3, <2>5, MoveProject DEF Recover, Outside, bounds
<1> QED BY <1>10, <1>11, <1>12, <1>13, <1>14, <1>15, <1>19, <1>20, <1>21, <1>22, <1>23, <1>24,
           <1>25, <1>26, <1>27, <1>28, <1>29, <1>30, <1>31, <1>32, <1>33, <1>34, <1>35, <1>36,
           <1>37, <1>38, <1>39 DEF Execution, EndAttempt

(* Every step of a command keeps what is known of the project: a cancel    *)
(* that undoes it holds the lease, so no execution works on it meanwhile.  *)
LEMMA CommandProject ==
    ASSUME TypeInv, LeaseHeld, ProjectKnown, NEW p \in Procs, UserCommand(p)
    PROVE  ProjectKnown'
<1>1. /\ cmd \in [Procs -> Cmds] /\ control \in [Procs -> Controls] /\ row \in Rows
      /\ exec \in [Procs -> Executions]
  BY DEF TypeInv, TypeOK
<1>2. journal = effects
  BY DEF ProjectKnown
<1>4. CASE ReadForSave(p) \/ AwaitExecution(p)
  <2>1. \A q \in Procs : cmd'[q].pc \in {"drenew", "dput"} => cmd[q].pc \in {"drenew", "dput"}
    BY <1>1, <1>4 DEF ReadForSave, AwaitExecution, Cmds
  <2> QED BY <1>4, <2>1, ProjectKept DEF ReadForSave, AwaitExecution, database, bounds
<1>5. CASE ReadForCancel(p)
  <2>1. \A q \in Procs : cmd'[q].pc \in {"drenew", "dput"} => cmd[q].pc \in {"drenew", "dput"}
    <3>1. CASE cmd' = [cmd EXCEPT ![p] = IdleCmd]
      BY <1>1, <3>1 DEF IdleCmd
    <3>2. CASE cmd' = [cmd EXCEPT ![p] = [@ EXCEPT !.pc = "dacquire"]]
      BY <1>1, <3>2 DEF Cmds
    <3>3. CASE cmd' = [cmd EXCEPT ![p] = [@ EXCEPT !.pc = "renew", !.run = row]]
      BY <1>1, <3>3 DEF Cmds
    <3> QED BY <1>5, <3>1, <3>2, <3>3 DEF ReadForCancel
  <2>2. \A q \in Procs : control'[q].present = control[q].present
    BY <1>1, <1>5 DEF ReadForCancel, Controls
  <2>3. UNCHANGED <<workspace, exec, stalls>> /\ row' = row
    BY <1>5 DEF ReadForCancel, database, bounds
  <2> QED BY <2>1, <2>2, <2>3, ProjectKept
<1>6. CASE CommandRenews(p)
  <2>1. \A q \in Procs : cmd'[q].pc \in {"drenew", "dput"} => cmd[q].pc \in {"drenew", "dput"}
    <3>1. CASE cmd' = [cmd EXCEPT ![p] = [@ EXCEPT !.pc = IF cmd[p].pc = "renew" THEN "put" ELSE "dput"]]
      <4>1. cmd[p].pc \in {"renew", "drenew"}
        BY <1>6 DEF CommandRenews
      <4>. QED BY <1>1, <3>1, <4>1 DEF Cmds
    <3>2. CASE cmd' = [cmd EXCEPT ![p] = IdleCmd]
      BY <1>1, <3>2 DEF IdleCmd
    <3>3. CASE cmd' = [cmd EXCEPT ![p] = [@ EXCEPT !.pc = "drelease"]]
      BY <1>1, <3>3 DEF Cmds
    <3> QED BY <1>6, <3>1, <3>2, <3>3 DEF CommandRenews
  <2>2. UNCHANGED <<workspace, exec, stalls, control>> /\ row' = row
    BY <1>6 DEF CommandRenews, bounds
  <2> QED BY <2>1, <2>2, ProjectKept
<1>7. CASE CommandPuts(p)
  <2>1. \A q \in Procs : cmd'[q].pc \in {"drenew", "dput"} => cmd[q].pc \in {"drenew", "dput"}
    BY <1>1, <1>7 DEF CommandPuts, IdleCmd
  <2>2. cmd[p].run \in Rows /\ cmd[p].kind \in {"none", "paused", "running", "cancelling"}
    BY <1>1 DEF Cmds
  <2>3. row'.state = cmd[p].kind
    BY <1>7, <2>2 DEF CommandPuts, Rows
  <2> QED BY <1>7, <2>1, <2>2, <2>3, ProjectKept DEF CommandPuts, bounds
<1>8. CASE AcquireCancelLease(p)
  <2>1. \A q \in Procs : cmd'[q].pc \in {"drenew", "dput"} => cmd[q].pc \in {"drenew", "dput"}
    BY <1>1, <1>8 DEF AcquireCancelLease, Cmds, IdleCmd
  <2> QED BY <1>8, <2>1, ProjectKept DEF AcquireCancelLease, bounds
<1>9. CASE EnterProjectToCancel(p) \/ ReadPaused(p)
  <2>1. \A q \in Procs : cmd'[q].pc \in {"drenew", "dput"} => cmd[q].pc \in {"drenew", "dput"}
    BY <1>1, <1>9 DEF EnterProjectToCancel, ReadPaused, Cmds
  <2> QED BY <1>9, <2>1, ProjectKept DEF EnterProjectToCancel, ReadPaused, database, bounds
<1>10. CASE ReleaseCancelLease(p)
  <2>1. \A q \in Procs : cmd'[q].pc \in {"drenew", "dput"} => cmd[q].pc \in {"drenew", "dput"}
    BY <1>1, <1>10 DEF ReleaseCancelLease, IdleCmd
  <2> QED BY <1>10, <2>1, ProjectKept DEF ReleaseCancelLease, bounds
<1>11. ASSUME stalls = 0, DurablyCancels(p), NEW q \in Procs
       PROVE  /\ ~Heads(exec[q], TransactionSteps) /\ ~Active(exec[q])
              /\ exec[q].pc # "final" /\ exec[q].run.state # "cancelled"
              /\ q # p => cmd[q].pc \notin {"drenew", "dput"}
  <2>1. exec[q].pc \in Outside /\ Accounted(exec[q])
    BY <1>11, AloneInRun DEF ProjectKnown
  <2>2. q # p => cmd[q].pc \notin {"drenew", "dput"}
    BY <1>11, AloneInRun DEF DurablyCancels
  <2> QED BY <2>1, <2>2
             DEF Accounted, Heads, Active, TransactionSteps, AttemptSteps, ActiveSteps, Outside
<1>12. ASSUME UNCHANGED <<exec, control, marker, stalls>>, journal' = effects',
              DurablyCancels(p), stalls = 0 => ~marker /\ effects' = {},
              \A q \in Procs : q # p => cmd'[q] = cmd[q]
       PROVE  ProjectKnown'
  <2>1. ASSUME stalls = 0, NEW q \in Procs PROVE Accounted(exec[q])'
    BY <1>11, <1>12, <2>1 DEF Accounted, Active, Heads
  <2>2. stalls = 0 => Undone'
    BY <1>12 DEF Undone
  <2> QED BY <1>12, <2>1, <2>2 DEF ProjectKnown
<1>13. CASE RollBackPaused(p)
  <2>1. CASE marker
    <3>1. \A q \in Procs : cmd'[q].pc \in {"drenew", "dput"} => cmd[q].pc \in {"drenew", "dput"}
      BY <1>1, <1>13, <2>1 DEF RollBackPaused, Cmds
    <3> QED BY <1>13, <2>1, <3>1, ProjectKept DEF RollBackPaused, database, bounds, workspace
  <2>2. CASE ~marker
    <3>1. effects' = {} /\ journal' = {} /\ DurablyCancels(p)
      BY <1>2, <1>13, <2>2 DEF RollBackPaused, DurablyCancels
    <3>2. \A q \in Procs : q # p => cmd'[q] = cmd[q]
      BY <1>1, <1>13, <2>2 DEF RollBackPaused
    <3> QED BY <1>12, <1>13, <2>2, <3>1, <3>2 DEF RollBackPaused, bounds
  <2> QED BY <2>1, <2>2
<1>14. CASE PutCancelled(p)
  <2>1. DurablyCancels(p) /\ (stalls = 0 => Undone)
    BY <1>14 DEF PutCancelled, DurablyCancels, ProjectKnown
  <2>2. \A q \in Procs : q # p => cmd'[q] = cmd[q]
    BY <1>1, <1>14 DEF PutCancelled
  <2> QED BY <1>2, <1>12, <1>14, <2>1, <2>2 DEF PutCancelled, Undone, workspace, bounds
<1> QED BY <1>4, <1>5, <1>6, <1>7, <1>8, <1>9, <1>10, <1>13, <1>14 DEF UserCommand

(* Every step keeps what is known of the project. *)
LEMMA StepProject == TypeInv /\ LeaseHeld /\ ProjectKnown /\ [Next]_vars => ProjectKnown'
<1> SUFFICES ASSUME TypeInv, LeaseHeld, ProjectKnown, [Next]_vars PROVE ProjectKnown'
    OBVIOUS
<1>1. /\ cmd \in [Procs -> Cmds] /\ control \in [Procs -> Controls] /\ row \in Rows
      /\ exec \in [Procs -> Executions] /\ stalls \in Nat
  BY LifecycleAssumption DEF TypeInv, TypeOK
<1>2. ASSUME NEW p \in Procs, Execution(p) \/ UserCommand(p) PROVE ProjectKnown'
  BY <1>2, ExecutionProject, CommandProject
<1>3. ASSUME NEW p \in Procs, Heartbeat(p) PROVE ProjectKnown'
  <2>1. \A q \in Procs : control'[q].present = control[q].present
    BY <1>1, <1>3 DEF Heartbeat, Controls
  <2> QED BY <1>3, <2>1, ProjectKept DEF Heartbeat, bounds
<1>4. ASSUME NEW p \in Procs, Pause(p) \/ Resume(p) \/ Cancel(p) PROVE ProjectKnown'
  <2>1. \A q \in Procs : control'[q].present = control[q].present
    BY <1>1, <1>4 DEF Pause, Resume, Cancel, Controls
  <2>2. cmd'[p].pc \in {"read", "await", "cancel"} /\ \A q \in Procs : q # p => cmd'[q] = cmd[q]
    <3>1. ASSUME NEW step, NEW kind, Issue(p, step, kind)
          PROVE  cmd'[p].pc = step /\ \A q \in Procs : q # p => cmd'[q] = cmd[q]
      BY <1>1, <3>1 DEF Issue, IdleCmd
    <3>2. CASE Pause(p) \/ Resume(p)
      BY <3>1, <3>2 DEF Pause, Resume
    <3>3. CASE Cancel(p)
      BY <1>1, <3>1, <3>3 DEF Cancel, IdleCmd
    <3> QED BY <1>4, <3>2, <3>3
  <2>3. \A q \in Procs : cmd'[q].pc \in {"drenew", "dput"} => cmd[q].pc \in {"drenew", "dput"}
    BY <2>2
  <2> QED BY <1>4, <2>1, <2>3, ProjectKept DEF Pause, Resume, Cancel, database
<1>5. ASSUME NEW p \in Procs, NEW step \in {"read", "idle"}, Goto(p, step),
             exec[p].pc \in {"idle", "down"}, UNCHANGED <<workspace, control, cmd, stalls>>,
             row' = row \/ row'.state # "cancelled"
      PROVE  ProjectKnown'
  <2> DEFINE f == [exec[p] EXCEPT !.pc = step]
  <2>1. /\ f.pc = step /\ f.run = exec[p].run /\ f.committed = exec[p].committed
        /\ exec' = [exec EXCEPT ![p] = f]
    BY <1>1, <1>5 DEF Executions, Goto
  <2> HIDE DEF f
  <2>2. ~f.committed /\ (stalls = 0 => f.run.state # "cancelled")
    BY <1>5, <2>1 DEF ProjectKnown, AtEnd, EndSteps, Accounted
  <2>3. OnTrack(f) /\ (stalls = 0 => Accounted(f))
    BY <2>1, <2>2 DEF Accounted, OnTrack, Heads, Active, TransactionSteps, AttemptSteps, ActiveSteps
  <2> QED BY <1>5, <2>1, <2>2, <2>3, MoveProject DEF Outside
<1>6. ASSUME NEW p \in Procs, Execute(p) PROVE ProjectKnown'
  BY <1>5, <1>6 DEF Execute, database
<1>7. ASSUME NEW p \in Procs, Startup(p) PROVE ProjectKnown'
  <2>1. Recovered.state # "cancelled"
    BY <1>1, RowTypes DEF Recovered, RunStates
  <2> QED BY <1>5, <1>7, <2>1 DEF Startup, RecoverInFlightRuns, bounds
<1>8. ASSUME NEW p \in Procs, Crash(p) PROVE ProjectKnown'
  <2> DEFINE f == [IdleExec EXCEPT !.pc = "down"]
  <2>1. /\ f.pc = "down" /\ ~f.committed /\ f.run.state # "cancelled"
        /\ exec' = [exec EXCEPT ![p] = f]
    BY <1>8 DEF Crash, IdleExec, FreshRow
  <2> HIDE DEF f
  <2>2. OnTrack(f) /\ Accounted(f)
    BY <2>1 DEF Accounted, OnTrack, Heads, Active, TransactionSteps, AttemptSteps, ActiveSteps
  <2>3. \A q \in Procs : cmd'[q].pc \in {"drenew", "dput"} => cmd[q].pc \in {"drenew", "dput"}
    BY <1>1, <1>8 DEF Crash, IdleCmd
  <2>4. \A q \in Procs : q # p => control'[q] = control[q]
    BY <1>1, <1>8 DEF Crash
  <2> QED BY <1>8, <2>1, <2>2, <2>3, <2>4, MoveProject DEF Crash, Outside
<1>9. ASSUME Answer PROVE ProjectKnown'
  BY <1>9, ProjectKept DEF Answer, memory, bounds
<1>10. ASSUME Expire PROVE ProjectKnown'
  <2>1. CASE stalls' = stalls
    BY <1>10, <2>1, ProjectKept DEF Expire, memory
  <2>2. CASE stalls' = stalls + 1
    BY <1>1, <1>10, <2>2 DEF Expire, ProjectKnown, memory, workspace
  <2> QED BY <1>10, <2>1, <2>2 DEF Expire
<1>11. ASSUME UNCHANGED vars PROVE ProjectKnown'
  BY <1>11, ProjectKept DEF vars, database, memory, bounds
<1> QED BY <1>2, <1>3, <1>4, <1>6, <1>7, <1>8, <1>9, <1>10, <1>11 DEF Next

(* A run that is shown as cancelled has no committed workspace and left no *)
(* change in the project, as long as no lease runs out under a living      *)
(* process: the execution's catch or the durable cancellation undid it     *)
(* all, and nobody worked on the project since.                            *)
THEOREM CancelledRunIsUndone == Spec => []CancelledIsUndone
<1>1. ProjectKnown => CancelledIsUndone
  BY DEF ProjectKnown, CancelledIsUndone, Undone
<1> QED BY <1>1, InitType, StepType, InitLease, StepLease, InitProject, StepProject, PTL DEF Spec

(* A step takes nothing out of a committed workspace and adds nothing. *)
LEMMA StepCommitted ==
    ASSUME TypeInv, LeaseHeld, ProjectKnown, [Next]_vars, stalls = 0, marker
    PROVE  marker' /\ effects' = effects
<1> DEFINE Kept == marker' = marker /\ effects' = effects
<1>1. ASSUME NEW p \in Procs, Execution(p) PROVE marker' /\ effects' = effects
  <2>1. CASE RunTool(p)
    <3>1. exec[p].pc = "tool"
      BY <2>1 DEF RunTool
    <3>2. ~exec[p].committed /\ Heads(exec[p], TransactionSteps)
      BY <3>1 DEF ProjectKnown, AtEnd, EndSteps, Heads, TransactionSteps, AttemptSteps
    <3> QED BY <3>2 DEF ProjectKnown, Accounted
  <2>2. CASE Catch(p)
    <3>1. exec[p].committed
      BY <2>2 DEF Catch, ProjectKnown, Accounted, Heads, TransactionSteps
    <3> QED BY <2>2, <3>1 DEF Catch
  <2>3. CASE Commit(p)
    BY <2>3 DEF Commit
  <2>4. ASSUME \/ RenewBeforeSave(p) \/ Put(p) \/ ReadRun(p) \/ Recover(p) \/ AcquireLease(p)
               \/ EnterProject(p) \/ Start(p) \/ Begin(p) \/ Stopped(p) \/ NextItem(p)
        PROVE  Kept
    BY <2>4
       DEF RenewBeforeSave, Put, ReadRun, Recover, AcquireLease, EnterProject, Start, Begin,
           Stopped, NextItem, workspace
  <2>5. ASSUME \/ Attempt(p) \/ Turn(p) \/ ChooseTool(p) \/ EndAttempt(p) \/ ItemDone(p)
               \/ Suspend(p) \/ AttemptFailed(p) \/ Decide(p) \/ Verify(p)
               \/ RecordCheckpoint(p) \/ Final(p) \/ Exit(p)
        PROVE  Kept
    BY <2>5
       DEF Attempt, Turn, ChooseTool, EndAttempt, CompleteItem, Defer, AttemptFails, ItemDone,
           Suspend, AttemptFailed, Decide, Verify, RecordCheckpoint, Final, Exit, workspace
  <2> QED BY <1>1, <2>1, <2>2, <2>3, <2>4, <2>5 DEF Execution
<1>2. ASSUME NEW p \in Procs, UserCommand(p) PROVE Kept
  BY <1>2
     DEF UserCommand, ReadForSave, AwaitExecution, ReadForCancel, CommandRenews, CommandPuts,
         AcquireCancelLease, EnterProjectToCancel, ReadPaused, RollBackPaused, PutCancelled,
         ReleaseCancelLease, workspace
<1>3. ASSUME NEW p \in Procs,
             \/ Heartbeat(p) \/ Execute(p) \/ Pause(p) \/ Resume(p) \/ Cancel(p)
             \/ Startup(p) \/ Crash(p)
      PROVE  Kept
  BY <1>3 DEF Heartbeat, Execute, Pause, Resume, Cancel, Startup, Crash, workspace
<1>4. ASSUME Answer \/ Expire \/ UNCHANGED vars PROVE Kept
  BY <1>4 DEF Answer, Expire, vars, workspace
<1> QED BY <1>1, <1>2, <1>3, <1>4 DEF Next

(* What a committed run did to the project stays: no later execution,      *)
(* cancellation or recovery takes it back, as long as no lease runs out    *)
(* under a living process.                                                 *)
THEOREM CommitIsKept == Spec => CommittedKeepsEffects
<1>1. TypeInv /\ LeaseHeld /\ ProjectKnown /\ [Next]_vars
        => [stalls = 0 /\ marker => marker' /\ effects' = effects]_vars
  BY StepCommitted
<1> QED BY <1>1, InitType, StepType, InitLease, StepLease, InitProject, StepProject, PTL
           DEF Spec, CommittedKeepsEffects

=============================================================================
