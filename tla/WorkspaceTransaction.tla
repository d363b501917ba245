------------------------- MODULE WorkspaceTransaction -------------------------
(***************************************************************************)
(* The journaled workspace transaction of one run (WorkspaceTransaction of *)
(* lib/product/workspace_tools.dart): every file mutation is written to    *)
(* journal.jsonl as prepared, applied to the project, and written again as *)
(* applied; commit and rollback walk over the applied records; begin       *)
(* reconciles what a crash left prepared.                                  *)
(*                                                                         *)
(* One action is one durable step. The process may crash between any two   *)
(* of them, and a step may throw (disk full, file in use, database busy).  *)
(* A mutation has three statuses that are written one after the other:     *)
(* the in-memory _latest, the journal, and the compensation_records table. *)
(*                                                                         *)
(* A call whose expectedExists or expectedHash is stale, a write of the    *)
(* bytes already there and a delete of a missing file change nothing.      *)
(***************************************************************************)
EXTENDS Integers, FiniteSets, FiniteSetsExt

CONSTANTS
    Paths,          \* project files
    Contents,       \* what a file can hold
    Missing,        \* the file does not exist
    MaxMutations,   \* bound on the mutation records of the run
    Platforms,      \* the values of Platform.isWindows to consider
    MaxCrashes,     \* bound on process crashes
    MaxFaults       \* bound on steps that throw

ASSUME TransactionAssumption ==
    /\ Missing \notin Contents /\ "none" \notin Paths
    /\ MaxMutations \in Nat /\ MaxCrashes \in Nat /\ MaxFaults \in Nat
    /\ Platforms \subseteq BOOLEAN

VARIABLES
    file,        \* the project files
    original,    \* history: the files before the run's first mutation
    mutation,    \* MutationRecord: path, before and after, by id
    journal,     \* journal.jsonl: the last status written for each id
    table,       \* compensation_records: the status of each id
    marker,      \* the marker files COMMITTED and ROLLED_BACK
    corrupt,     \* the last journal line was torn by a crash
    latest,      \* in memory, _latest: status by id
    records,     \* in memory, _records: the applied and committed ids
    todo,        \* the ids a commit or rollback loop still has to visit
    at,          \* what the process is doing
    undoing,     \* history: a rollback has started
    crashes, faults,
    windows      \* Platform.isWindows: replacing is delete, then rename

durable == <<file, original, mutation, journal, table, marker, corrupt>>
vars == <<durable, latest, records, todo, at, undoing, crashes, faults, windows>>

-----------------------------------------------------------------------------
Ids == 1 .. MaxMutations

States == Contents \cup {Missing}

Status == {"none", "prepared", "applied", "committed", "rolled_back",
           "rollback_failed", "abandoned"}

Mutations == [path : Paths, before : States, after : States]

(* Where the process is: no transaction object ("closed"), idle between    *)
(* tool calls ("open"), about to touch the project ("effect"), about to    *)
(* write a status ("journal", then "table"), in a loop over records        *)
(* ("begin", "commit", "rollback"), restoring a file ("restore"), with a   *)
(* failed commit that must be rolled back ("failed"), rolled back with the *)
(* run's final state not yet saved ("undone"), or with it saved ("ended"). *)
Steps == {"closed", "open", "effect", "journal", "table", "begin", "commit",
          "rollback", "restore", "failed", "undone", "ended"}

(* step, the record at hand, the status being written, and where _setStatus *)
(* returns to.                                                             *)
At(step, id, status, return) ==
    [step |-> step, id |-> id, status |-> status, return |-> return]

Idle(step) == At(step, 0, "none", "none")

Used == {i \in Ids : mutation[i].path \in Paths}

NextId == Cardinality(Used) + 1

(* _rebuildAppliedRecords *)
AppliedIds(status) == {i \in Ids : status[i] \in {"applied", "committed"}}

Committed == "COMMITTED" \in marker

-----------------------------------------------------------------------------
(* _setStatus: memory first, then the journal, then the table, then        *)
(* _records. SetStatus is the memory step, taken with the caller's own.    *)

SetStatus(i, status, return) ==
    /\ latest' = [latest EXCEPT ![i] = status]
    /\ at' = At("journal", i, status, return)

(* Mutant: the journal line carries the wrong field. *)
WriteJournal_Return ==
    /\ at.step = "journal"
    /\ journal' = [journal EXCEPT ![at.id] = at.return]
    /\ at' = [at EXCEPT !.step = "table"]
    /\ UNCHANGED <<file, original, mutation, table, marker, corrupt, latest,
                   records, todo, undoing, crashes, faults>>

WriteJournal ==
    /\ at.step = "journal"
    /\ journal' = [journal EXCEPT ![at.id] = at.status]
    /\ at' = [at EXCEPT !.step = "table"]
    /\ UNCHANGED <<file, original, mutation, table, marker, corrupt, latest,
                   records, todo, undoing, crashes, faults>>

WriteTable ==
    /\ at.step = "table"
    /\ table' = [table EXCEPT ![at.id] = at.status]
    /\ records' = AppliedIds(latest)
    /\ at' = IF at.return = "effect" THEN At("effect", at.id, "none", "none")
                                     ELSE Idle(at.return)
    /\ UNCHANGED <<file, original, mutation, journal, marker, corrupt, latest,
                   todo, undoing, crashes, faults>>

-----------------------------------------------------------------------------
(* begin: the records are reloaded from the journal, and those a crash     *)
(* left prepared are compared with the project, unless a marker is there.  *)

BeginTransaction ==
    /\ at.step = "closed"
    /\ ~corrupt
    /\ latest' = journal
    /\ records' = {}
    /\ at' = Idle("begin")
    /\ UNCHANGED <<durable, todo, undoing, crashes, faults>>

(* Mutant: only whether the file exists is compared. *)
EffectApplied_Existence(i) ==
    (file[mutation[i].path] = Missing) = (mutation[i].after = Missing)

EffectApplied(i) == file[mutation[i].path] = mutation[i].after

StateUnchanged(i) == file[mutation[i].path] = mutation[i].before

Unresolved == {i \in Ids : latest[i] = "prepared"}

Reconciles == marker = {}

(* _recoverPrepared, in journal order; the third case throws               *)
(* transaction_recovery_required.                                          *)
RecoverPrepared ==
    /\ at.step = "begin" /\ Reconciles /\ Unresolved # {}
    /\ LET i == Min(Unresolved) IN
        \/ EffectApplied(i) /\ SetStatus(i, "applied", "begin")
        \/ /\ ~EffectApplied(i) /\ StateUnchanged(i)
           /\ SetStatus(i, "abandoned", "begin")
        \/ /\ ~EffectApplied(i) /\ ~StateUnchanged(i)
           /\ at' = Idle("closed") /\ UNCHANGED latest
    /\ UNCHANGED <<durable, records, todo, undoing, crashes, faults>>

(* Mutant: begin does not look at the COMMITTED marker. *)
Opened_MarkerUnread ==
    /\ at.step = "begin"
    /\ Reconciles => Unresolved = {}
    /\ records' = AppliedIds(latest)
    /\ at' = Idle("open")
    /\ UNCHANGED <<durable, latest, todo, undoing, crashes, faults>>

(* A committed transaction is only looked at by its caller and dropped. *)
Opened ==
    /\ at.step = "begin"
    /\ Reconciles => Unresolved = {}
    /\ records' = AppliedIds(latest)
    /\ at' = Idle(IF Committed THEN "closed" ELSE "open")
    /\ UNCHANGED <<durable, latest, todo, undoing, crashes, faults>>

-----------------------------------------------------------------------------
(* writeBytes and delete: the backup of the bytes read is the before field. *)

(* Mutant: the effect comes first, the journal after it. *)
Prepare_Unjournaled(p, c) ==
    /\ at.step = "open"
    /\ NextId \in Ids
    /\ c # file[p]
    /\ mutation' = [mutation EXCEPT ![NextId] =
                      [path |-> p, before |-> file[p], after |-> c]]
    /\ latest' = [latest EXCEPT ![NextId] = "prepared"]
    /\ at' = At("effect", NextId, "none", "none")
    /\ UNCHANGED <<file, original, journal, table, marker, corrupt, records,
                   todo, undoing, crashes, faults>>

Prepare(p, c) ==
    /\ at.step = "open"
    /\ NextId \in Ids
    /\ c # file[p]
    /\ mutation' = [mutation EXCEPT ![NextId] =
                      [path |-> p, before |-> file[p], after |-> c]]
    /\ SetStatus(NextId, "prepared", "effect")
    /\ UNCHANGED <<file, original, journal, table, marker, corrupt, records,
                   todo, undoing, crashes, faults>>

NeedsDelete(p, c) == windows /\ file[p] # Missing /\ c # Missing

(* On Windows the old file is deleted before the new one is renamed. *)
DeleteBeforeRename ==
    /\ at.step = "effect"
    /\ NeedsDelete(mutation[at.id].path, mutation[at.id].after)
    /\ file' = [file EXCEPT ![mutation[at.id].path] = Missing]
    /\ UNCHANGED <<original, mutation, journal, table, marker, corrupt, latest,
                   records, todo, at, undoing, crashes, faults>>

Apply ==
    /\ at.step = "effect"
    /\ ~NeedsDelete(mutation[at.id].path, mutation[at.id].after)
    /\ file' = [file EXCEPT ![mutation[at.id].path] = mutation[at.id].after]
    /\ SetStatus(at.id, "applied", "open")
    /\ UNCHANGED <<original, mutation, journal, table, marker, corrupt, records,
                   todo, undoing, crashes, faults>>

-----------------------------------------------------------------------------
(* The run pauses for the user and drops the transaction object as it is.  *)
Suspend ==
    /\ at.step = "open"
    /\ at' = Idle("closed")
    /\ UNCHANGED <<durable, latest, records, todo, undoing, crashes, faults>>

-----------------------------------------------------------------------------
(* commit: over a snapshot of _records. *)

StartCommit ==
    /\ at.step = "open"
    /\ todo' = {i \in records : latest[i] = "applied"}
    /\ at' = Idle("commit")
    /\ UNCHANGED <<durable, latest, records, undoing, crashes, faults>>

CommitRecord ==
    /\ at.step = "commit" /\ todo # {}
    /\ SetStatus(Min(todo), "committed", "commit")
    /\ todo' = todo \ {Min(todo)}
    /\ UNCHANGED <<durable, records, undoing, crashes, faults>>

(* The marker, _committed and the workspace_committed checkpoint. *)
MarkCommitted ==
    /\ at.step = "commit" /\ todo = {}
    /\ marker' = marker \cup {"COMMITTED"}
    /\ at' = Idle("closed")
    /\ UNCHANGED <<file, original, mutation, journal, table, corrupt, latest,
                   records, todo, undoing, crashes, faults>>

-----------------------------------------------------------------------------
(* rollback: over a snapshot of _records, newest first, each restored from *)
(* its backup.                                                             *)

StartRollback ==
    /\ at.step \in {"open", "failed"}
    /\ ~Committed
    /\ todo' = records
    /\ undoing' = TRUE
    /\ at' = Idle("rollback")
    /\ UNCHANGED <<durable, latest, records, crashes, faults>>

(* Mutant: the oldest first. *)
RestoreNewest_Oldest ==
    /\ at.step = "rollback" /\ todo # {}
    /\ at' = At("restore", Min(todo), "none", "none")
    /\ todo' = todo \ {Min(todo)}
    /\ UNCHANGED <<durable, latest, records, undoing, crashes, faults>>

RestoreNewest ==
    /\ at.step = "rollback" /\ todo # {}
    /\ at' = At("restore", Max(todo), "none", "none")
    /\ todo' = todo \ {Max(todo)}
    /\ UNCHANGED <<durable, latest, records, undoing, crashes, faults>>

DeleteBeforeRestore ==
    /\ at.step = "restore"
    /\ NeedsDelete(mutation[at.id].path, mutation[at.id].before)
    /\ file' = [file EXCEPT ![mutation[at.id].path] = Missing]
    /\ UNCHANGED <<original, mutation, journal, table, marker, corrupt, latest,
                   records, todo, at, undoing, crashes, faults>>

Restore ==
    /\ at.step = "restore"
    /\ ~NeedsDelete(mutation[at.id].path, mutation[at.id].before)
    /\ file' = [file EXCEPT ![mutation[at.id].path] = mutation[at.id].before]
    /\ SetStatus(at.id, "rolled_back", "rollback")
    /\ UNCHANGED <<original, mutation, journal, table, marker, corrupt, records,
                   todo, undoing, crashes, faults>>

(* The marker and the workspace_rolled_back checkpoint. *)
MarkRolledBack ==
    /\ at.step = "rollback" /\ todo = {}
    /\ marker' = marker \cup {"ROLLED_BACK"}
    /\ at' = Idle("undone")
    /\ UNCHANGED <<file, original, mutation, journal, table, corrupt, latest,
                   records, todo, undoing, crashes, faults>>

(* The coordinator saves the run as failed or cancelled: it never executes *)
(* again. A crash before that save leaves a run that can be resumed.       *)
SaveFinalState ==
    /\ at.step = "undone"
    /\ at' = Idle("ended")
    /\ UNCHANGED <<durable, latest, records, todo, undoing, crashes, faults>>

-----------------------------------------------------------------------------
(* Steps that throw. *)

Fault == faults < MaxFaults /\ faults' = faults + 1

(* The effect throws before it changes the project; the catch of writeBytes *)
(* and delete is _markAbandonedIfUnchanged.                                *)
EffectThrows ==
    /\ at.step = "effect" /\ Fault
    /\ IF StateUnchanged(at.id)
       THEN SetStatus(at.id, "abandoned", "open")
       ELSE at' = Idle("open") /\ UNCHANGED latest
    /\ UNCHANGED <<durable, records, todo, undoing, crashes>>

RestoreThrows ==
    /\ at.step = "restore" /\ Fault
    /\ SetStatus(at.id, "rollback_failed", "closed")
    /\ UNCHANGED <<durable, records, todo, undoing, crashes>>

(* Where the exception of a _setStatus that returns to r surfaces. The     *)
(* catch of rollback tries to write rollback_failed.                       *)
Raised ==
    CASE at.return = "begin" -> Idle("closed")
      [] at.return \in {"effect", "open"} -> Idle("open")
      [] at.return = "commit" -> Idle("failed")
      [] at.return = "rollback" -> At("journal", at.id, "rollback_failed", "closed")
      [] at.return = "closed" -> Idle("closed")

(* The journal append or the table write throws: _records stays as it was. *)
SetStatusThrows ==
    /\ at.step \in {"journal", "table"} /\ Fault
    /\ at' = Raised
    /\ latest' = IF at.return = "rollback"
                 THEN [latest EXCEPT ![at.id] = "rollback_failed"] ELSE latest
    /\ UNCHANGED <<durable, records, todo, undoing, crashes>>

(* The marker cannot be written. *)
MarkThrows ==
    /\ todo = {}
    /\ \/ at.step = "commit" /\ at' = Idle("failed")
       \/ at.step = "rollback" /\ at' = Idle("closed")
    /\ Fault
    /\ UNCHANGED <<durable, latest, records, todo, undoing, crashes>>

(* The process dies; a journal line that was being appended may be torn.   *)
Crash ==
    /\ crashes < MaxCrashes
    /\ at.step \notin {"closed", "ended"}
    /\ crashes' = crashes + 1
    /\ corrupt' \in IF at.step = "journal" THEN {FALSE, TRUE} ELSE {corrupt}
    /\ at' = Idle("closed")
    /\ latest' = [i \in Ids |-> "none"] /\ records' = {} /\ todo' = {}
    /\ UNCHANGED <<file, original, mutation, journal, table, marker, undoing, faults>>

-----------------------------------------------------------------------------
NoMutation == [path |-> "none", before |-> Missing, after |-> Missing]

Init ==
    /\ file \in [Paths -> States]
    /\ original = file
    /\ mutation = [i \in Ids |-> NoMutation]
    /\ journal = [i \in Ids |-> "none"]
    /\ table = [i \in Ids |-> "none"]
    /\ marker = {} /\ corrupt = FALSE
    /\ latest = [i \in Ids |-> "none"] /\ records = {} /\ todo = {}
    /\ undoing = FALSE
    /\ at = Idle("closed")
    /\ crashes = 0 /\ faults = 0
    /\ windows \in Platforms

Step ==
    \/ WriteJournal \/ WriteTable
    \/ BeginTransaction \/ Opened \/ RecoverPrepared
    \/ \E p \in Paths, c \in States : Prepare(p, c)
    \/ DeleteBeforeRename \/ Apply
    \/ Suspend
    \/ StartCommit \/ CommitRecord \/ MarkCommitted
    \/ StartRollback \/ RestoreNewest \/ DeleteBeforeRestore \/ Restore
    \/ MarkRolledBack \/ SaveFinalState
    \/ EffectThrows \/ RestoreThrows \/ SetStatusThrows \/ MarkThrows
    \/ Crash

Next == Step /\ UNCHANGED windows

Spec == Init /\ [][Next]_vars

-----------------------------------------------------------------------------
(* Properties *)

(* Every variable has its shape. *)
TypeOK ==
    /\ file \in [Paths -> States] /\ original \in [Paths -> States]
    /\ mutation \in [Ids -> Mutations \cup {NoMutation}]
    /\ journal \in [Ids -> Status] /\ table \in [Ids -> Status]
    /\ latest \in [Ids -> Status]
    /\ marker \subseteq {"COMMITTED", "ROLLED_BACK"} /\ corrupt \in BOOLEAN
    /\ records \subseteq Ids /\ todo \subseteq Ids
    /\ at \in [step : Steps, id : Ids \cup {0}, status : Status,
               return : Steps \cup {"none"}]
    /\ undoing \in BOOLEAN
    /\ crashes \in 0 .. MaxCrashes /\ faults \in 0 .. MaxFaults
    /\ windows \in Platforms

(* A file that differs from what the run found is named by a journal       *)
(* record that is not rolled back, and not abandoned either unless a step  *)
(* threw: neither any number of crashes nor one throwing step changes the  *)
(* project behind the journal's back. (Two failures do: when the table     *)
(* write of "applied" throws, _records misses the mutation; a rollback     *)
(* skips it, a begin reloads it, and the next rollback restores what that  *)
(* mutation had found, over what the first rollback restored.)             *)
EffectJournaled ==
    (faults = 0 \/ (faults = 1 /\ crashes = 0)) =>
        \A p \in Paths : file[p] # original[p] =>
            \E i \in Ids :
                /\ mutation[i].path = p
                /\ \/ journal[i] \in {"prepared", "applied", "committed",
                                      "rollback_failed"}
                   \/ journal[i] = "abandoned" /\ faults > 0

(* What the journal says a file holds: the after of its newest applied     *)
(* mutation.                                                               *)
Journaled(p) ==
    LET applied == {i \in Ids : /\ mutation[i].path = p
                                /\ journal[i] \in {"applied", "committed"}}
    IN  IF applied = {} THEN original[p] ELSE mutation[Max(applied)].after

JournalIsProject == \A p \in Paths : file[p] = Journaled(p)

(* Between tool calls the project is exactly what the journal says, after  *)
(* any number of crashes and recoveries, while nothing threw and no        *)
(* rollback was begun.                                                     *)
OpenMatchesJournal ==
    (at.step = "open" /\ ~undoing /\ faults = 0) => JournalIsProject

(* The journal accounts for the project: for whatever is left of the run,  *)
(* and between tool calls for exactly what the files hold.                 *)
JournalTruthful == EffectJournaled /\ OpenMatchesJournal

(* A rollback that finishes has restored every file the run changed, also  *)
(* when it was interrupted by crashes and started over, provided no step   *)
(* threw and the run was not executed again after an earlier rollback.     *)
RollbackRestores ==
    [][("ROLLED_BACK" \in marker' /\ marker = {} /\ faults = 0)
          => file' = original]_vars

(* Once the COMMITTED marker is written nothing of this run touches the    *)
(* project again: not a later begin, not a rollback, not a late write.     *)
CommittedFinal == [][Committed => file' = file]_vars

(* However often it was interrupted, a run ends in one of two ways: undone, *)
(* with every file restored, or committed, with every file left alone.     *)
EndsHold == RollbackRestores /\ CommittedFinal

=============================================================================
