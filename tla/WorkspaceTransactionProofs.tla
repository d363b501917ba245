---------------------- MODULE WorkspaceTransactionProofs ----------------------
(***************************************************************************)
(* Proofs about the journaled workspace transaction: whatever crashes, a   *)
(* run ends undone or committed, and the journal accounts for the project, *)
(* also when a step throws and the process does not crash.                 *)
(***************************************************************************)
EXTENDS WorkspaceTransaction, FiniteSetTheorems, WellFoundedInduction, TLAPS

-----------------------------------------------------------------------------
(***************************************************************************)
(* The least and the greatest record.  A loop of the code visits Min(todo) *)
(* or Max(todo); that they exist follows from the strict subset ordering   *)
(* of a finite set being well founded.                                     *)
(***************************************************************************)
LEMMA FiniteIds == IsFiniteSet(Ids) /\ Ids \subseteq Nat
<1>1. MaxMutations \in Nat
  BY TransactionAssumption
<1> QED BY <1>1, FS_Interval DEF Ids

LEMMA MaxExists ==
    ASSUME NEW S, S \subseteq Ids, S # {}
    PROVE  Max(S) \in S /\ \A y \in S : Max(S) >= y
<1> DEFINE Above(x) == {y \in S : y > x}
           T == {Above(x) : x \in S}
<1>1. IsFiniteSet(S) /\ \A x \in S : IsFiniteSet(Above(x))
  BY FiniteIds, FS_Subset
<1>2. IsWellFoundedOn(StrictSubsetOrdering(S), FiniteSubsetsOf(S))
  BY <1>1, FS_StrictSubsetOrderingWellFounded
<1>3. T \subseteq FiniteSubsetsOf(S)
  BY <1>1 DEF FiniteSubsetsOf
<1>4. T # {}
  OBVIOUS
<1>5. \E A \in T : \A B \in T : <<B, A>> \notin StrictSubsetOrdering(S)
  <2> HIDE DEF T
  <2> QED BY <1>2, <1>3, <1>4, WFMin
<1>6. PICK x \in S : \A y \in S : <<Above(y), Above(x)>> \notin StrictSubsetOrdering(S)
  BY <1>5
<1>7. \A y \in S : x >= y
  <2> SUFFICES ASSUME NEW y \in S, ~(x >= y) PROVE FALSE
    OBVIOUS
  <2>1. y > x /\ \A z \in S : z \in Int
    BY FiniteIds
  <2>2. Above(y) \subseteq Above(x)
    BY <2>1
  <2>3. y \in Above(x) /\ y \notin Above(y)
    BY <2>1
  <2>4. <<Above(y), Above(x)>> \in StrictSubsetOrdering(S)
    BY <2>2, <2>3 DEF StrictSubsetOrdering
  <2> QED BY <2>4, <1>6
<1> HIDE DEF Above, T
<1> QED BY <1>7 DEF Max

LEMMA MinExists ==
    ASSUME NEW S, S \subseteq Ids, S # {}
    PROVE  Min(S) \in S /\ \A y \in S : Min(S) <= y
<1> DEFINE Below(x) == {y \in S : y < x}
           T == {Below(x) : x \in S}
<1>1. IsFiniteSet(S) /\ \A x \in S : IsFiniteSet(Below(x))
  BY FiniteIds, FS_Subset
<1>2. IsWellFoundedOn(StrictSubsetOrdering(S), FiniteSubsetsOf(S))
  BY <1>1, FS_StrictSubsetOrderingWellFounded
<1>3. T \subseteq FiniteSubsetsOf(S)
  BY <1>1 DEF FiniteSubsetsOf
<1>4. T # {}
  OBVIOUS
<1>5. \E A \in T : \A B \in T : <<B, A>> \notin StrictSubsetOrdering(S)
  <2> HIDE DEF T
  <2> QED BY <1>2, <1>3, <1>4, WFMin
<1>6. PICK x \in S : \A y \in S : <<Below(y), Below(x)>> \notin StrictSubsetOrdering(S)
  BY <1>5
<1>7. \A y \in S : x <= y
  <2> SUFFICES ASSUME NEW y \in S, ~(x <= y) PROVE FALSE
    OBVIOUS
  <2>1. y < x /\ \A z \in S : z \in Int
    BY FiniteIds
  <2>2. Below(y) \subseteq Below(x)
    BY <2>1
  <2>3. y \in Below(x) /\ y \notin Below(y)
    BY <2>1
  <2>4. <<Below(y), Below(x)>> \in StrictSubsetOrdering(S)
    BY <2>2, <2>3 DEF StrictSubsetOrdering
  <2> QED BY <2>4, <1>6
<1> HIDE DEF Below, T
<1> QED BY <1>7 DEF Min

\* A record above all others is the greatest one.
LEMMA MaxIs ==
    ASSUME NEW S, S \subseteq Int, NEW m \in S, \A y \in S : y <= m
    PROVE  Max(S) = m
<1>1. m \in Int /\ \A y \in S : m >= y
  OBVIOUS
<1>2. Max(S) \in S /\ \A y \in S : Max(S) >= y
  BY <1>1 DEF Max
<1>3. Max(S) >= m /\ Max(S) <= m /\ Max(S) \in Int
  BY <1>2
<1> QED BY ONLY <1>1, <1>3

-----------------------------------------------------------------------------
(***************************************************************************)
(* The inductive invariant.  Shape and Final hold whatever throws; Calm    *)
(* describes the runs in which nothing threw, however often they crashed.  *)
(***************************************************************************)
Returns == {"begin", "effect", "open", "commit", "rollback", "closed"}

\* Records are numbered in the order they were made, and whoever has a record at
\* hand has one of them.
Shape ==
    /\ TypeOK
    /\ Used = 1 .. Cardinality(Used)
    /\ at.step \in {"effect", "journal", "table", "restore"} => at.id \in Ids
    /\ at.step \in {"journal", "table"} => at.return \in Returns

\* A committed transaction is looked at by begin and dropped.
Final == Committed => at.step \in {"closed", "begin"}

Prepared == {i \in Ids : journal[i] = "prepared"}

LiveStatus == {"prepared", "applied", "committed"}

LiveOn(p) == {i \in Ids : mutation[i].path = p /\ journal[i] \in LiveStatus}

Writing == at.step \in {"journal", "table"}

InFlight(i) == at.step \in {"effect", "journal", "table"} /\ at.id = i

\* A marker keeps begin from reconciling, so such a record stays prepared for good.
Stuck(i) == marker # {} /\ journal[i] = "prepared" /\ ~InFlight(i)

Newest(i) == \A j \in Used : j <= i

\* Only records that were made have a status, and none of a fault.
Statuses ==
    /\ at.step # "failed"
    /\ \A i \in Ids : /\ journal[i] \in LiveStatus \cup {"none", "rolled_back", "abandoned"}
                      /\ i \notin Used => journal[i] = "none"

\* What the process remembers is what the journal says, or will say next.
Memory ==
    /\ at.step \in {"open", "effect", "table", "begin", "commit", "rollback", "restore"} =>
          latest = journal
    /\ at.step = "journal" => latest = [journal EXCEPT ![at.id] = at.status]
    /\ at.step = "open" => records = AppliedIds(journal)

\* The status being written follows the one the journal has, and the project is as
\* the writer left it.
Writes ==
    /\ at.step = "effect" => journal[at.id] = "prepared"
    /\ at.step = "journal" =>
          LET i == at.id
              was == journal[i]
              holds == file[mutation[i].path]
          IN  \/ /\ at.status = "prepared" /\ at.return = "effect"
                 /\ was = "none" /\ i \in Used /\ Newest(i) /\ holds = mutation[i].before
              \/ /\ at.status = "applied" /\ at.return \in {"open", "begin"}
                 /\ was = "prepared" /\ holds = mutation[i].after
              \/ /\ at.status = "abandoned" /\ at.return = "begin" /\ marker = {}
                 /\ was = "prepared" /\ holds = mutation[i].before
              \/ /\ at.status = "committed" /\ at.return = "commit" /\ was = "applied"
              \/ /\ at.status = "rolled_back" /\ at.return = "rollback"
                 /\ was \in {"applied", "committed"} /\ holds = mutation[i].before
    /\ at.step = "table" =>
          /\ journal[at.id] = at.status
          /\ at.return = "effect" <=> at.status = "prepared"
          /\ at.return = "rollback" <=> at.status = "rolled_back"
          /\ at.return # "closed"

\* Without a marker at most the newest record is prepared, and only while its effect
\* is under way or a crash has not been reconciled.
OnePrepared ==
    marker = {} =>
        /\ \A i \in Prepared : Newest(i)
        /\ at.step \notin {"closed", "begin"} => \A i \in Prepared : InFlight(i)

\* The loops have before them what they have not done.
Loops ==
    /\ at.step = "rollback" \/ (at.step = "table" /\ at.return = "rollback") =>
          AppliedIds(journal) = todo
    /\ at.step = "restore" \/ (at.step = "journal" /\ at.return = "rollback") =>
          AppliedIds(journal) = todo \cup {at.id} /\ \A j \in todo : j < at.id
    /\ at.step = "commit" \/ (Writing /\ at.return = "commit") =>
          \A j \in todo : journal[j] = "applied" /\ ~InFlight(j)

\* The oldest live record of a file has saved the original; without one the file is
\* the original.
Accounted(p) ==
    \/ \E i \in LiveOn(p) : Stuck(i)
    \/ /\ LiveOn(p) = {} => file[p] = original[p]
       /\ \A i \in LiveOn(p) :
             (\A j \in LiveOn(p) : i <= j) => mutation[i].before = original[p]

\* Before any rollback the project is what the journal says, but for the file of the
\* prepared record, whose before is.
Untouched ==
    ~undoing =>
        /\ at.step \notin {"rollback", "restore", "undone", "ended"}
        /\ Writing => at.return # "rollback"
        /\ "ROLLED_BACK" \notin marker
        /\ \A p \in Paths :
              /\ \A i \in Prepared : mutation[i].path = p => mutation[i].before = Journaled(p)
              /\ (\A i \in Prepared : mutation[i].path # p) => file[p] = Journaled(p)

Calm ==
    /\ Statuses /\ Memory /\ Writes /\ OnePrepared /\ Loops /\ Untouched
    /\ \A p \in Paths : Accounted(p)

TransactionInv == Shape /\ Final /\ (faults = 0 => Calm)

-----------------------------------------------------------------------------
(* Shape. *)

LEMMA ShapeInit == Init => Shape
<1> SUFFICES ASSUME Init PROVE Shape
  OBVIOUS
<1> USE TransactionAssumption
<1>1. Used = {}
  BY DEF Init, Used, NoMutation
<1>2. Used = 1 .. Cardinality(Used)
  BY <1>1, FS_EmptySet
<1>3. TypeOK
  <2>1. /\ file \in [Paths -> States] /\ original = file /\ windows \in Platforms
        /\ mutation = [i \in Ids |-> NoMutation]
        /\ journal = [i \in Ids |-> "none"] /\ table = journal /\ latest = journal
        /\ marker = {} /\ corrupt = FALSE /\ records = {} /\ todo = {} /\ undoing = FALSE
        /\ crashes = 0 /\ faults = 0
    BY DEF Init
  <2>2. at \in [step : Steps, id : Ids \cup {0}, status : Status, return : Steps \cup {"none"}]
    BY DEF Init, Idle, At, Steps, Status
  <2>3. mutation \in [Ids -> Mutations \cup {NoMutation}] /\ journal \in [Ids -> Status]
    BY <2>1 DEF Status
  <2>4. crashes \in 0 .. MaxCrashes /\ faults \in 0 .. MaxFaults
    BY <2>1
  <2>5. /\ marker \subseteq {"COMMITTED", "ROLLED_BACK"} /\ corrupt \in BOOLEAN
        /\ records \subseteq Ids /\ todo \subseteq Ids /\ undoing \in BOOLEAN
    BY <2>1
  <2> QED BY <2>1, <2>2, <2>3, <2>4, <2>5 DEF TypeOK
<1> QED BY <1>2, <1>3 DEF Init, Shape, Idle, At

\* The records made are unchanged unless one is made.
LEMMA UsedKept == mutation' = mutation => Used' = Used
  BY DEF Used

\* Making a record: it gets the next number.
LEMMA PrepareShape ==
    ASSUME Shape, UNCHANGED windows, NEW p \in Paths, NEW c \in States, Prepare(p, c)
    PROVE  /\ Shape'
           /\ Used' = Used \cup {NextId} /\ NextId \notin Used
           /\ \A j \in Used : j < NextId
<1> USE TransactionAssumption
<1>1. /\ mutation' = [mutation EXCEPT ![NextId] = [path |-> p, before |-> file[p], after |-> c]]
      /\ NextId \in Ids /\ at' = At("journal", NextId, "prepared", "effect")
  BY DEF Prepare, SetStatus
<1>2. Used' = Used \cup {NextId}
  BY <1>1 DEF Used, Shape, TypeOK
<1>3. Cardinality(Used) \in Nat
  BY FiniteIds, FS_Subset, FS_CardinalityType DEF Used
<1>4. Used' = 1 .. NextId /\ NextId \in Nat \ {0}
  <2> DEFINE n == Cardinality(Used)
  <2>1. Used = 1 .. n /\ NextId = n + 1
    BY DEF Shape, NextId
  <2>2. n \in Nat
    BY <1>3
  <2> HIDE DEF n
  <2>3. (1 .. n) \cup {n + 1} = 1 .. (n + 1)
    BY <2>2
  <2> QED BY <2>1, <2>2, <2>3, <1>2
<1>5. Cardinality(Used') = NextId
  BY <1>4, FS_Interval
<1>8. NextId \notin Used /\ \A j \in Used : j < NextId
  BY <1>3 DEF Shape, NextId
<1>6. TypeOK'
  <2>1. [path |-> p, before |-> file[p], after |-> c] \in Mutations
    BY DEF Mutations, Shape, TypeOK
  <2>2. mutation' \in [Ids -> Mutations \cup {NoMutation}]
    BY <2>1, <1>1 DEF Shape, TypeOK
  <2>3. latest' \in [Ids -> Status]
    BY DEF Prepare, SetStatus, Shape, TypeOK, Status
  <2>4. at' \in [step : Steps, id : Ids \cup {0}, status : Status, return : Steps \cup {"none"}]
    BY <1>1 DEF At, Steps, Status
  <2> QED BY <2>2, <2>3, <2>4 DEF Prepare, Shape, TypeOK
<1>7. at'.step = "journal" /\ at'.id \in Ids /\ at'.return \in Returns
  BY <1>1 DEF At, Returns
<1> QED BY <1>2, <1>4, <1>5, <1>6, <1>7, <1>8 DEF Shape

\* Every other step keeps the records and the types.
LEMMA StepShape ==
    ASSUME Shape, Next, \A p \in Paths, c \in States : ~Prepare(p, c)
    PROVE  Shape' /\ mutation' = mutation
<1> USE TransactionAssumption DEF Shape, TypeOK, Idle, At
<1> DEFINE AtShape == /\ at' \in [step : Steps, id : Ids \cup {0}, status : Status,
                                  return : Steps \cup {"none"}]
                      /\ at'.step \in {"effect", "journal", "table", "restore"} => at'.id \in Ids
                      /\ at'.step \in {"journal", "table"} => at'.return \in Returns
           Same == mutation' = mutation /\ original' = original /\ windows' = windows
<1>0. SUFFICES TypeOK' /\ AtShape /\ Same
  BY <1>0, UsedKept
<1>1. UNCHANGED windows
  BY DEF Next
<1>2. CASE WriteJournal
  BY <1>1, <1>2 DEF WriteJournal, Steps
<1>3. CASE WriteTable
  BY <1>1, <1>3 DEF WriteTable, Steps, Status, AppliedIds, Returns
<1>4. CASE BeginTransaction
  BY <1>1, <1>4 DEF BeginTransaction, durable, Steps, Status
<1>5. CASE RecoverPrepared
  <2>1. Min(Unresolved) \in Ids
    BY <1>5, MinExists DEF RecoverPrepared, Unresolved
  <2> QED BY <1>1, <1>5, <2>1 DEF RecoverPrepared, SetStatus, durable, Steps, Status, Returns
<1>6. CASE Opened
  BY <1>1, <1>6 DEF Opened, durable, Steps, Status, AppliedIds
<1>7. CASE DeleteBeforeRename
  BY <1>1, <1>7 DEF DeleteBeforeRename, States
<1>8. CASE Apply
  <2>1. mutation[at.id].after \in States
    BY <1>8 DEF Apply, Mutations, NoMutation, States
  <2> QED BY <1>1, <1>8, <2>1 DEF Apply, SetStatus, Steps, Status, Returns
<1>9. CASE Suspend
  BY <1>1, <1>9 DEF Suspend, durable, Steps, Status
<1>10. CASE SaveFinalState
  BY <1>1, <1>10 DEF SaveFinalState, durable, Steps, Status
<1>11. CASE StartCommit
  BY <1>1, <1>11 DEF StartCommit, durable, Steps, Status
<1>12. CASE StartRollback
  BY <1>1, <1>12 DEF StartRollback, durable, Steps, Status
<1>13. CASE CommitRecord
  <2>1. Min(todo) \in Ids
    BY <1>13, MinExists DEF CommitRecord
  <2> QED BY <1>1, <1>13, <2>1 DEF CommitRecord, SetStatus, durable, Steps, Status, Returns
<1>14. CASE MarkCommitted
  BY <1>1, <1>14 DEF MarkCommitted, Steps, Status
<1>15. CASE MarkRolledBack
  BY <1>1, <1>15 DEF MarkRolledBack, Steps, Status
<1>16. CASE RestoreNewest
  <2>1. Max(todo) \in Ids
    BY <1>16, MaxExists DEF RestoreNewest
  <2> QED BY <1>1, <1>16, <2>1 DEF RestoreNewest, durable, Steps, Status
<1>17. CASE DeleteBeforeRestore
  BY <1>1, <1>17 DEF DeleteBeforeRestore, States
<1>18. CASE Restore
  <2>1. mutation[at.id].before \in States
    BY <1>18 DEF Restore, Mutations, NoMutation, States
  <2> QED BY <1>1, <1>18, <2>1 DEF Restore, SetStatus, Steps, Status, Returns
<1>19. CASE EffectThrows
  BY <1>1, <1>19 DEF EffectThrows, Fault, SetStatus, durable, Steps, Status, Returns
<1>20. CASE RestoreThrows
  BY <1>1, <1>20 DEF RestoreThrows, Fault, SetStatus, durable, Steps, Status, Returns
<1>21. CASE SetStatusThrows
  <2>1. AtShape
    BY <1>21 DEF SetStatusThrows, Raised, Steps, Status, Returns
  <2> QED BY <1>1, <1>21, <2>1 DEF SetStatusThrows, Fault, durable, Status
<1>22. CASE MarkThrows
  BY <1>1, <1>22 DEF MarkThrows, Fault, durable, Steps, Status
<1>23. CASE Crash
  <2>1. corrupt' \in BOOLEAN
    BY <1>23 DEF Crash
  <2>2. crashes' \in 0 .. MaxCrashes
    BY <1>23 DEF Crash
  <2>3. AtShape /\ latest' \in [Ids -> Status]
    BY <1>23 DEF Crash, Steps, Status
  <2> QED BY <1>1, <1>23, <2>1, <2>2, <2>3 DEF Crash
<1> QED BY <1>2, <1>3, <1>4, <1>5, <1>6, <1>7, <1>8, <1>9, <1>10, <1>11, <1>12, <1>13, <1>14,
           <1>15, <1>16, <1>17, <1>18, <1>19, <1>20, <1>21, <1>22, <1>23 DEF Next, Step

LEMMA ShapeStep == Shape /\ [Next]_vars => Shape'
<1> SUFFICES ASSUME Shape, [Next]_vars PROVE Shape'
  OBVIOUS
<1>1. CASE UNCHANGED vars
  BY <1>1, UsedKept DEF vars, durable, Shape, TypeOK
<1>2. ASSUME NEW p \in Paths, NEW c \in States, Prepare(p, c), Next
      PROVE  Shape'
  BY <1>2, PrepareShape DEF Next
<1> QED BY <1>1, <1>2, StepShape

\* Every variable keeps its type, for any number of files, records, crashes and faults.
THEOREM TypeCorrect == Spec => []TypeOK
<1>1. Shape => TypeOK
  BY DEF Shape
<1> QED BY <1>1, ShapeInit, ShapeStep, PTL DEF Spec

-----------------------------------------------------------------------------
(* Final. *)

LEMMA FinalInit == Init => Final
  BY DEF Init, Final, Committed

LEMMA FinalStep == Final /\ [Next]_vars => Final'
<1> SUFFICES ASSUME Final, [Next]_vars PROVE Final'
  OBVIOUS
<1> USE DEF Final, Committed, Idle, At
<1>1. CASE MarkCommitted \/ MarkRolledBack
  BY <1>1 DEF MarkCommitted, MarkRolledBack
<1>2. CASE BeginTransaction \/ RecoverPrepared \/ Opened
  BY <1>2 DEF BeginTransaction, RecoverPrepared, Opened, Reconciles, durable
<1>3. CASE Crash
  BY <1>3 DEF Crash
<1>4. CASE UNCHANGED vars
  BY <1>4 DEF vars, durable
<1>5. CASE \/ WriteJournal \/ WriteTable
           \/ \E p \in Paths, c \in States : Prepare(p, c)
           \/ DeleteBeforeRename \/ Apply \/ Suspend \/ StartCommit \/ CommitRecord
  BY <1>5 DEF WriteJournal, WriteTable, Prepare, DeleteBeforeRename, Apply, Suspend, StartCommit,
              CommitRecord, durable
<1>6. CASE \/ StartRollback \/ RestoreNewest \/ DeleteBeforeRestore \/ Restore \/ SaveFinalState
  BY <1>6 DEF StartRollback, RestoreNewest, DeleteBeforeRestore, Restore, SaveFinalState, durable
<1>7. CASE EffectThrows \/ RestoreThrows \/ SetStatusThrows \/ MarkThrows
  BY <1>7 DEF EffectThrows, RestoreThrows, SetStatusThrows, MarkThrows, durable
<1> QED BY <1>1, <1>2, <1>3, <1>4, <1>5, <1>6, <1>7 DEF Next, Step

\* Once the COMMITTED marker is written no step touches the project.
LEMMA CommittedTouchesNothing == Final /\ [Next]_vars => (Committed => file' = file)
<1> SUFFICES ASSUME Final, Committed, [Next]_vars PROVE file' = file
  OBVIOUS
<1>1. at.step \in {"closed", "begin"}
  BY DEF Final
<1>2. ~DeleteBeforeRename /\ ~Apply /\ ~DeleteBeforeRestore /\ ~Restore
  BY <1>1 DEF DeleteBeforeRename, Apply, DeleteBeforeRestore, Restore
<1> QED BY <1>1, <1>2 DEF Next, Step, vars, durable, WriteJournal, WriteTable, Prepare,
           BeginTransaction, RecoverPrepared, Opened, Suspend, StartCommit, CommitRecord,
           MarkCommitted, StartRollback, RestoreNewest, MarkRolledBack, SaveFinalState,
           EffectThrows, RestoreThrows, SetStatusThrows, MarkThrows, Crash

-----------------------------------------------------------------------------
(* Calm: the parts that most steps leave alone. *)

\* A step that writes neither the journal nor a record keeps a file accounted for: a
\* stuck record stays stuck, and only a live record's file is touched.
LEMMA AccountedKept ==
    ASSUME NEW p \in Paths, Accounted(p),
           journal' = journal, mutation' = mutation, original' = original,
           file'[p] = file[p] \/ LiveOn(p) # {},
           marker # {} => marker' # {},
           \A i \in Ids : Stuck(i) /\ InFlight(i)' => FALSE
    PROVE  Accounted(p)'
<1>1. LiveOn(p)' = LiveOn(p)
  BY DEF LiveOn
<1>2. \A i \in Ids : Stuck(i) => Stuck(i)'
  BY DEF Stuck
<1>3. LiveOn(p) \subseteq Ids
  BY DEF LiveOn
<1> QED BY <1>1, <1>2, <1>3 DEF Accounted

LEMMA JournaledKept ==
    ASSUME NEW p, journal' = journal, mutation' = mutation, original' = original
    PROVE  Journaled(p)' = Journaled(p)
  BY DEF Journaled

\* The id at hand while a file is changed or restored is live.
LEMMA HandIsLive ==
    ASSUME Shape, Calm, at.step \in {"effect", "restore"}
    PROVE  at.id \in LiveOn(mutation[at.id].path) /\ mutation[at.id].path \in Paths
<1>1. at.id \in Ids
  BY DEF Shape
<1>2. journal[at.id] \in LiveStatus
  BY <1>1 DEF Calm, Writes, Loops, AppliedIds, LiveStatus
<1>3. at.id \in Used
  BY <1>1, <1>2 DEF Calm, Statuses, LiveStatus
<1> QED BY <1>1, <1>2, <1>3 DEF LiveOn, Used

\* A step between the writes: neither the journal nor the records nor the project.
Between ==
    /\ UNCHANGED <<file, original, mutation, journal>>
    /\ faults' = faults /\ (undoing => undoing')
    /\ marker \subseteq marker'

LEMMA BetweenKeeps ==
    ASSUME Shape, Calm, Between, at'.step # "failed",
           \A i \in Ids : Stuck(i) /\ InFlight(i)' => FALSE
    PROVE  /\ Statuses'
           /\ \A p \in Paths : Accounted(p)'
           /\ \A p \in Paths : Journaled(p)' = Journaled(p)
<1>1. Used' = Used
  BY UsedKept DEF Between
<1>2. Statuses'
  BY <1>1 DEF Between, Calm, Statuses
<1>3. \A p \in Paths : Accounted(p)'
  BY AccountedKept DEF Between, Calm
<1>4. \A p \in Paths : Journaled(p)' = Journaled(p)
  BY JournaledKept DEF Between
<1> QED BY <1>2, <1>3, <1>4

-----------------------------------------------------------------------------
(* Calm: one lemma per step. *)

LEMMA WriteTableCalm ==
    ASSUME Shape, Calm, Shape', WriteTable
    PROVE  Calm'
<1> USE DEF Idle, At
<1>1. /\ at.step = "table" /\ at.id \in Ids /\ at.return \in Returns /\ latest = journal
      /\ at' = IF at.return = "effect" THEN At("effect", at.id, "none", "none") ELSE Idle(at.return)
      /\ UNCHANGED <<file, original, mutation, journal, marker, latest, todo, undoing, faults>>
      /\ records' = AppliedIds(latest)
  BY DEF WriteTable, Shape, Calm, Memory
<1>2. /\ journal[at.id] = at.status
      /\ at.return = "effect" <=> at.status = "prepared"
      /\ at.return = "rollback" <=> at.status = "rolled_back"
      /\ at.return # "closed"
  BY <1>1 DEF Calm, Writes
<1>3. /\ Used' = Used /\ Prepared' = Prepared
      /\ \A p \in Paths : Accounted(p)' /\ Journaled(p)' = Journaled(p)
      /\ Statuses'
  <2>1. \A i \in Ids : Stuck(i) /\ InFlight(i)' => FALSE
    BY <1>1 DEF Stuck, InFlight, Returns
  <2>2. at'.step # "failed"
    BY <1>1 DEF Returns
  <2> QED BY <1>1, <2>1, <2>2, BetweenKeeps DEF Between, Used, Prepared
<1>4. Memory'
  BY <1>1 DEF Memory, Returns
<1>5. Writes'
  BY <1>1, <1>2 DEF Writes, Returns
<1>6. OnePrepared'
  <2>1. \A i \in Ids : InFlight(i) /\ journal[i] = "prepared" => InFlight(i)'
    BY <1>1, <1>2 DEF InFlight
  <2> QED BY <1>1, <1>3, <2>1 DEF Calm, OnePrepared, Newest, Prepared
<1>7. Loops'
  <2>1. at'.step = "rollback" => AppliedIds(journal) = todo
    BY <1>1 DEF Calm, Loops
  <2>2. at'.step = "commit" => \A j \in todo : journal[j] = "applied"
    BY <1>1 DEF Calm, Loops, Writing
  <2> QED BY <1>1, <2>1, <2>2 DEF Loops, Writing, InFlight, AppliedIds, Returns
<1>8. Untouched'
  BY <1>1, <1>3 DEF Calm, Untouched, Writing, Returns
<1> QED BY <1>3, <1>4, <1>5, <1>6, <1>7, <1>8 DEF Calm

LEMMA BeginCalm ==
    ASSUME Shape, Calm, Shape', BeginTransaction \/ Opened \/ Suspend \/ Crash
    PROVE  Calm'
<1> USE DEF Idle, At
<1>1. /\ UNCHANGED <<file, original, mutation, journal, marker, undoing, faults>>
      /\ at'.step \in {"closed", "begin", "open"}
      /\ at'.step = "begin" => latest' = journal
      /\ at'.step = "open" => /\ at.step = "begin" /\ latest' = latest
                              /\ records' = AppliedIds(latest)
                              /\ Reconciles => Unresolved = {}
  <2>1. CASE BeginTransaction
    BY <2>1 DEF BeginTransaction, durable
  <2>2. CASE Opened
    BY <2>2 DEF Opened, durable
  <2>3. CASE Suspend
    BY <2>3 DEF Suspend, durable
  <2>4. CASE Crash
    <3>1. UNCHANGED <<file, original, mutation, journal, marker, undoing, faults>>
      BY <2>4 DEF Crash
    <3>2. at'.step = "closed"
      BY <2>4 DEF Crash
    <3> QED BY <3>1, <3>2
  <2> QED BY <2>1, <2>2, <2>3, <2>4
<1>2. /\ Used' = Used /\ Prepared' = Prepared
      /\ \A p \in Paths : Accounted(p)' /\ Journaled(p)' = Journaled(p)
      /\ Statuses'
  <2>1. \A i \in Ids : Stuck(i) /\ InFlight(i)' => FALSE
    BY <1>1 DEF InFlight
  <2> QED BY <1>1, <2>1, BetweenKeeps DEF Between, Used, Prepared
<1>3. Memory'
  BY <1>1 DEF Calm, Memory
<1>4. Writes' /\ Loops'
  BY <1>1 DEF Writes, Loops, Writing
<1>5. OnePrepared'
  <2>1. at'.step = "open" /\ marker = {} => Prepared = {}
    BY <1>1 DEF Calm, Memory, Reconciles, Unresolved, Prepared
  <2> QED BY <1>1, <1>2, <2>1 DEF Calm, OnePrepared, Newest
<1>6. Untouched'
  BY <1>1, <1>2 DEF Calm, Untouched, Writing
<1> QED BY <1>2, <1>3, <1>4, <1>5, <1>6 DEF Calm

\* The steps that only move a commit or a rollback along.
LEMMA LoopCalm ==
    ASSUME Shape, Calm, Shape',
           \/ StartCommit \/ MarkCommitted \/ StartRollback \/ RestoreNewest
           \/ MarkRolledBack \/ SaveFinalState
    PROVE  Calm'
<1> USE DEF Idle, At
<1> DEFINE Undoes == {"rollback", "restore", "undone", "ended"}
<1>1. /\ UNCHANGED <<file, original, mutation, journal, latest, faults>>
      /\ at.step \in {"open", "commit", "rollback", "undone"}
      /\ at'.step \in Undoes \cup {"commit", "closed"}
      /\ undoing => undoing'
      /\ at'.step \in Undoes => undoing'
      /\ marker' \in {marker, marker \cup {"COMMITTED"}, marker \cup {"ROLLED_BACK"}}
      /\ "ROLLED_BACK" \in marker' => "ROLLED_BACK" \in marker \/ undoing'
  BY DEF StartCommit, MarkCommitted, StartRollback, RestoreNewest, MarkRolledBack, SaveFinalState,
         durable, Calm, Statuses, Untouched
<1>2. /\ Used' = Used /\ Prepared' = Prepared
      /\ \A p \in Paths : Accounted(p)' /\ Journaled(p)' = Journaled(p)
      /\ Statuses'
  <2>1. \A i \in Ids : Stuck(i) /\ InFlight(i)' => FALSE
    BY <1>1 DEF InFlight
  <2>2. marker \subseteq marker'
    BY <1>1
  <2> QED BY <1>1, <2>1, <2>2, BetweenKeeps DEF Between, Used, Prepared
<1>3. Memory'
  <2>1. at'.step \in {"commit", "rollback", "restore"} => latest = journal
    BY <1>1 DEF Calm, Memory, StartCommit, MarkCommitted, StartRollback, RestoreNewest,
                MarkRolledBack, SaveFinalState
  <2> QED BY <1>1, <2>1 DEF Memory
<1>4. Writes'
  BY <1>1 DEF Writes
<1>5. Loops'
  <2>1. CASE StartCommit
    BY <2>1, <1>1, <1>3 DEF StartCommit, Loops, Writing, InFlight, Calm, Memory
  <2>2. CASE StartRollback
    BY <2>2, <1>1 DEF StartRollback, Loops, Writing, Calm, Memory, Statuses, AppliedIds
  <2>3. CASE RestoreNewest
    <3>1. /\ at.step = "rollback" /\ todo # {} /\ todo \subseteq Ids
          /\ at' = At("restore", Max(todo), "none", "none") /\ todo' = todo \ {Max(todo)}
      BY <2>3 DEF RestoreNewest, Shape, TypeOK
    <3>2. AppliedIds(journal) = todo
      BY <3>1 DEF Calm, Loops
    <3>3. Max(todo) \in todo /\ \A j \in todo : Max(todo) >= j /\ j \in Int
      <4>1. Max(todo) \in todo /\ \A j \in todo : Max(todo) >= j
        BY <3>1, MaxExists
      <4>2. \A j \in todo : j \in Int
        BY <3>1, FiniteIds
      <4> QED BY <4>1, <4>2
    <3>4. \A j \in todo \ {Max(todo)} : j < Max(todo)
      BY <3>3
    <3> QED BY <1>1, <3>1, <3>2, <3>3, <3>4 DEF Loops, Writing, AppliedIds
  <2>4. CASE MarkCommitted \/ MarkRolledBack \/ SaveFinalState
    BY <2>4, <1>1 DEF MarkCommitted, MarkRolledBack, SaveFinalState, Loops, Writing
  <2> QED BY <2>1, <2>2, <2>3, <2>4
<1>6. OnePrepared'
  <2>1. marker' = {} => marker = {} /\ Prepared = {}
    BY <1>1 DEF Calm, OnePrepared, InFlight
  <2> QED BY <1>2, <2>1 DEF OnePrepared
<1>7. Untouched'
  BY <1>1, <1>2 DEF Calm, Untouched, Writing
<1> QED BY <1>2, <1>3, <1>4, <1>5, <1>6, <1>7 DEF Calm

\* Without a marker, two prepared records are one.
LEMMA PreparedIsOne ==
    ASSUME Shape, Calm, marker = {}, NEW i \in Prepared, NEW j \in Prepared
    PROVE  i = j
<1>1. i \in Used /\ j \in Used
  BY DEF Prepared, Calm, Statuses
<1>2. i <= j /\ j <= i
  BY <1>1 DEF Calm, OnePrepared, Newest
<1>3. i \in Int /\ j \in Int
  BY FiniteIds DEF Prepared
<1> QED BY <1>2, <1>3

LEMMA RecoverCalm ==
    ASSUME Shape, Calm, Shape', RecoverPrepared
    PROVE  Calm'
<1> USE DEF Idle, At
<1> DEFINE i == Min(Unresolved)
<1>1. /\ at.step = "begin" /\ marker = {} /\ latest = journal /\ Unresolved # {}
      /\ UNCHANGED <<file, original, mutation, journal, marker, undoing, faults>>
  BY DEF RecoverPrepared, Reconciles, durable, Calm, Memory
<1>2. i \in Ids /\ journal[i] = "prepared"
  BY <1>1, MinExists DEF Unresolved
<1> HIDE DEF i
<1>3. \/ at' = At("journal", i, "applied", "begin") /\ file[mutation[i].path] = mutation[i].after
      \/ at' = At("journal", i, "abandoned", "begin") /\ file[mutation[i].path] = mutation[i].before
      \/ at' = Idle("closed")
  BY DEF RecoverPrepared, SetStatus, EffectApplied, StateUnchanged, i
<1>4. at'.step = "journal" => latest' = [journal EXCEPT ![i] = at'.status]
  BY <1>1 DEF RecoverPrepared, SetStatus, i
<1>5. /\ Used' = Used /\ Prepared' = Prepared
      /\ \A p \in Paths : Accounted(p)' /\ Journaled(p)' = Journaled(p)
      /\ Statuses'
  <2>1. \A j \in Ids : Stuck(j) /\ InFlight(j)' => FALSE
    BY <1>1 DEF Stuck
  <2>2. at'.step # "failed"
    BY <1>3
  <2> QED BY <1>1, <2>1, <2>2, BetweenKeeps DEF Between, Used, Prepared
<1>6. Memory'
  BY <1>1, <1>3, <1>4 DEF Memory
<1>7. Writes'
  BY <1>1, <1>2, <1>3 DEF Writes
<1>8. OnePrepared'
  <2>1. \A j \in Prepared : j = i
    BY <1>1, <1>2, PreparedIsOne DEF Prepared
  <2>2. \A j \in Prepared : Newest(j)'
    BY <1>1, <1>5 DEF Calm, OnePrepared, Newest
  <2>3. at'.step \notin {"closed", "begin"} => \A j \in Prepared : InFlight(j)'
    BY <1>3, <2>1 DEF InFlight
  <2> QED BY <1>5, <2>2, <2>3 DEF OnePrepared
<1>9. Loops'
  BY <1>3 DEF Loops, Writing
<1>10. Untouched'
  BY <1>1, <1>3, <1>5 DEF Calm, Untouched, Writing
<1> QED BY <1>5, <1>6, <1>7, <1>8, <1>9, <1>10 DEF Calm

LEMMA CommitRecordCalm ==
    ASSUME Shape, Calm, Shape', CommitRecord
    PROVE  Calm'
<1> USE DEF Idle, At
<1> DEFINE i == Min(todo)
<1>1. /\ at.step = "commit" /\ latest = journal /\ todo # {} /\ todo \subseteq Ids
      /\ UNCHANGED <<file, original, mutation, journal, marker, undoing, faults>>
  BY DEF CommitRecord, durable, Calm, Memory, Shape, TypeOK
<1>2. i \in todo /\ i \in Ids /\ journal[i] = "applied" /\ \A j \in todo : journal[j] = "applied"
  BY <1>1, MinExists DEF Calm, Loops
<1>3. /\ latest' = [journal EXCEPT ![i] = "committed"]
      /\ at' = At("journal", i, "committed", "commit") /\ todo' = todo \ {i}
  BY <1>1 DEF CommitRecord, SetStatus
<1> HIDE DEF i
<1>4. /\ Used' = Used /\ Prepared' = Prepared
      /\ \A p \in Paths : Accounted(p)' /\ Journaled(p)' = Journaled(p)
      /\ Statuses'
  <2>1. \A j \in Ids : Stuck(j) /\ InFlight(j)' => FALSE
    BY <1>2, <1>3 DEF Stuck, InFlight
  <2> QED BY <1>1, <1>3, <2>1, BetweenKeeps DEF Between, Used, Prepared
<1>5. Memory' /\ Writes' /\ Loops'
  BY <1>1, <1>2, <1>3 DEF Memory, Writes, Loops, Writing, InFlight
<1>6. OnePrepared'
  <2>1. marker' = {} => Prepared = {}
    BY <1>1 DEF Calm, OnePrepared, InFlight
  <2> QED BY <1>4, <2>1 DEF OnePrepared
<1>7. Untouched'
  BY <1>1, <1>3, <1>4 DEF Calm, Untouched, Writing
<1> QED BY <1>4, <1>5, <1>6, <1>7 DEF Calm

\* A new record: it has no status yet, and is the newest.
LEMMA PrepareCalm ==
    ASSUME Shape, Calm, Final, UNCHANGED windows, NEW p \in Paths, NEW c \in States, Prepare(p, c)
    PROVE  Calm'
<1> USE DEF Idle, At
<1> DEFINE m == [path |-> p, before |-> file[p], after |-> c]
<1>0. PICK n : n = NextId
  OBVIOUS
<1>1. /\ at.step = "open" /\ n \in Ids /\ latest = journal
      /\ mutation' = [mutation EXCEPT ![n] = m]
      /\ latest' = [latest EXCEPT ![n] = "prepared"]
      /\ at' = At("journal", n, "prepared", "effect")
      /\ UNCHANGED <<file, original, journal, marker, undoing, faults, todo>>
  BY <1>0 DEF Prepare, SetStatus, Calm, Memory
<1>2. Used' = Used \cup {n} /\ n \notin Used /\ \A j \in Used : j < n
  BY <1>0, PrepareShape
<1>3. journal[n] = "none" /\ mutation'[n] = m /\ \A j \in Ids \ {n} : mutation'[j] = mutation[j]
  BY <1>1, <1>2 DEF Calm, Statuses, Shape, TypeOK
<1> HIDE DEF m
<1>4. Prepared' = Prepared
  BY <1>1 DEF Prepared
<1>5. Statuses'
  BY <1>1, <1>2 DEF Calm, Statuses
<1>6. Memory'
  BY <1>1 DEF Memory
<1>7. Writes'
  <2>1. Newest(n)'
    <3>1. n \in Int
      BY <1>1, FiniteIds
    <3>2. \A j \in Used : j \in Int
      BY FiniteIds DEF Used
    <3> QED BY <1>2, <3>1, <3>2 DEF Newest
  <2>2. file'[mutation'[n].path] = mutation'[n].before
    BY <1>1, <1>3 DEF m
  <2>3. n \in Used' /\ journal'[n] = "none"
    BY <1>1, <1>2, <1>3
  <2>4. /\ at'.step = "journal" /\ at'.id = n
        /\ at'.status = "prepared" /\ at'.return = "effect"
    BY <1>1
  <2> QED BY <2>1, <2>2, <2>3, <2>4 DEF Writes
<1>8. OnePrepared'
  <2>1. marker' = {} => Prepared = {}
    BY <1>1 DEF Calm, OnePrepared, InFlight
  <2> QED BY <1>4, <2>1 DEF OnePrepared
<1>9. Loops'
  BY <1>1 DEF Loops, Writing
<1>10. \A q \in Paths : LiveOn(q)' = LiveOn(q) /\ Journaled(q)' = Journaled(q)
  <2> SUFFICES ASSUME NEW q \in Paths
               PROVE  LiveOn(q)' = LiveOn(q) /\ Journaled(q)' = Journaled(q)
    OBVIOUS
  <2>1. LiveOn(q)' = LiveOn(q)
    BY <1>1, <1>3 DEF LiveOn, LiveStatus
  <2> DEFINE applied == {i \in Ids : mutation[i].path = q /\ journal[i] \in {"applied", "committed"}}
  <2>2. applied' = applied
    BY <1>1, <1>3
  <2>3. applied # {} => Max(applied) \in Ids \ {n}
    BY <1>3, MaxExists
  <2>4. applied # {} => mutation'[Max(applied)] = mutation[Max(applied)]
    BY <2>3, <1>3
  <2>5. Journaled(q) = IF applied = {} THEN original[q] ELSE mutation[Max(applied)].after
    BY DEF Journaled
  <2>6. Journaled(q)' = IF applied' = {} THEN original'[q] ELSE mutation'[Max(applied')].after
    BY DEF Journaled
  <2> HIDE DEF applied
  <2>7. Journaled(q)' = Journaled(q)
    BY <1>1, <2>2, <2>4, <2>5, <2>6
  <2> QED BY <2>1, <2>7
<1>11. \A q \in Paths : Accounted(q)'
  <2> SUFFICES ASSUME NEW q \in Paths PROVE Accounted(q)'
    OBVIOUS
  <2>1. Accounted(q)
    BY DEF Calm
  <2>2. \A i \in LiveOn(q) : i \in Ids /\ i # n
    BY <1>3 DEF LiveOn, LiveStatus
  <2>3. \A i \in LiveOn(q) : Stuck(i) => Stuck(i)'
    BY <1>1, <2>2 DEF Stuck, InFlight
  <2>4. \A i \in LiveOn(q) : mutation'[i] = mutation[i]
    BY <2>2, <1>3
  <2> QED BY <1>1, <1>10, <2>1, <2>2, <2>3, <2>4 DEF Accounted
<1>12. Untouched'
  <2>1. \A i \in Prepared : mutation'[i] = mutation[i]
    BY <1>3 DEF Prepared
  <2> QED BY <1>1, <1>4, <1>10, <2>1 DEF Calm, Untouched, Writing
<1> QED BY <1>5, <1>6, <1>7, <1>8, <1>9, <1>11, <1>12 DEF Calm

\* The effect of the record at hand: only its file changes.
LEMMA EffectCalm ==
    ASSUME Shape, Calm, Shape', DeleteBeforeRename \/ Apply
    PROVE  Calm'
<1> USE DEF Idle, At
<1> DEFINE i == at.id
           p == mutation[i].path
<1>1. /\ at.step = "effect" /\ i \in Ids /\ latest = journal /\ journal[i] = "prepared"
      /\ UNCHANGED <<original, mutation, journal, marker, undoing, faults, todo>>
  BY DEF DeleteBeforeRename, Apply, Shape, Calm, Memory, Writes
<1>2. i \in LiveOn(p) /\ p \in Paths
  BY <1>1, HandIsLive
<1>3. \A q \in Paths \ {p} : file'[q] = file[q]
  BY <1>2 DEF DeleteBeforeRename, Apply, Shape, TypeOK
<1>4. \/ at' = at /\ latest' = latest
      \/ /\ at' = At("journal", i, "applied", "open") /\ latest' = [latest EXCEPT ![i] = "applied"]
         /\ file'[p] = mutation[i].after
  BY <1>2 DEF DeleteBeforeRename, Apply, SetStatus, Shape, TypeOK
<1> HIDE DEF i, p
<1>5. at'.id = i /\ at'.step \in {"effect", "journal"}
  BY <1>1, <1>4 DEF i
<1>6. /\ Used' = Used /\ Prepared' = Prepared
      /\ \A q \in Paths : Accounted(q)' /\ Journaled(q)' = Journaled(q)
      /\ Statuses'
  <2>1. Used' = Used /\ Prepared' = Prepared
    BY <1>1 DEF Used, Prepared
  <2>2. \A j \in Ids : InFlight(j)' => InFlight(j)
    BY <1>1, <1>5 DEF InFlight, i
  <2>3. \A j \in Ids : Stuck(j) /\ InFlight(j)' => FALSE
    BY <2>2 DEF Stuck
  <2>4. \A q \in Paths : file'[q] = file[q] \/ LiveOn(q) # {}
    BY <1>2, <1>3
  <2>5. \A q \in Paths : Accounted(q)'
    BY <1>1, <2>3, <2>4, AccountedKept DEF Calm
  <2>6. \A q \in Paths : Journaled(q)' = Journaled(q)
    BY <1>1, JournaledKept
  <2>7. Statuses'
    BY <1>1, <1>5, <2>1 DEF Calm, Statuses
  <2> QED BY <2>1, <2>5, <2>6, <2>7
<1>7. Memory'
  BY <1>1, <1>4, <1>5 DEF Memory
<1>8. Writes'
  BY <1>1, <1>4, <1>5 DEF Writes, p
<1>9. OnePrepared'
  <2>1. \A j \in Ids : InFlight(j) => InFlight(j)'
    BY <1>1, <1>5 DEF InFlight, i
  <2> QED BY <1>1, <1>6, <2>1 DEF Calm, OnePrepared, Newest, Prepared
<1>10. Loops'
  BY <1>1, <1>4 DEF Loops, Writing
<1>11. Untouched'
  <2>1. i \in Prepared /\ mutation[i].path = p
    BY <1>1 DEF Prepared, p
  <2>2. ~undoing => \A q \in Paths : (\A j \in Prepared : mutation[j].path # q) => file'[q] = Journaled(q)
    BY <1>3, <2>1 DEF Calm, Untouched
  <2>3. Writing' => at'.return # "rollback"
    BY <1>1, <1>4 DEF Writing
  <2> QED BY <1>1, <1>5, <1>6, <2>2, <2>3 DEF Calm, Untouched
<1> QED BY <1>6, <1>7, <1>8, <1>9, <1>10, <1>11 DEF Calm

LEMMA RestoreCalm ==
    ASSUME Shape, Calm, Shape', DeleteBeforeRestore \/ Restore
    PROVE  Calm'
<1> USE DEF Idle, At
<1> DEFINE i == at.id
           p == mutation[i].path
<1>1. /\ at.step = "restore" /\ i \in Ids /\ latest = journal /\ undoing
      /\ AppliedIds(journal) = todo \cup {i} /\ \A j \in todo : j < i
      /\ UNCHANGED <<original, mutation, journal, marker, undoing, faults, todo>>
  BY DEF DeleteBeforeRestore, Restore, Shape, TypeOK, Calm, Memory, Loops, Untouched
<1>2. i \in LiveOn(p) /\ p \in Paths /\ journal[i] \in {"applied", "committed"}
  BY <1>1, HandIsLive DEF AppliedIds
<1>3. \A q \in Paths \ {p} : file'[q] = file[q]
  BY <1>2 DEF DeleteBeforeRestore, Restore, Shape, TypeOK
<1>4. \/ at' = at /\ latest' = latest
      \/ /\ at' = At("journal", i, "rolled_back", "rollback")
         /\ latest' = [latest EXCEPT ![i] = "rolled_back"]
         /\ file'[p] = mutation[i].before
  BY <1>2 DEF DeleteBeforeRestore, Restore, SetStatus, Shape, TypeOK
<1> HIDE DEF i, p
<1>5. at'.id = i /\ at'.step \in {"restore", "journal"}
  BY <1>1, <1>4 DEF i
<1>6. Used' = Used /\ Prepared' = Prepared
  BY <1>1 DEF Used, Prepared
<1>7. \A q \in Paths : Accounted(q)'
  <2>1. \A j \in Ids : Stuck(j) /\ InFlight(j)' => FALSE
    BY <1>2, <1>5 DEF Stuck, InFlight
  <2>2. \A q \in Paths : file'[q] = file[q] \/ LiveOn(q) # {}
    BY <1>2, <1>3
  <2> QED BY <1>1, <2>1, <2>2, AccountedKept DEF Calm
<1>8. Statuses'
  BY <1>1, <1>5, <1>6 DEF Calm, Statuses
<1>9. Memory'
  BY <1>1, <1>4, <1>5 DEF Memory
<1>10. Writes'
  BY <1>1, <1>2, <1>4, <1>5 DEF Writes, p
<1>11. OnePrepared'
  <2>1. marker' = {} => Prepared = {}
    BY <1>1 DEF Calm, OnePrepared, InFlight
  <2> QED BY <1>6, <2>1 DEF OnePrepared
<1>12. Loops'
  <2>1. AppliedIds(journal)' = todo' \cup {at'.id} /\ \A j \in todo' : j < at'.id
    BY <1>1, <1>5 DEF AppliedIds
  <2> QED BY <1>1, <1>4, <2>1 DEF Loops, Writing
<1>13. Untouched'
  BY <1>1 DEF Untouched
<1> QED BY <1>7, <1>8, <1>9, <1>10, <1>11, <1>12, <1>13 DEF Calm

-----------------------------------------------------------------------------
(* Calm: the journal line, where the project and the journal meet again. *)

\* What holds of the record being written, whatever its status.
LEMMA WriteFacts ==
    ASSUME Shape, Calm, WriteJournal, NEW i, i = at.id
    PROVE  /\ at.step = "journal" /\ i \in Ids /\ i \in Used
           /\ at' = [at EXCEPT !.step = "table"] /\ at'.id = i /\ at'.step = "table"
           /\ at'.status = at.status /\ at'.return = at.return
           /\ journal' = [journal EXCEPT ![i] = at.status] /\ journal'[i] = at.status
           /\ \A j \in Ids \ {i} : journal'[j] = journal[j]
           /\ mutation[i].path \in Paths
           /\ \A j \in Prepared : marker = {} => j = i
           /\ \A j \in Ids \ {i} : Stuck(j) <=> Stuck(j)'
           /\ ~Stuck(i)
           /\ UNCHANGED <<file, original, mutation, latest, marker, undoing, faults, todo>>
<1>1. /\ at.step = "journal" /\ i \in Ids
      /\ at' = [at EXCEPT !.step = "table"]
      /\ journal' = [journal EXCEPT ![i] = at.status]
      /\ UNCHANGED <<file, original, mutation, latest, marker, undoing, faults, todo>>
  BY DEF WriteJournal, Shape
<1>2. /\ at'.id = i /\ at'.step = "table" /\ at'.status = at.status /\ at'.return = at.return
  BY <1>1 DEF Shape, TypeOK
<1>3. journal'[i] = at.status /\ \A j \in Ids \ {i} : journal'[j] = journal[j]
  BY <1>1 DEF Shape, TypeOK
<1>4. i \in Used
  BY <1>1 DEF Calm, Writes, Statuses
<1>5. mutation[i].path \in Paths
  BY <1>4 DEF Used
<1>6. \A j \in Prepared : marker = {} => j = i
  BY <1>1 DEF Calm, OnePrepared, InFlight
<1>7. \A j \in Ids \ {i} : Stuck(j) <=> Stuck(j)'
  BY <1>1, <1>2, <1>3 DEF Stuck, InFlight
<1>8. ~Stuck(i)
  BY <1>1 DEF Stuck, InFlight
<1> QED BY <1>1, <1>2, <1>3, <1>4, <1>5, <1>6, <1>7, <1>8

\* A file of another record keeps its live records and what the journal says of it.
LEMMA WriteElsewhere ==
    ASSUME Shape, Calm, WriteJournal, NEW q \in Paths, q # mutation[at.id].path
    PROVE  LiveOn(q)' = LiveOn(q) /\ Journaled(q)' = Journaled(q) /\ Accounted(q)'
<1> DEFINE i == at.id
<1>1. /\ i \in Ids /\ mutation[i].path # q
      /\ \A j \in Ids \ {i} : journal'[j] = journal[j] /\ (Stuck(j) => Stuck(j)')
      /\ UNCHANGED <<file, original, mutation>>
  BY WriteFacts
<1> HIDE DEF i
<1>2. LiveOn(q)' = LiveOn(q) /\ \A j \in LiveOn(q) : j \in Ids \ {i}
  BY <1>1 DEF LiveOn
<1>3. Journaled(q)' = Journaled(q)
  <2> DEFINE S == {j \in Ids : mutation[j].path = q /\ journal[j] \in {"applied", "committed"}}
  <2>1. S' = S
    BY <1>1
  <2>2. Journaled(q) = IF S = {} THEN original[q] ELSE mutation[Max(S)].after
    BY DEF Journaled
  <2>3. Journaled(q)' = IF S' = {} THEN original'[q] ELSE mutation'[Max(S')].after
    BY DEF Journaled
  <2> HIDE DEF S
  <2> QED BY <1>1, <2>1, <2>2, <2>3
<1>4. Accounted(q)'
  <2>1. Accounted(q)
    BY DEF Calm
  <2>2. \A j \in LiveOn(q) : Stuck(j) => Stuck(j)'
    BY <1>1, <1>2
  <2> QED BY <1>1, <1>2, <2>1, <2>2 DEF Accounted
<1> QED BY <1>2, <1>3, <1>4

\* A status that leaves the record applied or not applied, as it was, leaves what the
\* journal says of its file.
LEMMA WriteSameSide ==
    ASSUME Shape, Calm, WriteJournal,
           journal[at.id] \in {"applied", "committed"} <=> at.status \in {"applied", "committed"}
    PROVE  \A q \in Paths : Journaled(q)' = Journaled(q)
<1> SUFFICES ASSUME NEW q \in Paths PROVE Journaled(q)' = Journaled(q)
  OBVIOUS
<1> DEFINE S == {j \in Ids : mutation[j].path = q /\ journal[j] \in {"applied", "committed"}}
           i == at.id
<1>1. /\ i \in Ids /\ journal'[i] = at.status /\ UNCHANGED <<mutation, original>>
      /\ \A j \in Ids \ {i} : journal'[j] = journal[j]
  BY WriteFacts
<1>2. \A j \in Ids : journal[j] \in {"applied", "committed"} <=> journal'[j] \in {"applied", "committed"}
  BY <1>1
<1>3. S' = S
  BY <1>1, <1>2
<1>4. Journaled(q) = IF S = {} THEN original[q] ELSE mutation[Max(S)].after
  BY DEF Journaled
<1>5. Journaled(q)' = IF S' = {} THEN original'[q] ELSE mutation'[Max(S')].after
  BY DEF Journaled
<1> HIDE DEF S
<1> QED BY <1>1, <1>3, <1>4, <1>5

\* Without a rollback the record being written is the newest, or was applied already.
LEMMA NewestIsMax ==
    ASSUME Shape, Calm, NEW i \in Ids, NEW S, S \subseteq Used, i \in S, Newest(i)
    PROVE  Max(S) = i
<1>1. S \subseteq Int
  BY FiniteIds DEF Used
<1>2. \A j \in S : j <= i
  BY DEF Newest
<1> QED BY <1>1, <1>2, MaxIs

\* The parts that do not depend on which status is written.
LEMMA WriteJournalPlain ==
    ASSUME Shape, Calm, Shape', WriteJournal
    PROVE  Statuses' /\ Memory' /\ Writes' /\ Loops'
<1>0. PICK i : i = at.id
  OBVIOUS
<1>1. /\ at.step = "journal" /\ i \in Ids /\ i \in Used
      /\ at'.id = i /\ at'.step = "table"
      /\ at'.status = at.status /\ at'.return = at.return
      /\ journal' = [journal EXCEPT ![i] = at.status] /\ journal'[i] = at.status
      /\ \A j \in Ids \ {i} : journal'[j] = journal[j]
      /\ UNCHANGED <<file, original, mutation, latest, marker, undoing, faults, todo>>
  BY <1>0, WriteFacts
<1>2. \/ at.status = "prepared" /\ at.return = "effect"
      \/ at.status = "applied" /\ at.return \in {"open", "begin"}
      \/ at.status = "abandoned" /\ at.return = "begin"
      \/ at.status = "committed" /\ at.return = "commit"
      \/ at.status = "rolled_back" /\ at.return = "rollback"
  BY <1>1 DEF Calm, Writes
<1>3. Statuses'
  <2>1. Used' = Used
    BY <1>1 DEF Used
  <2>2. \A j \in Ids : journal'[j] \in LiveStatus \cup {"none", "rolled_back", "abandoned"}
    BY <1>1, <1>2 DEF Calm, Statuses, LiveStatus
  <2>3. \A j \in Ids \ Used : journal'[j] = "none"
    BY <1>1 DEF Calm, Statuses
  <2> QED BY <1>1, <2>1, <2>2, <2>3 DEF Statuses
<1>4. Memory'
  BY <1>0, <1>1 DEF Calm, Memory
<1>5. Writes'
  BY <1>1, <1>2 DEF Writes
<1>6. Loops'
  <2>1. ASSUME at.return = "rollback" PROVE AppliedIds(journal') = todo
    <3>1. /\ AppliedIds(journal) = todo \cup {i} /\ \A j \in todo : j < i
          /\ at.status = "rolled_back" /\ todo \subseteq Ids
      BY <1>0, <1>1, <1>2, <2>1 DEF Calm, Loops, Shape, TypeOK
    <3>2. i \notin todo
      <4>1. i \in Int
        BY <1>1, FiniteIds
      <4> QED BY <3>1, <4>1
    <3> QED BY <1>1, <3>1, <3>2 DEF AppliedIds
  <2>2. ASSUME at.return = "commit" PROVE \A j \in todo : journal'[j] = "applied" /\ j # i
    <3>1. \A j \in todo : journal[j] = "applied" /\ j \in Ids /\ j # i
      BY <1>0, <1>1, <2>2 DEF Calm, Loops, Writing, InFlight, Shape, TypeOK
    <3> QED BY <1>1, <3>1
  <2> QED BY <1>1, <2>1, <2>2 DEF Loops, Writing, InFlight, AppliedIds
<1> QED BY <1>3, <1>4, <1>5, <1>6

\* The intent: the record joins the live ones as the newest.
LEMMA WritePrepared ==
    ASSUME Shape, Calm, Final, WriteJournal, at.status = "prepared"
    PROVE  OnePrepared' /\ Untouched' /\ \A p \in Paths : Accounted(p)'
<1>0. PICK i, p : i = at.id /\ p = mutation[i].path
  OBVIOUS
<1>1. /\ at.step = "journal" /\ i \in Ids /\ i \in Used /\ p \in Paths
      /\ at'.id = i /\ at'.step = "table" /\ at'.return = at.return
      /\ journal'[i] = "prepared" /\ \A j \in Ids \ {i} : journal'[j] = journal[j]
      /\ \A j \in Prepared : marker = {} => j = i
      /\ \A j \in Ids \ {i} : Stuck(j) <=> Stuck(j)'
      /\ ~Stuck(i)
      /\ UNCHANGED <<file, original, mutation, marker, undoing>>
  BY <1>0, WriteFacts
<1>2. /\ journal[i] = "none" /\ Newest(i) /\ file[p] = mutation[i].before /\ at.return = "effect"
  BY <1>0, <1>1 DEF Calm, Writes
<1>3. Used' = Used /\ Prepared' = Prepared \cup {i} /\ (marker = {} => Prepared = {})
  BY <1>1, <1>2 DEF Used, Prepared
<1>4. OnePrepared'
  <2>1. InFlight(i)'
    BY <1>1 DEF InFlight
  <2> QED BY <1>1, <1>2, <1>3, <2>1 DEF OnePrepared, Newest
<1>5. \A q \in Paths : Journaled(q)' = Journaled(q)
  BY <1>0, <1>2, WriteSameSide
<1>6. Untouched'
  <2>1. ~undoing => marker = {}
    <3>1. ~Committed
      BY <1>1 DEF Final
    <3> QED BY <3>1 DEF Calm, Untouched, Committed, Shape, TypeOK
  <2>2. ~undoing => \A q \in Paths : file[q] = Journaled(q)
    BY <1>3, <2>1 DEF Calm, Untouched
  <2>3. ~undoing => \A q \in Paths :
                       /\ \A j \in Prepared' : mutation'[j].path = q => mutation'[j].before = Journaled(q)'
                       /\ file'[q] = Journaled(q)'
    BY <1>0, <1>1, <1>2, <1>3, <1>5, <2>1, <2>2
  <2>4. /\ undoing' = undoing /\ at'.step = "table" /\ at'.return = "effect"
        /\ ~undoing => "ROLLED_BACK" \notin marker'
    BY <1>1, <1>2 DEF Calm, Untouched
  <2> QED BY <2>3, <2>4 DEF Untouched, Writing
<1>7. \A q \in Paths : Accounted(q)'
  <2>1. LiveOn(p)' = LiveOn(p) \cup {i} /\ i \notin LiveOn(p)
    BY <1>0, <1>1, <1>2 DEF LiveOn, LiveStatus
  <2>2. Accounted(p)
    BY <1>1 DEF Calm
  <2>3. Accounted(p)'
    <3>1. CASE \E j \in LiveOn(p) : Stuck(j)
      BY <1>1, <2>1, <3>1 DEF Accounted, LiveOn
    <3>2. CASE LiveOn(p) = {}
      <4>1. mutation[i].before = original[p]
        BY <1>2, <2>2, <3>2 DEF Accounted
      <4> QED BY <1>1, <2>1, <3>2, <4>1 DEF Accounted
    <3>3. CASE LiveOn(p) # {} /\ \A j \in LiveOn(p) : ~Stuck(j)
      <4>1. \A j \in LiveOn(p) : j < i /\ ~(i <= j)
        <5>1. \A j \in LiveOn(p) : j \in Used /\ j \in Ids
          BY DEF LiveOn, LiveStatus, Calm, Statuses
        <5>2. \A j \in LiveOn(p) : j <= i /\ j # i
          BY <5>1, <1>2, <2>1 DEF Newest
        <5>3. i \in Int /\ \A j \in Ids : j \in Int
          BY <1>1, FiniteIds
        <5>4. \A j \in LiveOn(p) : j \in Int
          BY <5>1, <5>3
        <5> QED BY <5>2, <5>3, <5>4
      <4>2. \A j \in LiveOn(p) : (\A k \in LiveOn(p) : j <= k) => mutation[j].before = original[p]
        BY <2>2, <3>3 DEF Accounted
      <4>3. ~(\A k \in LiveOn(p)' : i <= k) /\ LiveOn(p)' # {}
        BY <2>1, <3>3, <4>1
      <4>4. \A j \in LiveOn(p)' : (\A k \in LiveOn(p)' : j <= k) => mutation'[j].before = original'[p]
        BY <1>1, <2>1, <4>2, <4>3
      <4> QED BY <4>3, <4>4 DEF Accounted
    <3> QED BY <3>1, <3>2, <3>3
  <2> QED BY <1>0, <2>3, WriteElsewhere
<1> QED BY <1>4, <1>6, <1>7

\* A record that stays live keeps every file accounted for.
LEMMA WriteStaysLive ==
    ASSUME Shape, Calm, WriteJournal, at.status \in {"applied", "committed"}
    PROVE  /\ \A p \in Paths : Accounted(p)'
           /\ OnePrepared'
<1>0. PICK i, p : i = at.id /\ p = mutation[i].path
  OBVIOUS
<1>1. /\ at.step = "journal" /\ i \in Ids /\ p \in Paths /\ at'.id = i /\ at'.step = "table"
      /\ journal'[i] = at.status /\ \A j \in Ids \ {i} : journal'[j] = journal[j]
      /\ \A j \in Prepared : marker = {} => j = i
      /\ \A j \in Ids \ {i} : Stuck(j) <=> Stuck(j)'
      /\ ~Stuck(i)
      /\ UNCHANGED <<file, original, mutation, marker>>
  BY <1>0, WriteFacts
<1>2. journal[i] \in LiveStatus
  BY <1>0, <1>1 DEF Calm, Writes, LiveStatus
<1>3. LiveOn(p)' = LiveOn(p)
  BY <1>1, <1>2 DEF LiveOn, LiveStatus
<1>4. Accounted(p)
  BY <1>1 DEF Calm
<1>5. Accounted(p)'
  BY <1>1, <1>3, <1>4 DEF Accounted, LiveOn
<1>6. marker' = {} => Prepared' = {}
  BY <1>1 DEF Prepared
<1> QED BY <1>0, <1>5, <1>6, WriteElsewhere DEF OnePrepared

\* The effect is in the journal: what it says of the file is the record's after.
LEMMA WriteApplied ==
    ASSUME Shape, Calm, Final, WriteJournal, at.status = "applied"
    PROVE  Untouched'
<1>0. PICK i, p : i = at.id /\ p = mutation[i].path
  OBVIOUS
<1>1. /\ at.step = "journal" /\ i \in Ids /\ p \in Paths /\ at'.step = "table" /\ at'.return = at.return
      /\ journal'[i] = "applied" /\ \A j \in Ids \ {i} : journal'[j] = journal[j]
      /\ \A j \in Prepared : marker = {} => j = i
      /\ UNCHANGED <<file, original, mutation, marker, undoing>>
  BY <1>0, WriteFacts
<1>2. journal[i] = "prepared" /\ at.return \in {"open", "begin"} /\ file[p] = mutation[i].after
  BY <1>0, <1>1 DEF Calm, Writes
<1> SUFFICES ASSUME ~undoing PROVE Untouched'
  BY <1>1 DEF Untouched
<1>3. marker = {}
  <2>1. ~Committed
    BY <1>1 DEF Final
  <2> QED BY <2>1 DEF Calm, Untouched, Committed, Shape, TypeOK
<1>4. Prepared' = {} /\ Newest(i)
  BY <1>1, <1>2, <1>3 DEF Prepared, Calm, OnePrepared
<1>5. Journaled(p)' = mutation[i].after
  <2> DEFINE S == {j \in Ids : mutation[j].path = p /\ journal[j] \in {"applied", "committed"}}
  <2>1. S' \subseteq Used /\ i \in S'
    BY <1>0, <1>1 DEF Used
  <2>2. Journaled(p)' = IF S' = {} THEN original'[p] ELSE mutation'[Max(S')].after
    BY DEF Journaled
  <2>3. Max(S') = i
    <3>1. PICK T : T = S'
      OBVIOUS
    <3> HIDE DEF S
    <3>2. Max(T) = i
      BY <1>1, <1>4, <2>1, <3>1, NewestIsMax
    <3> QED BY <3>1, <3>2
  <2> HIDE DEF S
  <2> QED BY <1>1, <2>1, <2>2, <2>3
<1>6. \A q \in Paths \ {p} : Journaled(q)' = Journaled(q) /\ file[q] = Journaled(q)
  <2>1. \A q \in Paths \ {p} : Journaled(q)' = Journaled(q)
    BY <1>0, WriteElsewhere
  <2>2. \A q \in Paths \ {p} : file[q] = Journaled(q)
    BY <1>0, <1>1, <1>3 DEF Calm, Untouched
  <2> QED BY <2>1, <2>2
<1>7. \A q \in Paths : file'[q] = Journaled(q)'
  BY <1>1, <1>2, <1>5, <1>6
<1> QED BY <1>1, <1>2, <1>3, <1>4, <1>7 DEF Untouched, Writing

LEMMA WriteCommitted ==
    ASSUME Shape, Calm, WriteJournal, at.status = "committed"
    PROVE  Untouched'
<1>0. PICK i : i = at.id
  OBVIOUS
<1>1. /\ at.step = "journal" /\ i \in Ids /\ at'.step = "table" /\ at'.return = at.return
      /\ journal'[i] = "committed" /\ \A j \in Ids \ {i} : journal'[j] = journal[j]
      /\ UNCHANGED <<file, original, mutation, marker, undoing>>
  BY <1>0, WriteFacts
<1>2. journal[i] = "applied" /\ at.return = "commit"
  BY <1>0, <1>1 DEF Calm, Writes
<1>3. Prepared' = Prepared
  BY <1>1, <1>2 DEF Prepared
<1>4. \A q \in Paths : Journaled(q)' = Journaled(q)
  BY <1>0, <1>2, WriteSameSide
<1> QED BY <1>1, <1>2, <1>3, <1>4 DEF Calm, Untouched, Writing

\* A crash left the record prepared and its effect was never made.
LEMMA WriteAbandoned ==
    ASSUME Shape, Calm, WriteJournal, at.status = "abandoned"
    PROVE  OnePrepared' /\ Untouched' /\ \A p \in Paths : Accounted(p)'
<1>0. PICK i, p : i = at.id /\ p = mutation[i].path
  OBVIOUS
<1>1. /\ at.step = "journal" /\ i \in Ids /\ i \in Used /\ p \in Paths
      /\ at'.step = "table" /\ at'.return = at.return
      /\ journal'[i] = "abandoned" /\ \A j \in Ids \ {i} : journal'[j] = journal[j]
      /\ \A j \in Prepared : marker = {} => j = i
      /\ UNCHANGED <<file, original, mutation, marker, undoing>>
  BY <1>0, WriteFacts
<1>2. /\ journal[i] = "prepared" /\ at.return = "begin" /\ marker = {}
      /\ file[p] = mutation[i].before
  BY <1>0, <1>1 DEF Calm, Writes
<1>3. Prepared' = {} /\ i \in Prepared /\ Newest(i)
  BY <1>1, <1>2 DEF Prepared, Calm, OnePrepared
<1>4. OnePrepared'
  BY <1>3 DEF OnePrepared
<1>5. Untouched'
  <2>1. \A q \in Paths : Journaled(q)' = Journaled(q)
    BY <1>0, <1>2, WriteSameSide
  <2>2. ~undoing => \A q \in Paths : file[q] = Journaled(q)
    BY <1>0, <1>1, <1>2, <1>3 DEF Calm, Untouched
  <2> QED BY <1>1, <1>2, <1>3, <2>1, <2>2 DEF Untouched, Writing
<1>6. Accounted(p)'
  <2>1. LiveOn(p) = LiveOn(p)' \cup {i} /\ i \notin LiveOn(p)'
    BY <1>0, <1>1, <1>2 DEF LiveOn, LiveStatus
  <2>2. /\ LiveOn(p) # {}
        /\ \A j \in LiveOn(p) : (\A k \in LiveOn(p) : j <= k) => mutation[j].before = original[p]
    BY <1>1, <1>2, <2>1 DEF Calm, Accounted, Stuck
  <2>3. \A j \in LiveOn(p) : j <= i
    <3>1. \A j \in LiveOn(p) : j \in Used
      BY DEF LiveOn, LiveStatus, Calm, Statuses
    <3> QED BY <1>3, <3>1 DEF Newest
  <2>4. LiveOn(p)' = {} => file'[p] = original'[p]
    <3> SUFFICES ASSUME LiveOn(p)' = {} PROVE file'[p] = original'[p]
      OBVIOUS
    <3>1. LiveOn(p) = {i}
      BY <2>1
    <3>2. mutation[i].before = original[p]
      BY <2>2, <2>3, <3>1
    <3> QED BY <1>1, <1>2, <3>2
  <2>5. \A j \in LiveOn(p)' : (\A k \in LiveOn(p)' : j <= k) => mutation'[j].before = original'[p]
    BY <1>1, <2>1, <2>2, <2>3
  <2> QED BY <2>4, <2>5 DEF Accounted
<1> QED BY <1>0, <1>4, <1>5, <1>6, WriteElsewhere

\* The file holds what the newest applied record had found, so the record before it is
\* now the newest, or the file is the original.
LEMMA WriteRolledBack ==
    ASSUME Shape, Calm, WriteJournal, at.status = "rolled_back"
    PROVE  OnePrepared' /\ Untouched' /\ \A p \in Paths : Accounted(p)'
<1>0. PICK i, p : i = at.id /\ p = mutation[i].path
  OBVIOUS
<1>1. /\ at.step = "journal" /\ i \in Ids /\ p \in Paths
      /\ journal'[i] = "rolled_back" /\ \A j \in Ids \ {i} : journal'[j] = journal[j]
      /\ \A j \in Prepared : marker = {} => j = i
      /\ \A j \in Ids \ {i} : Stuck(j) <=> Stuck(j)'
      /\ UNCHANGED <<file, original, mutation, marker, undoing>>
  BY <1>0, WriteFacts
<1>2. /\ journal[i] \in {"applied", "committed"} /\ at.return = "rollback"
      /\ file[p] = mutation[i].before
  BY <1>0, <1>1 DEF Calm, Writes
<1>3. AppliedIds(journal) = todo \cup {i} /\ \A j \in todo : j < i
  BY <1>0, <1>1, <1>2 DEF Calm, Loops
<1>4. undoing
  BY <1>1, <1>2 DEF Calm, Untouched, Writing
<1>5. OnePrepared'
  <2>1. marker' = {} => Prepared' = {}
    BY <1>1, <1>2 DEF Prepared
  <2> QED BY <2>1 DEF OnePrepared
<1>6. Untouched'
  BY <1>1, <1>4 DEF Untouched
<1>7. Accounted(p)'
  <2>1. LiveOn(p) = LiveOn(p)' \cup {i} /\ i \notin LiveOn(p)'
    BY <1>0, <1>1, <1>2 DEF LiveOn, LiveStatus
  <2>2. CASE \E j \in LiveOn(p) : Stuck(j)
    <3>1. ~Stuck(i)
      BY <1>2 DEF Stuck
    <3>2. PICK j \in LiveOn(p)' : Stuck(j)
      BY <2>1, <2>2, <3>1
    <3>3. j \in Ids \ {i}
      BY <2>1, <3>2 DEF LiveOn
    <3> QED BY <1>1, <3>2, <3>3 DEF Accounted
  <2>3. CASE \A j \in LiveOn(p) : ~Stuck(j)
    <3>1. /\ LiveOn(p) # {}
          /\ \A j \in LiveOn(p) : (\A k \in LiveOn(p) : j <= k) => mutation[j].before = original[p]
      BY <1>1, <2>1, <2>3 DEF Calm, Accounted
    <3>2. \A j \in LiveOn(p) : j \in todo \cup {i}
      <4>1. ASSUME NEW j \in LiveOn(p), journal[j] = "prepared" PROVE FALSE
        <5>1. j \in Prepared /\ j # i
          BY <1>2, <4>1 DEF LiveOn, Prepared
        <5>2. marker # {}
          BY <1>1, <5>1
        <5>3. ~InFlight(j)
          BY <1>0, <5>1 DEF InFlight
        <5> QED BY <2>3, <4>1, <5>2, <5>3 DEF Stuck
      <4> QED BY <1>3, <4>1 DEF LiveOn, LiveStatus, AppliedIds
    <3>3. \A j \in LiveOn(p) : j <= i
      <4>1. i \in Int /\ \A j \in Ids : j \in Int
        BY <1>1, FiniteIds
      <4>2. \A j \in LiveOn(p) : j \in Int
        BY <4>1 DEF LiveOn
      <4> QED BY <1>3, <3>2, <4>1, <4>2
    <3>4. LiveOn(p)' = {} => file'[p] = original'[p]
      <4> SUFFICES ASSUME LiveOn(p)' = {} PROVE file'[p] = original'[p]
        OBVIOUS
      <4>1. LiveOn(p) = {i}
        BY <2>1
      <4>2. mutation[i].before = original[p]
        BY <3>1, <3>3, <4>1
      <4> QED BY <1>1, <1>2, <4>2
    <3>5. \A j \in LiveOn(p)' : (\A k \in LiveOn(p)' : j <= k) => mutation'[j].before = original'[p]
      BY <1>1, <2>1, <3>1, <3>3
    <3> QED BY <3>4, <3>5 DEF Accounted
  <2> QED BY <2>2, <2>3
<1> QED BY <1>0, <1>5, <1>6, <1>7, WriteElsewhere

LEMMA WriteJournalCalm ==
    ASSUME Shape, Calm, Final, Shape', WriteJournal
    PROVE  Calm'
<1>1. at.status \in {"prepared", "applied", "committed", "abandoned", "rolled_back"}
  <2>1. at.step = "journal"
    BY DEF WriteJournal
  <2> QED BY <2>1 DEF Calm, Writes
<1>2. OnePrepared' /\ Untouched' /\ \A p \in Paths : Accounted(p)'
  BY <1>1, WritePrepared, WriteStaysLive, WriteApplied, WriteCommitted, WriteAbandoned,
     WriteRolledBack
<1> QED BY <1>2, WriteJournalPlain DEF Calm

-----------------------------------------------------------------------------
(* The invariant. *)

LEMMA CalmInit == Init => Calm
<1> SUFFICES ASSUME Init PROVE Calm
  OBVIOUS
<1>1. /\ original = file /\ mutation = [i \in Ids |-> NoMutation]
      /\ journal = [i \in Ids |-> "none"] /\ marker = {} /\ at.step = "closed"
  BY DEF Init, Idle, At
<1>2. Prepared = {} /\ \A p : LiveOn(p) = {}
  BY <1>1 DEF Prepared, LiveOn, LiveStatus
<1>3. \A p \in Paths : Journaled(p) = original[p]
  BY <1>1 DEF Journaled
<1>4. Statuses
  BY <1>1 DEF Statuses
<1>5. Memory /\ Writes /\ Loops /\ OnePrepared
  BY <1>1, <1>2 DEF Memory, Writes, Loops, OnePrepared, Writing
<1>6. Untouched
  BY <1>1, <1>2, <1>3 DEF Untouched, Writing
<1>7. \A p \in Paths : Accounted(p)
  BY <1>1, <1>2 DEF Accounted
<1> QED BY <1>4, <1>5, <1>6, <1>7 DEF Calm

LEMMA NoFault == Shape /\ Fault => faults' # 0
<1> SUFFICES ASSUME Shape, Fault PROVE faults' # 0
  OBVIOUS
<1>1. faults \in Nat /\ faults' = faults + 1
  BY TransactionAssumption DEF Fault, Shape, TypeOK
<1> QED BY <1>1

LEMMA CalmStep ==
    ASSUME TransactionInv, [Next]_vars, faults' = 0
    PROVE  Calm'
<1>1. Shape /\ Shape' /\ Final
  BY ShapeStep DEF TransactionInv
<1>2. ~EffectThrows /\ ~RestoreThrows /\ ~SetStatusThrows /\ ~MarkThrows
  BY <1>1, NoFault DEF EffectThrows, RestoreThrows, SetStatusThrows, MarkThrows
<1>3. CASE UNCHANGED vars
  <2>1. Calm
    BY <1>3 DEF TransactionInv, vars
  <2>2. UNCHANGED <<file, original, mutation, journal, marker, latest, records, todo, at, undoing>>
    BY <1>3 DEF vars, durable
  <2>3. Used' = Used /\ Prepared' = Prepared
    BY <2>2 DEF Used, Prepared
  <2>4. \A p \in Paths : Journaled(p)' = Journaled(p) /\ LiveOn(p)' = LiveOn(p)
    BY <2>2, JournaledKept DEF LiveOn
  <2>5. \A i \in Ids : Stuck(i)' = Stuck(i)
    BY <2>2 DEF Stuck, InFlight
  <2>6. \A p \in Paths : Accounted(p)'
    <3>1. \A p : LiveOn(p) \subseteq Ids
      BY DEF LiveOn
    <3> QED BY <2>1, <2>2, <2>4, <2>5, <3>1 DEF Calm, Accounted
  <2>7. Statuses' /\ Memory' /\ OnePrepared'
    BY <2>1, <2>2, <2>3 DEF Calm, Statuses, Memory, OnePrepared, AppliedIds, InFlight, Newest
  <2>8. Writes' /\ Loops'
    BY <2>1, <2>2, <2>3 DEF Calm, Writes, Loops, Writing, AppliedIds, InFlight, Newest
  <2>9. Untouched'
    BY <2>1, <2>2, <2>3, <2>4 DEF Calm, Untouched, Writing
  <2> QED BY <2>6, <2>7, <2>8, <2>9 DEF Calm
<1>4. CASE Next
  <2>1. faults = 0
    BY <1>2, <1>4 DEF Next, Step, WriteJournal, WriteTable, BeginTransaction, Opened,
       RecoverPrepared, Prepare, DeleteBeforeRename, Apply, Suspend, StartCommit, CommitRecord,
       MarkCommitted, StartRollback, RestoreNewest, DeleteBeforeRestore, Restore,
       MarkRolledBack, SaveFinalState, Crash
  <2>2. Calm
    BY <2>1 DEF TransactionInv
  <2>3. UNCHANGED windows
    BY <1>4 DEF Next
  <2>4. ASSUME NEW p \in Paths, NEW c \in States, Prepare(p, c) PROVE Calm'
    BY <1>1, <2>2, <2>3, <2>4, PrepareCalm
  <2> QED BY <1>1, <1>2, <1>4, <2>2, <2>4, WriteJournalCalm, WriteTableCalm, BeginCalm, LoopCalm,
             RecoverCalm, CommitRecordCalm, EffectCalm, RestoreCalm DEF Next, Step
<1> QED BY <1>3, <1>4

LEMMA InvInvariant == Spec => []TransactionInv
<1>1. Init => TransactionInv
  BY ShapeInit, FinalInit, CalmInit DEF TransactionInv
<1>2. TransactionInv /\ [Next]_vars => TransactionInv'
  BY ShapeStep, FinalStep, CalmStep DEF TransactionInv
<1> QED BY <1>1, <1>2, PTL DEF Spec

-----------------------------------------------------------------------------
(***************************************************************************)
(* One throwing step.  While the process does not crash and at most one    *)
(* step throws, what memory holds is still what the journal names, though  *)
(* the two may differ: a record whose last status was not written stays    *)
(* live, a rollback may leave it out, and then it keeps naming its file.   *)
(***************************************************************************)

\* Only records that were made have a status, and what memory calls applied the
\* journal has not undone.
NamesRecords ==
    /\ \A i \in Ids : i \notin Used => journal[i] = "none" /\ latest[i] = "none"
    /\ \A i \in AppliedIds(latest) : journal[i] \in LiveStatus

\* The status being written follows the one the journal has.
Follows ==
    /\ at.step = "effect" => journal[at.id] = "prepared" /\ latest[at.id] = "prepared"
    /\ at.step = "begin" => latest = journal
    /\ at.step = "restore" => journal[at.id] \in LiveStatus
    /\ at.step = "journal" =>
          LET i == at.id
              was == journal[i]
              holds == file[mutation[i].path]
          IN  /\ latest[i] = at.status /\ i \in Used
              /\ at.return = "begin" => latest = [journal EXCEPT ![i] = at.status]
              /\ \/ /\ at.status = "prepared" /\ at.return = "effect"
                    /\ was = "none" /\ Newest(i) /\ holds = mutation[i].before
                 \/ /\ at.status = "applied" /\ at.return \in {"open", "begin"}
                    /\ was = "prepared"
                 \/ at.status = "abandoned" /\ at.return \in {"open", "begin"}
                 \/ /\ at.status = "committed" /\ at.return = "commit"
                    /\ was \in LiveStatus
                 \/ /\ at.status = "rolled_back" /\ at.return = "rollback"
                    /\ was \in LiveStatus /\ holds = mutation[i].before
                 \/ at.status = "rollback_failed" /\ at.return = "closed"
    /\ at.step = "table" =>
          /\ journal[at.id] = at.status /\ latest[at.id] = at.status
          /\ at.return = "effect" <=> at.status = "prepared"
          /\ at.return = "begin" => latest = journal

AtWork ==
    \/ at.step \in {"open", "effect", "commit", "failed"}
    \/ Writing /\ at.return \in {"effect", "open", "commit"}

RollsBack ==
    \/ at.step \in {"rollback", "restore", "undone", "ended"}
    \/ Writing /\ at.return = "rollback"

\* What a commit or a rollback is to visit is applied, and a rollback goes down.
Lists ==
    /\ AtWork => records \subseteq AppliedIds(latest)
    /\ \/ at.step \in {"commit", "rollback", "restore"}
       \/ Writing /\ at.return \in {"commit", "rollback"}
       => todo \subseteq AppliedIds(latest)
    /\ at.step = "restore" \/ (Writing /\ at.return = "rollback") =>
          \A j \in todo : j < at.id

OnHand(i) == at.step \in {"restore", "journal", "table"} /\ at.id = i

\* A record that stays as it is names the file for good.
Named(p) == \E i \in Ids : mutation[i].path = p /\ journal[i] \in {"abandoned", "rollback_failed"}

\* The rollback under way will not undo a live record of the file.
LeftOut(p) == RollsBack /\ \E i \in LiveOn(p) : i \notin todo /\ ~OnHand(i)

\* The oldest live record of the file has saved the original; without one the file is
\* the original.
Traced(p) ==
    /\ LiveOn(p) = {} => file[p] = original[p]
    /\ \A i \in LiveOn(p) : (\A j \in LiveOn(p) : i <= j) => mutation[i].before = original[p]

Explained(p) == Named(p) \/ LeftOut(p) \/ Traced(p)

\* Before anything threw, a record is prepared only while its effect is under way, and
\* a marker ends the work.
Quiet ==
    /\ \A i \in Prepared : InFlight(i)
    /\ marker # {} => at.step \in IF Committed THEN {"closed", "begin"} ELSE {"undone", "ended"}

ThrowInv ==
    /\ NamesRecords /\ Follows /\ Lists
    /\ faults = 0 => Quiet
    /\ faults = 1 => \A p \in Paths : Explained(p)

AtMostOneThrow == crashes = 0 /\ faults \in {0, 1}

LEMMA ThrowInit == Init => ThrowInv
<1> SUFFICES ASSUME Init PROVE ThrowInv
  OBVIOUS
<1>1. /\ mutation = [i \in Ids |-> NoMutation] /\ at.step = "closed" /\ faults = 0 /\ marker = {}
      /\ journal = [i \in Ids |-> "none"] /\ latest = [i \in Ids |-> "none"]
  BY DEF Init, Idle, At
<1>2. Used = {} /\ AppliedIds(latest) = {} /\ Prepared = {}
  BY <1>1, TransactionAssumption DEF TransactionAssumption, Used, NoMutation, AppliedIds, Prepared
<1> QED BY <1>1, <1>2 DEF ThrowInv, NamesRecords, Follows, Lists, AtWork, Writing, Quiet

-----------------------------------------------------------------------------
(* What most steps leave alone. *)

\* A step that writes neither the journal nor a record, and touches only files that a
\* live record names.
LEMMA ExplainedStays ==
    ASSUME NEW p \in Paths, Explained(p), UNCHANGED <<original, mutation, journal>>,
           file'[p] = file[p] \/ LiveOn(p) # {}, LeftOut(p) => LeftOut(p)'
    PROVE  Explained(p)'
<1>1. LiveOn(p)' = LiveOn(p) /\ LiveOn(p) \subseteq Ids
  BY DEF LiveOn
<1>2. Named(p) => Named(p)'
  BY DEF Named
<1>3. Traced(p) => Traced(p)'
  BY <1>1 DEF Traced
<1> QED BY <1>2, <1>3 DEF Explained

\* Steps that leave the project and what it is told by alone, but for the place in the loops.
LEMMA PlainSteps ==
    ASSUME Shape, ThrowInv, UNCHANGED <<original, mutation, journal, faults>>,
           \A p \in Paths : file'[p] = file[p] \/ LiveOn(p) # {},
           NamesRecords', Follows', Lists', faults = 0 => Quiet',
           RollsBack => RollsBack' /\ todo' \subseteq todo,
           RollsBack => \A i \in Ids : OnHand(i)' => OnHand(i) \/ i \in todo
    PROVE  ThrowInv'
<1>1. ASSUME faults = 1, NEW p \in Paths PROVE Explained(p)'
  <2>1. Explained(p)
    BY <1>1 DEF ThrowInv
  <2>2. LeftOut(p) => LeftOut(p)'
    <3>1. LiveOn(p)' = LiveOn(p) /\ LiveOn(p) \subseteq Ids
      BY DEF LiveOn
    <3> QED BY <3>1 DEF LeftOut
  <2> QED BY <2>1, <2>2, ExplainedStays
<1> QED BY <1>1 DEF ThrowInv

\* The records made and what memory says of them.
LEMMA NamesStay ==
    ASSUME NamesRecords, UNCHANGED <<mutation, journal>>,
           \A i \in Ids : i \notin Used => latest'[i] = "none",
           \A i \in AppliedIds(latest') : journal[i] \in LiveStatus
    PROVE  NamesRecords'
<1>1. Used' = Used
  BY DEF Used
<1>2. AppliedIds(latest)' = AppliedIds(latest')
  BY DEF AppliedIds
<1> QED BY <1>1, <1>2 DEF NamesRecords

-----------------------------------------------------------------------------
(* One throwing step: one lemma per step. *)

LEMMA TableThrown ==
    ASSUME Shape, Shape', ThrowInv, WriteTable
    PROVE  ThrowInv'
<1> USE DEF Idle, At
<1>1. /\ at.step = "table" /\ at.id \in Ids /\ at.return \in Returns
      /\ at' = IF at.return = "effect" THEN At("effect", at.id, "none", "none") ELSE Idle(at.return)
      /\ UNCHANGED <<file, original, mutation, journal, marker, latest, todo, undoing, crashes, faults>>
      /\ records' = AppliedIds(latest)
  BY DEF WriteTable, Shape
<1>2. /\ journal[at.id] = at.status /\ latest[at.id] = at.status
      /\ at.return = "effect" <=> at.status = "prepared"
      /\ at.return = "begin" => latest = journal
  BY <1>1 DEF ThrowInv, Follows
<1>3. NamesRecords'
  BY <1>1, NamesStay DEF ThrowInv, NamesRecords
<1>4. Follows'
  BY <1>1, <1>2 DEF Follows, Returns
<1>5. Lists'
  <2>1. AppliedIds(latest)' = AppliedIds(latest)
    BY <1>1 DEF AppliedIds
  <2>2. at'.step \notin {"restore", "journal", "table"}
    BY <1>1 DEF Returns
  <2>3. at'.step \in {"commit", "rollback"} => at.return \in {"commit", "rollback"}
    BY <1>1
  <2>4. at'.step \in {"commit", "rollback"} => todo \subseteq AppliedIds(latest)
    BY <1>1, <2>3 DEF ThrowInv, Lists, Writing
  <2> QED BY <1>1, <2>1, <2>2, <2>4 DEF Lists, Writing
<1>6. ASSUME faults = 0 PROVE Quiet'
  <2>1. \A i \in Prepared : i = at.id
    BY <1>1, <1>6 DEF ThrowInv, Quiet, InFlight
  <2>2. Prepared' = Prepared
    BY <1>1 DEF Prepared
  <2>3. \A i \in Prepared : at.status = "prepared"
    BY <1>2, <2>1 DEF Prepared
  <2>4. marker = {}
    BY <1>1, <1>6 DEF ThrowInv, Quiet
  <2>5. \A i \in Prepared : at'.step = "effect" /\ at'.id = i
    BY <1>1, <1>2, <2>1, <2>3
  <2> QED BY <2>2, <2>4, <1>1, <2>5 DEF Quiet, InFlight
<1>7. RollsBack => RollsBack' /\ \A i \in Ids : ~OnHand(i)'
  BY <1>1 DEF RollsBack, Writing, OnHand
<1> QED BY <1>1, <1>3, <1>4, <1>5, <1>6, <1>7, PlainSteps

LEMMA BeginThrown ==
    ASSUME Shape, Shape', ThrowInv, BeginTransaction \/ Opened \/ Suspend
    PROVE  ThrowInv'
<1> USE DEF Idle, At
<1>1. /\ UNCHANGED <<file, original, mutation, journal, marker, undoing, crashes, faults, todo>>
      /\ at.step \in {"closed", "begin", "open"} /\ at'.step \in {"closed", "begin", "open"}
      /\ at'.step = "begin" => latest' = journal
      /\ latest' \in {latest, journal}
      /\ at'.step = "open" => at.step = "begin" /\ records' = AppliedIds(latest) /\ latest' = latest
  <2>1. CASE BeginTransaction
    BY <2>1 DEF BeginTransaction, durable
  <2>2. CASE Opened
    BY <2>2 DEF Opened, durable
  <2>3. CASE Suspend
    BY <2>3 DEF Suspend, durable
  <2> QED BY <2>1, <2>2, <2>3
<1>2. NamesRecords'
  <2>1. \A i \in AppliedIds(journal) : journal[i] \in LiveStatus
    BY DEF AppliedIds, LiveStatus
  <2> QED BY <1>1, <2>1, NamesStay DEF ThrowInv, NamesRecords
<1>3. Follows'
  BY <1>1 DEF Follows
<1>4. Lists'
  BY <1>1 DEF Lists, AtWork, Writing, AppliedIds
<1>5. ASSUME faults = 0 PROVE Quiet'
  <2>1. Prepared' = Prepared /\ Prepared = {}
    BY <1>1, <1>5 DEF ThrowInv, Quiet, InFlight, Prepared
  <2>2. marker = {} \/ (Committed /\ at.step \in {"closed", "begin"})
    BY <1>1, <1>5 DEF ThrowInv, Quiet
  <2>3. Committed => at'.step \in {"closed", "begin"}
    BY <2>2, <1>1 DEF BeginTransaction, Opened, Suspend
  <2>4. Committed' = Committed
    BY <1>1 DEF Committed
  <2> QED BY <1>1, <2>1, <2>2, <2>3, <2>4 DEF Quiet
<1>6. ~RollsBack
  BY <1>1 DEF RollsBack, Writing
<1> QED BY <1>1, <1>2, <1>3, <1>4, <1>5, <1>6, PlainSteps


LEMMA RecoverThrown ==
    ASSUME Shape, Shape', ThrowInv, RecoverPrepared
    PROVE  ThrowInv'
<1> USE DEF Idle, At
<1>0. PICK i : i = Min(Unresolved)
  OBVIOUS
<1>1. /\ at.step = "begin" /\ i \in Ids /\ latest[i] = "prepared" /\ latest = journal
      /\ UNCHANGED <<file, original, mutation, journal, marker, undoing, crashes, faults, todo, records>>
  BY <1>0, MinExists DEF RecoverPrepared, Unresolved, durable, ThrowInv, Follows
<1>2. \/ \E s \in {"applied", "abandoned"} : /\ latest' = [latest EXCEPT ![i] = s]
                                            /\ at' = At("journal", i, s, "begin")
      \/ at' = Idle("closed") /\ latest' = latest
  BY <1>0 DEF RecoverPrepared, SetStatus
<1>3. i \in Used
  BY <1>1 DEF ThrowInv, NamesRecords
<1>4. NamesRecords'
  <2>1. \A j \in Ids : latest'[j] = latest[j] \/ (j = i /\ latest'[j] \in {"applied", "abandoned"})
    BY <1>1, <1>2 DEF Shape, TypeOK
  <2> QED BY <1>1, <1>3, <2>1, NamesStay DEF ThrowInv, NamesRecords, AppliedIds, LiveStatus
<1>5. Follows'
  BY <1>1, <1>2, <1>3 DEF Follows, Used, Shape, TypeOK
<1>6. Lists'
  BY <1>2 DEF Lists, AtWork, Writing
<1>7. ASSUME faults = 0 PROVE FALSE
  <2>1. i \in Prepared
    BY <1>1 DEF Prepared
  <2> QED BY <1>1, <1>7, <2>1 DEF ThrowInv, Quiet, InFlight
<1>8. ~RollsBack
  BY <1>1 DEF RollsBack, Writing
<1> QED BY <1>1, <1>4, <1>5, <1>6, <1>7, <1>8, PlainSteps

LEMMA PrepareThrown ==
    ASSUME Shape, Shape', ThrowInv, UNCHANGED windows, NEW p \in Paths, NEW c \in States, Prepare(p, c)
    PROVE  ThrowInv'
<1> USE DEF Idle, At
<1>0. PICK n : n = NextId
  OBVIOUS
<1>1. /\ at.step = "open" /\ n \in Ids /\ at' = At("journal", n, "prepared", "effect")
      /\ mutation' = [mutation EXCEPT ![n] = [path |-> p, before |-> file[p], after |-> c]]
      /\ latest' = [latest EXCEPT ![n] = "prepared"]
      /\ UNCHANGED <<file, original, journal, marker, undoing, crashes, faults, todo, records>>
  BY <1>0 DEF Prepare, SetStatus
<1>2. Used' = Used \cup {n} /\ n \notin Used /\ \A j \in Used : j < n
  BY <1>0, PrepareShape
<1>3. journal[n] = "none" /\ latest[n] = "none"
  BY <1>1, <1>2 DEF ThrowInv, NamesRecords
<1>4. AppliedIds(latest)' = AppliedIds(latest)
  BY <1>1, <1>3 DEF AppliedIds, Shape, TypeOK
<1>5. NamesRecords'
  BY <1>1, <1>2, <1>4 DEF ThrowInv, NamesRecords, Shape, TypeOK
<1>6. mutation'[n] = [path |-> p, before |-> file[p], after |-> c] /\ \A j \in Ids \ {n} : mutation'[j] = mutation[j]
  BY <1>1 DEF Shape, TypeOK
<1>7. Follows'
  <2>1. latest'[n] = "prepared"
    BY <1>1 DEF Shape, TypeOK
  <2>2. Newest(n)'
    <3>1. n \in Int /\ \A j \in Used : j \in Int
      BY <1>1, FiniteIds DEF Used
    <3> QED BY <1>2, <3>1 DEF Newest
  <2> QED BY <1>1, <1>2, <1>3, <1>6, <2>1, <2>2 DEF Follows
<1>8. Lists'
  BY <1>1, <1>4 DEF ThrowInv, Lists, AtWork, Writing
<1>9. ASSUME faults = 0 PROVE Quiet'
  <2>1. Prepared' = Prepared /\ Prepared = {} /\ marker = {}
    BY <1>1, <1>9 DEF ThrowInv, Quiet, InFlight, Prepared
  <2> QED BY <1>1, <2>1 DEF Quiet
<1>10. ASSUME faults = 1, NEW q \in Paths PROVE Explained(q)'
  <2>1. Explained(q) /\ ~LeftOut(q)
    BY <1>1, <1>10 DEF ThrowInv, LeftOut, RollsBack, Writing
  <2>2. \A j \in LiveOn(q) : j # n /\ j \in Ids
    BY <1>3 DEF LiveOn, LiveStatus
  <2>3. LiveOn(q)' = LiveOn(q)
    BY <1>1, <1>3, <1>6 DEF LiveOn, LiveStatus
  <2>4. Named(q) => Named(q)'
    BY <1>1, <1>3, <1>6 DEF Named
  <2>5. Traced(q) => Traced(q)'
    BY <1>1, <1>6, <2>2, <2>3 DEF Traced
  <2> QED BY <2>1, <2>4, <2>5 DEF Explained
<1> QED BY <1>1, <1>5, <1>7, <1>8, <1>9, <1>10 DEF ThrowInv

LEMMA EffectThrown ==
    ASSUME Shape, Shape', ThrowInv, DeleteBeforeRename \/ Apply
    PROVE  ThrowInv'
<1> USE DEF Idle, At
<1>0. PICK i, p : i = at.id /\ p = mutation[i].path
  OBVIOUS
<1>1. /\ at.step = "effect" /\ i \in Ids /\ journal[i] = "prepared" /\ latest[i] = "prepared"
      /\ UNCHANGED <<original, mutation, journal, marker, undoing, crashes, faults, todo, records>>
      /\ \E c : file' = [file EXCEPT ![p] = c]
      /\ \/ latest' = latest /\ at' = at
         \/ latest' = [latest EXCEPT ![i] = "applied"] /\ at' = At("journal", i, "applied", "open")
  BY <1>0 DEF DeleteBeforeRename, Apply, SetStatus, Shape, ThrowInv, Follows
<1>2. i \in Used
  BY <1>1 DEF ThrowInv, NamesRecords
<1>3. i \in LiveOn(p) /\ p \in Paths
  BY <1>0, <1>1, <1>2 DEF LiveOn, LiveStatus, Used
<1>4. \A j \in Ids : latest'[j] = latest[j] \/ (j = i /\ latest'[j] = "applied")
  BY <1>1 DEF Shape, TypeOK
<1>5. AppliedIds(latest) \subseteq AppliedIds(latest')
  BY <1>4 DEF AppliedIds
<1>6. NamesRecords'
  BY <1>1, <1>2, <1>4, NamesStay DEF ThrowInv, NamesRecords, AppliedIds, LiveStatus
<1>7. Follows'
  BY <1>0, <1>1, <1>2 DEF ThrowInv, Follows, Used, Shape, TypeOK
<1>8. Lists'
  <2>1. AppliedIds(latest)' = AppliedIds(latest')
    BY DEF AppliedIds
  <2>2. records \subseteq AppliedIds(latest)
    BY <1>1 DEF ThrowInv, Lists, AtWork
  <2>3. records' \subseteq AppliedIds(latest)'
    BY <1>1, <1>5, <2>1, <2>2
  <2> QED BY <1>1, <2>3 DEF Lists, AtWork, Writing
<1>9. ASSUME faults = 0 PROVE Quiet'
  <2>1. Prepared' = Prepared /\ marker = {} /\ \A j \in Prepared : j = i
    BY <1>0, <1>1, <1>9 DEF ThrowInv, Quiet, InFlight, Prepared
  <2> QED BY <1>0, <1>1, <2>1 DEF Quiet, InFlight
<1>10. \A q \in Paths : file'[q] = file[q] \/ LiveOn(q) # {}
  <2>1. \A q \in Paths : q # p => file'[q] = file[q]
    BY <1>1 DEF Shape, TypeOK
  <2> QED BY <1>3, <2>1
<1>11. ~RollsBack
  BY <1>1 DEF RollsBack, Writing
<1> QED BY <1>1, <1>6, <1>7, <1>8, <1>9, <1>10, <1>11, PlainSteps


\* The steps that only move a commit or a rollback along.
LEMMA LoopThrown ==
    ASSUME Shape, Shape', ThrowInv,
           \/ StartCommit \/ MarkCommitted \/ StartRollback \/ RestoreNewest
           \/ MarkRolledBack \/ SaveFinalState
    PROVE  ThrowInv'
<1> USE DEF Idle, At
<1>1. /\ UNCHANGED <<file, original, mutation, journal, latest, records, faults>>
      /\ at.step \in {"open", "failed", "commit", "rollback", "undone"}
  BY DEF StartCommit, MarkCommitted, StartRollback, RestoreNewest, MarkRolledBack, SaveFinalState, durable
<1>2. AppliedIds(latest)' = AppliedIds(latest) /\ todo \subseteq Ids
  BY <1>1 DEF AppliedIds, Shape, TypeOK
<1>3. NamesRecords'
  BY <1>1, NamesStay DEF ThrowInv, NamesRecords
<1>4. Follows' /\ Lists'
  <2>1. CASE StartCommit
    <3>1. records \subseteq AppliedIds(latest)
      BY <2>1 DEF StartCommit, ThrowInv, Lists, AtWork
    <3> QED BY <1>1, <1>2, <2>1, <3>1 DEF StartCommit, Follows, Lists, AtWork, Writing
  <2>2. CASE StartRollback
    <3>1. records \subseteq AppliedIds(latest)
      BY <2>2 DEF StartRollback, ThrowInv, Lists, AtWork
    <3> QED BY <1>1, <1>2, <2>2, <3>1 DEF StartRollback, Follows, Lists, AtWork, Writing
  <2>3. CASE RestoreNewest
    <3>1. at.step = "rollback" /\ at' = At("restore", Max(todo), "none", "none") /\ todo' = todo \ {Max(todo)}
      BY <2>3 DEF RestoreNewest
    <3>2. todo \subseteq AppliedIds(latest)
      BY <3>1 DEF ThrowInv, Lists
    <3>3. Max(todo) \in todo /\ \A j \in todo : Max(todo) >= j
      BY <1>2, <2>3, MaxExists DEF RestoreNewest
    <3>4. \A j \in todo : j \in Int
      BY <1>2, FiniteIds
    <3>5. \A j \in todo' : j < Max(todo)
      BY <3>1, <3>3, <3>4
    <3>6. journal[Max(todo)] \in LiveStatus
      BY <3>2, <3>3 DEF ThrowInv, NamesRecords
    <3> QED BY <1>1, <1>2, <3>1, <3>2, <3>5, <3>6 DEF Follows, Lists, AtWork, Writing
  <2>4. CASE MarkCommitted \/ MarkRolledBack \/ SaveFinalState
    BY <1>1, <2>4 DEF MarkCommitted, MarkRolledBack, SaveFinalState, Follows, Lists, AtWork, Writing
  <2> QED BY <2>1, <2>2, <2>3, <2>4
<1>5. ASSUME faults = 0 PROVE Quiet'
  <2>1. Prepared' = Prepared /\ Prepared = {}
    BY <1>1, <1>5 DEF ThrowInv, Quiet, InFlight, Prepared
  <2>2. IF at.step = "undone" THEN ~Committed ELSE marker = {}
    BY <1>1, <1>5 DEF ThrowInv, Quiet, Committed
  <2>3. marker' # {} => at'.step \in IF Committed' THEN {"closed", "begin"} ELSE {"undone", "ended"}
    BY <2>2 DEF StartCommit, MarkCommitted, StartRollback, RestoreNewest, MarkRolledBack, SaveFinalState,
                durable, Committed
  <2> QED BY <2>1, <2>3 DEF Quiet, Committed
<1>6. /\ RollsBack => RollsBack' /\ todo' \subseteq todo
      /\ RollsBack => \A i \in Ids : OnHand(i)' => OnHand(i) \/ i \in todo
  <2>1. CASE RestoreNewest
    <3>1. Max(todo) \in todo
      BY <1>2, <2>1, MaxExists DEF RestoreNewest
    <3> QED BY <2>1, <3>1 DEF RestoreNewest, RollsBack, OnHand
  <2>2. CASE MarkRolledBack \/ SaveFinalState
    BY <2>2 DEF MarkRolledBack, SaveFinalState, RollsBack, OnHand
  <2>3. CASE StartCommit \/ MarkCommitted \/ StartRollback
    BY <2>3 DEF StartCommit, MarkCommitted, StartRollback, RollsBack, Writing
  <2> QED BY <2>1, <2>2, <2>3
<1> QED BY <1>1, <1>3, <1>4, <1>5, <1>6, PlainSteps

LEMMA CommitRecordThrown ==
    ASSUME Shape, Shape', ThrowInv, CommitRecord
    PROVE  ThrowInv'
<1> USE DEF Idle, At
<1>0. PICK i : i = Min(todo)
  OBVIOUS
<1>1. /\ at.step = "commit" /\ i \in todo /\ todo' = todo \ {i} /\ todo \subseteq AppliedIds(latest)
      /\ latest' = [latest EXCEPT ![i] = "committed"] /\ at' = At("journal", i, "committed", "commit")
      /\ UNCHANGED <<file, original, mutation, journal, marker, undoing, crashes, faults, records>>
      /\ records \subseteq AppliedIds(latest)
  BY <1>0, MinExists DEF CommitRecord, SetStatus, durable, ThrowInv, Lists, AtWork, Shape, TypeOK
<1>2. i \in Ids /\ i \in AppliedIds(latest) /\ journal[i] \in LiveStatus
  BY <1>1 DEF ThrowInv, NamesRecords, AppliedIds
<1>3. i \in Used
  BY <1>2 DEF ThrowInv, NamesRecords, LiveStatus
<1>4. AppliedIds(latest') = AppliedIds(latest)
  BY <1>1, <1>2 DEF AppliedIds, Shape, TypeOK
<1>5. NamesRecords'
  BY <1>1, <1>3, <1>4, NamesStay DEF ThrowInv, NamesRecords, Shape, TypeOK
<1>6. Follows'
  BY <1>1, <1>2, <1>3 DEF Follows, Used, Shape, TypeOK
<1>7. Lists'
  BY <1>1, <1>4 DEF Lists, AtWork, Writing, AppliedIds
<1>8. ASSUME faults = 0 PROVE Quiet'
  <2>1. Prepared' = Prepared /\ Prepared = {} /\ marker = {}
    BY <1>1, <1>8 DEF ThrowInv, Quiet, InFlight, Prepared
  <2> QED BY <1>1, <2>1 DEF Quiet
<1>9. ~RollsBack
  BY <1>1 DEF RollsBack, Writing
<1> QED BY <1>1, <1>5, <1>6, <1>7, <1>8, <1>9, PlainSteps

LEMMA RestoreThrown ==
    ASSUME Shape, Shape', ThrowInv, DeleteBeforeRestore \/ Restore
    PROVE  ThrowInv'
<1> USE DEF Idle, At
<1>0. PICK i, p : i = at.id /\ p = mutation[i].path
  OBVIOUS
<1>1. /\ at.step = "restore" /\ i \in Ids /\ journal[i] \in LiveStatus
      /\ todo \subseteq AppliedIds(latest) /\ \A j \in todo : j < i
      /\ UNCHANGED <<original, mutation, journal, marker, undoing, crashes, faults, todo, records>>
      /\ \E c : file' = [file EXCEPT ![p] = c]
      /\ \/ latest' = latest /\ at' = at
         \/ /\ latest' = [latest EXCEPT ![i] = "rolled_back"] /\ at' = At("journal", i, "rolled_back", "rollback")
            /\ file' = [file EXCEPT ![p] = mutation[i].before]
  BY <1>0 DEF DeleteBeforeRestore, Restore, SetStatus, Shape, ThrowInv, Follows, Lists
<1>2. i \in Used
  BY <1>1 DEF ThrowInv, NamesRecords, LiveStatus
<1>3. i \in LiveOn(p) /\ p \in Paths
  BY <1>0, <1>1, <1>2 DEF LiveOn, Used
<1>4. \A j \in Ids : latest'[j] = latest[j] \/ (j = i /\ latest'[j] = "rolled_back")
  BY <1>1 DEF Shape, TypeOK
<1>5. NamesRecords'
  BY <1>1, <1>2, <1>4, NamesStay DEF ThrowInv, NamesRecords, AppliedIds
<1>6. Follows'
  <2>1. CASE at' = at
    <3>1. latest' = latest
      BY <1>1, <2>1
    <3>2. at'.step = "restore" /\ at'.id = i /\ journal'[i] \in LiveStatus
      BY <1>0, <1>1, <2>1
    <3> QED BY <3>2 DEF Follows
  <2>2. CASE at' # at
    <3>1. latest'[i] = "rolled_back" /\ file'[p] = mutation[i].before
      BY <1>1, <1>3, <2>2 DEF Shape, TypeOK
    <3> QED BY <1>0, <1>1, <1>2, <2>2, <3>1 DEF Follows, Used
  <2> QED BY <2>1, <2>2
<1>7. Lists'
  <2>1. i \notin todo
    <3>1. i \in Int
      BY <1>1, FiniteIds
    <3> QED BY <1>1, <3>1
  <2>2. todo \subseteq AppliedIds(latest)'
    BY <1>1, <1>4, <2>1 DEF AppliedIds
  <2> QED BY <1>0, <1>1, <2>2 DEF Lists, AtWork, Writing
<1>8. ASSUME faults = 0 PROVE Quiet'
  <2>1. Prepared' = Prepared /\ Prepared = {} /\ marker = {}
    BY <1>1, <1>8 DEF ThrowInv, Quiet, InFlight, Prepared
  <2> QED BY <1>1, <2>1 DEF Quiet
<1>9. \A q \in Paths : file'[q] = file[q] \/ LiveOn(q) # {}
  <2>1. \A q \in Paths : q # p => file'[q] = file[q]
    BY <1>1 DEF Shape, TypeOK
  <2> QED BY <1>3, <2>1
<1>10. RollsBack' /\ \A j \in Ids : OnHand(j)' => OnHand(j)
  BY <1>0, <1>1 DEF RollsBack, Writing, OnHand
<1> QED BY <1>1, <1>5, <1>6, <1>7, <1>8, <1>9, <1>10, PlainSteps

-----------------------------------------------------------------------------
(* One throwing step: the journal line. *)

\* The file of the record being written.
LEMMA WrittenExplained ==
    ASSUME Shape, Shape', ThrowInv, faults = 1, WriteJournal, NEW p, p = mutation[at.id].path, p \in Paths
    PROVE  Explained(p)'
<1>0. PICK i : i = at.id
  OBVIOUS
<1>1. /\ at.step = "journal" /\ i \in Ids /\ i \in Used /\ mutation[i].path = p
      /\ journal'[i] = at.status /\ \A j \in Ids \ {i} : journal'[j] = journal[j]
      /\ at' = [at EXCEPT !.step = "table"] /\ at'.step = "table" /\ at'.id = i /\ at'.return = at.return
      /\ UNCHANGED <<file, original, mutation, todo>>
  BY <1>0 DEF WriteJournal, Shape, TypeOK, ThrowInv, Follows
<1>2. Explained(p)
  BY DEF ThrowInv
<1>3. ASSUME journal[i] \in LiveStatus \cup {"none"}, Named(p) PROVE Named(p)'
  <2>1. PICK j \in Ids : mutation[j].path = p /\ journal[j] \in {"abandoned", "rollback_failed"}
    BY <1>3 DEF Named
  <2>2. j # i
    BY <1>3, <2>1 DEF LiveStatus
  <2> QED BY <1>1, <2>1, <2>2 DEF Named
<1>4. CASE at.status \in {"abandoned", "rollback_failed"}
  BY <1>1, <1>4 DEF Explained, Named
<1>5. CASE at.status \in {"applied", "committed"}
  <2>1. journal[i] \in LiveStatus /\ at.return \in {"open", "begin", "commit"}
    BY <1>0, <1>1, <1>5 DEF ThrowInv, Follows, LiveStatus
  <2>2. LiveOn(p)' = LiveOn(p)
    BY <1>1, <1>5, <2>1 DEF LiveOn, LiveStatus
  <2>3. ~LeftOut(p)
    BY <1>1, <2>1 DEF LeftOut, RollsBack
  <2>4. Traced(p) => Traced(p)'
    BY <1>1, <2>2 DEF Traced, LiveOn
  <2> QED BY <1>2, <1>3, <2>1, <2>3, <2>4 DEF Explained
<1>6. CASE at.status = "prepared"
  <2>1. journal[i] = "none" /\ Newest(i) /\ file[p] = mutation[i].before /\ at.return = "effect"
    BY <1>0, <1>1, <1>6 DEF ThrowInv, Follows
  <2>2. LiveOn(p)' = LiveOn(p) \cup {i} /\ i \notin LiveOn(p)
    BY <1>1, <1>6, <2>1 DEF LiveOn, LiveStatus
  <2>3. \A j \in LiveOn(p) : j \in Ids /\ j \in Used /\ j <= i
    BY <2>1 DEF ThrowInv, NamesRecords, LiveOn, LiveStatus, Newest
  <2>4. \A j \in LiveOn(p) \cup {i} : j \in Int
    BY <1>1, <2>3, FiniteIds
  <2>5. ~LeftOut(p)
    BY <1>1, <2>1 DEF LeftOut, RollsBack
  <2>6. ASSUME Traced(p) PROVE Traced(p)'
    <3>1. CASE LiveOn(p) = {}
      <4>1. LiveOn(p)' = {i} /\ mutation[i].before = original[p]
        BY <2>1, <2>2, <2>6, <3>1 DEF Traced
      <4> QED BY <1>1, <4>1 DEF Traced
    <3>2. CASE LiveOn(p) # {}
      <4>1. ASSUME NEW k \in LiveOn(p)', \A j \in LiveOn(p)' : k <= j PROVE mutation[k].before = original[p]
        <5>1. k # i
          <6>1. PICK j \in LiveOn(p) : TRUE
            BY <3>2
          <6>2. k <= j /\ j <= i /\ j # i
            BY <2>2, <2>3, <4>1, <6>1
          <6> QED BY <2>2, <2>4, <6>1, <6>2
        <5>2. k \in LiveOn(p) /\ \A j \in LiveOn(p) : k <= j
          BY <2>2, <4>1, <5>1
        <5> QED BY <2>6, <5>2 DEF Traced
      <4> QED BY <1>1, <2>2, <4>1 DEF Traced
    <3> QED BY <3>1, <3>2
  <2> QED BY <1>2, <1>3, <2>1, <2>5, <2>6 DEF Explained
<1>7. CASE at.status = "rolled_back"
  <2>1. /\ journal[i] \in LiveStatus /\ file[p] = mutation[i].before /\ at.return = "rollback"
        /\ \A j \in todo : j < i
    BY <1>0, <1>1, <1>7 DEF ThrowInv, Follows, Lists, Writing
  <2>2. LiveOn(p)' = LiveOn(p) \ {i} /\ i \in LiveOn(p) /\ LiveOn(p) \subseteq Ids
    BY <1>1, <1>7, <2>1 DEF LiveOn, LiveStatus
  <2>3. RollsBack' /\ \A j \in Ids : OnHand(j)' <=> j = i
    BY <1>1, <2>1 DEF RollsBack, Writing, OnHand
  <2>4. ASSUME NEW j \in LiveOn(p), j \notin todo, j # i PROVE LeftOut(p)'
    BY <1>1, <2>2, <2>3, <2>4 DEF LeftOut
  <2>5. LeftOut(p) => LeftOut(p)'
    BY <1>0, <1>1, <2>4 DEF LeftOut, OnHand
  <2>6. ASSUME Traced(p), ~LeftOut(p)' PROVE Traced(p)'
    <3>1. \A j \in LiveOn(p) : j = i \/ j < i
      BY <2>1, <2>4, <2>6
    <3>2. \A j \in LiveOn(p) : j \in Int
      <4>1. \A j \in Ids : j \in Int
        BY FiniteIds
      <4> QED BY <2>2, <4>1
    <3>3. CASE LiveOn(p) = {i}
      <4>1. mutation[i].before = original[p]
        BY <2>6, <3>2, <3>3 DEF Traced
      <4> QED BY <1>1, <2>1, <2>2, <3>3, <4>1 DEF Traced
    <3>4. CASE LiveOn(p) # {i}
      <4>1. PICK j \in LiveOn(p) : j < i
        BY <2>2, <3>1, <3>4
      <4>2. ASSUME NEW k \in LiveOn(p)', \A l \in LiveOn(p)' : k <= l PROVE mutation[k].before = original[p]
        <5>1. k \in LiveOn(p) /\ k <= i /\ \A l \in LiveOn(p) : k <= l
          BY <2>2, <3>1, <3>2, <4>2
        <5> QED BY <2>6, <5>1 DEF Traced
      <4>3. LiveOn(p)' # {}
        BY <2>2, <3>2, <4>1
      <4> QED BY <1>1, <4>2, <4>3 DEF Traced
    <3> QED BY <3>3, <3>4
  <2> QED BY <1>2, <1>3, <2>1, <2>5, <2>6 DEF Explained
<1> QED BY <1>1, <1>4, <1>5, <1>6, <1>7 DEF ThrowInv, Follows


LEMMA JournalThrown ==
    ASSUME Shape, Shape', ThrowInv, WriteJournal
    PROVE  ThrowInv'
<1>0. PICK i : i = at.id
  OBVIOUS
<1>1. /\ at.step = "journal" /\ i \in Ids /\ i \in Used /\ latest[i] = at.status
      /\ journal'[i] = at.status /\ \A j \in Ids \ {i} : journal'[j] = journal[j]
      /\ journal' = [journal EXCEPT ![i] = at.status]
      /\ at'.step = "table" /\ at'.id = i /\ at'.return = at.return /\ at'.status = at.status
      /\ UNCHANGED <<file, original, mutation, todo, latest, records, marker, faults>>
  BY <1>0 DEF WriteJournal, Shape, TypeOK, ThrowInv, Follows
<1>2. /\ at.status \in {"prepared", "applied", "abandoned", "committed", "rolled_back", "rollback_failed"}
      /\ at.return = "effect" <=> at.status = "prepared"
      /\ at.return = "begin" => latest = [journal EXCEPT ![i] = at.status]
      /\ at.status \in {"applied", "committed"} => journal'[i] \in LiveStatus
  BY <1>0, <1>1 DEF ThrowInv, Follows, LiveStatus
<1>3. Used' = Used /\ AppliedIds(latest)' = AppliedIds(latest)
  BY <1>1 DEF Used, AppliedIds
<1>4. NamesRecords'
  <2>1. \A j \in AppliedIds(latest) : journal'[j] \in LiveStatus
    <3> SUFFICES ASSUME NEW j \in AppliedIds(latest) PROVE journal'[j] \in LiveStatus
      OBVIOUS
    <3>1. CASE j = i
      BY <1>1, <1>2, <3>1 DEF AppliedIds
    <3>2. CASE j # i
      BY <1>1, <3>2 DEF AppliedIds, ThrowInv, NamesRecords
    <3> QED BY <3>1, <3>2
  <2> QED BY <1>1, <1>3, <2>1 DEF ThrowInv, NamesRecords
<1>5. Follows'
  BY <1>1, <1>2 DEF Follows
<1>6. Lists'
  BY <1>0, <1>1, <1>3 DEF ThrowInv, Lists, AtWork, Writing
<1>7. ASSUME faults = 0 PROVE Quiet'
  <2>1. marker = {} /\ \A j \in Prepared : j = i
    BY <1>0, <1>1, <1>7 DEF ThrowInv, Quiet, InFlight
  <2> QED BY <1>1, <2>1 DEF Quiet, InFlight, Prepared
<1>8. ASSUME faults = 1, NEW q \in Paths PROVE Explained(q)'
  <2>1. CASE q = mutation[i].path
    BY <1>0, <1>8, <2>1, WrittenExplained
  <2>2. CASE q # mutation[i].path
    <3>1. Explained(q)
      BY <1>8 DEF ThrowInv
    <3>2. LiveOn(q)' = LiveOn(q) /\ LiveOn(q) \subseteq Ids
      BY <1>1, <2>2 DEF LiveOn
    <3>3. Named(q) => Named(q)'
      BY <1>1, <2>2 DEF Named
    <3>4. Traced(q) => Traced(q)'
      BY <1>1, <3>2 DEF Traced
    <3>5. LeftOut(q) => LeftOut(q)'
      BY <1>0, <1>1, <3>2 DEF LeftOut, RollsBack, Writing, OnHand
    <3> QED BY <3>1, <3>3, <3>4, <3>5 DEF Explained
  <2> QED BY <2>1, <2>2
<1> QED BY <1>1, <1>4, <1>5, <1>6, <1>7, <1>8 DEF ThrowInv

-----------------------------------------------------------------------------
(* The step that throws. *)

\* Before it every file was accounted for, and nothing was stuck.
LEMMA CalmTraced ==
    ASSUME Shape, Calm, Quiet, NEW p \in Paths
    PROVE  Traced(p)
<1>1. \A i \in LiveOn(p) : ~Stuck(i)
  BY DEF LiveOn, Stuck, Quiet, Prepared
<1> QED BY <1>1 DEF Calm, Accounted, Traced

LEMMA FirstThrow ==
    ASSUME Shape, Shape', Calm, ThrowInv, faults = 0,
           EffectThrows \/ RestoreThrows \/ SetStatusThrows \/ MarkThrows
    PROVE  ThrowInv'
<1> USE DEF Idle, At
<1>0. PICK i : i = at.id
  OBVIOUS
<1>1. /\ UNCHANGED <<file, original, mutation, journal, table, marker, records, todo>> /\ faults' = 1
  BY DEF EffectThrows, RestoreThrows, SetStatusThrows, MarkThrows, durable, Fault
<1>2. \A p \in Paths : Explained(p)'
  <2>1. \A p \in Paths : Traced(p)
    BY CalmTraced DEF ThrowInv
  <2>2. \A p \in Paths : LiveOn(p)' = LiveOn(p) /\ LiveOn(p) \subseteq Ids
    BY <1>1 DEF LiveOn
  <2>3. \A p \in Paths : Traced(p)'
    BY <1>1, <2>1, <2>2 DEF Traced
  <2> QED BY <2>3 DEF Explained
<1>3. ASSUME at' = Idle("open") \/ at' = Idle("closed") \/ at' = Idle("failed"), latest' = latest,
             at'.step \in {"open", "failed"} => AtWork
      PROVE  ThrowInv'
  <2>1. NamesRecords'
    BY <1>1, <1>3, NamesStay DEF ThrowInv, NamesRecords
  <2>2. Follows'
    BY <1>3 DEF Follows
  <2>3. AppliedIds(latest)' = AppliedIds(latest)
    BY <1>3 DEF AppliedIds
  <2>4. Lists'
    BY <1>1, <1>3, <2>3 DEF ThrowInv, Lists, AtWork, Writing
  <2> QED BY <1>1, <1>2, <2>1, <2>2, <2>4 DEF ThrowInv
<1>4. ASSUME NEW s \in {"abandoned", "rollback_failed"}, NEW r, i \in Ids, i \in Used,
             at' = At("journal", i, s, r), latest' = [latest EXCEPT ![i] = s],
             s = "abandoned" => r = "open" /\ at.step = "effect" /\ latest[i] = "prepared",
             s = "rollback_failed" => r = "closed"
      PROVE  ThrowInv'
  <2>1. \A j \in Ids : latest'[j] = latest[j] \/ (j = i /\ latest'[j] = s)
    BY <1>4 DEF Shape, TypeOK
  <2>2. NamesRecords'
    BY <1>1, <1>4, <2>1, NamesStay DEF ThrowInv, NamesRecords, AppliedIds
  <2>3. Follows'
    BY <1>1, <1>4 DEF Follows, Used, Shape, TypeOK
  <2>4. Lists'
    <3>1. CASE s = "rollback_failed"
      BY <1>4, <3>1 DEF Lists, AtWork, Writing
    <3>2. CASE s = "abandoned"
      <4>1. records \subseteq AppliedIds(latest)
        BY <1>4, <3>2 DEF ThrowInv, Lists, AtWork
      <4>2. i \notin AppliedIds(latest)
        BY <1>4, <3>2 DEF AppliedIds
      <4>3. records \subseteq AppliedIds(latest)'
        BY <2>1, <4>1, <4>2 DEF AppliedIds
      <4> QED BY <1>1, <1>4, <3>2, <4>3 DEF Lists, AtWork, Writing
    <3> QED BY <3>1, <3>2
  <2> QED BY <1>1, <1>2, <2>2, <2>3, <2>4 DEF ThrowInv
<1>5. CASE EffectThrows
  <2>1. /\ at.step = "effect" /\ i \in Ids /\ journal[i] = "prepared" /\ latest[i] = "prepared"
    BY <1>0, <1>5 DEF EffectThrows, Shape, ThrowInv, Follows
  <2>2. i \in Used
    BY <2>1 DEF ThrowInv, NamesRecords
  <2>3. \/ at' = At("journal", i, "abandoned", "open") /\ latest' = [latest EXCEPT ![i] = "abandoned"]
        \/ at' = Idle("open") /\ latest' = latest
    BY <1>0, <1>5 DEF EffectThrows, SetStatus
  <2> QED BY <1>3, <1>4, <2>1, <2>2, <2>3 DEF AtWork
<1>6. CASE RestoreThrows
  <2>1. at.step = "restore" /\ i \in Ids /\ journal[i] \in LiveStatus
    BY <1>0, <1>6 DEF RestoreThrows, Shape, ThrowInv, Follows
  <2>2. i \in Used
    BY <2>1 DEF ThrowInv, NamesRecords, LiveStatus
  <2>3. at' = At("journal", i, "rollback_failed", "closed") /\ latest' = [latest EXCEPT ![i] = "rollback_failed"]
    BY <1>0, <1>6 DEF RestoreThrows, SetStatus
  <2> QED BY <1>4, <2>1, <2>2, <2>3
<1>7. CASE SetStatusThrows
  <2>1. Writing /\ at' = Raised /\ i \in Ids /\ at.return \in Returns \ {"closed"}
    BY <1>0, <1>7 DEF SetStatusThrows, Writing, Shape, Calm, Writes
  <2>2. latest' = IF at.return = "rollback" THEN [latest EXCEPT ![i] = "rollback_failed"] ELSE latest
    BY <1>0, <1>7 DEF SetStatusThrows
  <2>3. CASE at.return = "rollback"
    <3>1. at' = At("journal", i, "rollback_failed", "closed")
      BY <1>0, <2>1, <2>3 DEF Raised
    <3>2. i \in Used
      BY <1>0, <2>1, <2>3 DEF Writing, ThrowInv, Follows, NamesRecords, Calm, Writes
    <3> QED BY <1>4, <2>1, <2>2, <2>3, <3>1, <3>2
  <2>4. CASE at.return # "rollback"
    <3>1. \/ at.return = "begin" /\ at' = Idle("closed")
          \/ at.return \in {"effect", "open"} /\ at' = Idle("open")
          \/ at.return = "commit" /\ at' = Idle("failed")
      BY <2>1, <2>4 DEF Raised, Returns
    <3> QED BY <1>3, <2>1, <2>2, <2>4, <3>1 DEF AtWork
  <2> QED BY <2>3, <2>4
<1>8. CASE MarkThrows
  <2>1. /\ latest' = latest
        /\ \/ at.step = "commit" /\ at' = Idle("failed")
           \/ at.step = "rollback" /\ at' = Idle("closed")
    BY <1>8 DEF MarkThrows
  <2> QED BY <1>3, <2>1 DEF AtWork
<1> QED BY <1>5, <1>6, <1>7, <1>8

LEMMA ThrowStep ==
    ASSUME TransactionInv, AtMostOneThrow => ThrowInv, [Next]_vars, AtMostOneThrow'
    PROVE  ThrowInv'
<1>1. Shape /\ Shape' /\ (faults = 0 => Calm)
  BY ShapeStep DEF TransactionInv
<1>2. faults \in Nat /\ crashes \in Nat
  BY <1>1, TransactionAssumption DEF Shape, TypeOK
<1>3. CASE UNCHANGED vars
  <2>1. ThrowInv
    BY <1>3 DEF AtMostOneThrow, vars
  <2>2. UNCHANGED <<file, original, mutation, journal, marker, latest, records, todo, at, faults>>
    BY <1>3 DEF vars, durable
  <2>3. Used' = Used /\ Prepared' = Prepared /\ AppliedIds(latest)' = AppliedIds(latest)
    BY <2>2 DEF Used, Prepared, AppliedIds
  <2>4. NamesRecords' /\ Lists' /\ (faults = 0 => Quiet')
    BY <2>1, <2>2, <2>3 DEF ThrowInv, NamesRecords, Lists, AtWork, Writing, Quiet, InFlight, Committed
  <2>5. Follows'
    BY <2>1, <2>2, <2>3 DEF ThrowInv, Follows, Newest
  <2>6. RollsBack' = RollsBack /\ \A i \in Ids : OnHand(i)' = OnHand(i)
    BY <2>2 DEF RollsBack, Writing, OnHand
  <2> QED BY <1>1, <2>1, <2>2, <2>4, <2>5, <2>6, PlainSteps
<1>4. CASE Crash
  <2>1. crashes' = crashes + 1 /\ crashes' = 0
    BY <1>4 DEF Crash, AtMostOneThrow
  <2> QED BY <1>2, <2>1
<1>5. CASE EffectThrows \/ RestoreThrows \/ SetStatusThrows \/ MarkThrows
  <2>1. faults' = faults + 1 /\ crashes' = crashes
    BY <1>5 DEF EffectThrows, RestoreThrows, SetStatusThrows, MarkThrows, Fault
  <2>2. faults = 0 /\ AtMostOneThrow
    BY <1>2, <2>1 DEF AtMostOneThrow
  <2> QED BY <1>1, <1>5, <2>2, FirstThrow
<1>6. ASSUME NEW p \in Paths, NEW c \in States, Prepare(p, c), UNCHANGED windows PROVE ThrowInv'
  <2>1. AtMostOneThrow
    BY <1>6 DEF Prepare, AtMostOneThrow
  <2> QED BY <1>1, <1>6, <2>1, PrepareThrown
<1>7. CASE \/ WriteJournal \/ WriteTable \/ BeginTransaction \/ Opened \/ RecoverPrepared
           \/ DeleteBeforeRename \/ Apply \/ Suspend \/ StartCommit \/ CommitRecord \/ MarkCommitted
           \/ StartRollback \/ RestoreNewest \/ DeleteBeforeRestore \/ Restore
           \/ MarkRolledBack \/ SaveFinalState
  <2>1. UNCHANGED <<faults, crashes>>
    BY <1>7 DEF WriteJournal, WriteTable, BeginTransaction, Opened, RecoverPrepared,
       DeleteBeforeRename, Apply, Suspend, StartCommit, CommitRecord, MarkCommitted, StartRollback,
       RestoreNewest, DeleteBeforeRestore, Restore, MarkRolledBack, SaveFinalState
  <2>2. ThrowInv
    BY <2>1 DEF AtMostOneThrow
  <2> QED BY <1>1, <1>7, <2>2, JournalThrown, TableThrown, BeginThrown, RecoverThrown, EffectThrown,
             LoopThrown, CommitRecordThrown, RestoreThrown
<1> QED BY <1>3, <1>4, <1>5, <1>6, <1>7 DEF Next, Step

LEMMA ThrowInvariant == Spec => [](TransactionInv /\ (AtMostOneThrow => ThrowInv))
<1>1. Init => TransactionInv /\ (AtMostOneThrow => ThrowInv)
  BY ShapeInit, FinalInit, CalmInit, ThrowInit DEF TransactionInv
<1>2. TransactionInv /\ (AtMostOneThrow => ThrowInv) /\ [Next]_vars
         => (TransactionInv /\ (AtMostOneThrow => ThrowInv))'
  BY ShapeStep, FinalStep, CalmStep, ThrowStep DEF TransactionInv
<1> QED BY <1>1, <1>2, PTL DEF Spec

-----------------------------------------------------------------------------
(* The theorems. *)

\* A rollback that finishes has nothing left to undo: no record is live, so every file
\* is the original.
LEMMA RollbackStep ==
    ASSUME TransactionInv, [Next]_vars, "ROLLED_BACK" \in marker', marker = {}, faults = 0
    PROVE  file' = original
<1>1. Shape /\ Calm
  BY DEF TransactionInv
<1>2. MarkRolledBack
  <2>1. marker' # marker /\ marker' # marker \cup {"COMMITTED"}
    OBVIOUS
  <2>2. ~MarkCommitted /\ ~UNCHANGED vars
    BY <2>1 DEF MarkCommitted, vars, durable
  <2>3. ~WriteJournal /\ ~WriteTable /\ \A p \in Paths, c \in States : ~Prepare(p, c)
    BY <2>1 DEF WriteJournal, WriteTable, Prepare
  <2>4. ~BeginTransaction /\ ~Opened /\ ~RecoverPrepared /\ ~Suspend /\ ~Crash
    BY <2>1 DEF BeginTransaction, Opened, RecoverPrepared, Suspend, Crash, durable
  <2>5. ~DeleteBeforeRename /\ ~Apply /\ ~DeleteBeforeRestore /\ ~Restore
    BY <2>1 DEF DeleteBeforeRename, Apply, DeleteBeforeRestore, Restore
  <2>6. ~StartCommit /\ ~CommitRecord /\ ~StartRollback /\ ~RestoreNewest /\ ~SaveFinalState
    BY <2>1 DEF StartCommit, CommitRecord, StartRollback, RestoreNewest, SaveFinalState, durable
  <2>7. ~EffectThrows /\ ~RestoreThrows /\ ~SetStatusThrows /\ ~MarkThrows
    BY <2>1 DEF EffectThrows, RestoreThrows, SetStatusThrows, MarkThrows, durable
  <2> QED BY <2>2, <2>3, <2>4, <2>5, <2>6, <2>7 DEF Next, Step
<1>3. at.step = "rollback" /\ todo = {} /\ file' = file
  BY <1>2 DEF MarkRolledBack
<1>4. Prepared = {} /\ AppliedIds(journal) = {}
  BY <1>1, <1>3 DEF Calm, OnePrepared, Loops, InFlight
<1>5. \A p \in Paths : LiveOn(p) = {}
  BY <1>4 DEF LiveOn, LiveStatus, Prepared, AppliedIds
<1>6. \A p \in Paths : file[p] = original[p]
  BY <1>1, <1>5 DEF Calm, Accounted
<1> QED BY <1>1, <1>3, <1>6 DEF Shape, TypeOK

\* A run ends undone, with every file restored, or committed, with every file left
\* alone, however often it crashed and was begun again, for any number of files,
\* mutations and crashes.
THEOREM RunsEndWhole == Spec => EndsHold
<1>1. TransactionInv /\ [Next]_vars =>
          (("ROLLED_BACK" \in marker' /\ marker = {} /\ faults = 0) => file' = original)
  BY RollbackStep
<1>2. TransactionInv /\ [Next]_vars => (Committed => file' = file)
  BY CommittedTouchesNothing DEF TransactionInv
<1>3. TransactionInv /\ [Next]_vars =>
          [("ROLLED_BACK" \in marker' /\ marker = {} /\ faults = 0) => file' = original]_vars
  BY <1>1
<1>4. TransactionInv /\ [Next]_vars => [Committed => file' = file]_vars
  BY <1>2
<1> QED BY <1>3, <1>4, InvInvariant, PTL DEF Spec, EndsHold, RollbackRestores, CommittedFinal

\* While nothing throws, records that are live account for every file.
LEMMA CalmTruthful ==
    ASSUME TransactionInv, faults = 0
    PROVE  JournalTruthful
<1>1. Calm
  BY DEF TransactionInv
<1>2. EffectJournaled
  <2> SUFFICES ASSUME NEW p \in Paths, file[p] # original[p]
               PROVE  \E i \in Ids : /\ mutation[i].path = p
                                     /\ journal[i] \in {"prepared", "applied", "committed"}
    BY DEF EffectJournaled
  <2>1. LiveOn(p) # {}
    BY <1>1 DEF Calm, Accounted
  <2> QED BY <2>1 DEF LiveOn, LiveStatus
<1>3. OpenMatchesJournal
  <2> SUFFICES ASSUME at.step = "open", ~undoing
               PROVE  \A p \in Paths : file[p] = Journaled(p)
    BY DEF OpenMatchesJournal, JournalIsProject
  <2>1. marker = {}
    <3>1. ~Committed
      BY DEF TransactionInv, Final
    <3> QED BY <1>1, <3>1 DEF Calm, Untouched, Committed, TransactionInv, Shape, TypeOK
  <2>2. Prepared = {}
    BY <1>1, <2>1 DEF Calm, OnePrepared, InFlight
  <2> QED BY <1>1, <2>2 DEF Calm, Untouched
<1> QED BY <1>2, <1>3 DEF JournalTruthful

\* After the throw, every file is explained by a record that is still there.
LEMMA ThrownTruthful ==
    ASSUME ThrowInv, faults = 1
    PROVE  JournalTruthful
<1>1. ASSUME NEW p \in Paths, file[p] # original[p]
      PROVE  \E i \in Ids : /\ mutation[i].path = p
                            /\ \/ journal[i] \in {"prepared", "applied", "committed",
                                                  "rollback_failed"}
                               \/ journal[i] = "abandoned" /\ faults > 0
  <2>1. Explained(p)
    BY DEF ThrowInv
  <2>2. CASE Named(p)
    BY <2>2 DEF Named
  <2>3. CASE LiveOn(p) # {}
    BY <2>3 DEF LiveOn, LiveStatus
  <2>4. LeftOut(p) \/ Traced(p) => LiveOn(p) # {}
    BY <1>1 DEF LeftOut, Traced
  <2> QED BY <2>1, <2>2, <2>3, <2>4 DEF Explained
<1> QED BY <1>1 DEF JournalTruthful, EffectJournaled, OpenMatchesJournal

\* A file that differs from what the run found is named by a journal record, whatever
\* crashes while nothing throws, and whatever single step throws while nothing crashes;
\* while nothing throws the project between tool calls is what the journal says.  For
\* any number of files, mutations and crashes.
THEOREM JournalAccounts == Spec => []JournalTruthful
<1>1. TransactionInv /\ (AtMostOneThrow => ThrowInv) => JournalTruthful
  <2> SUFFICES ASSUME TransactionInv, AtMostOneThrow => ThrowInv PROVE JournalTruthful
    OBVIOUS
  <2>1. CASE faults = 0
    BY <2>1, CalmTruthful
  <2>2. CASE faults = 1 /\ crashes = 0
    BY <2>2, ThrownTruthful DEF AtMostOneThrow
  <2>3. CASE faults # 0 /\ ~(faults = 1 /\ crashes = 0)
    BY <2>3 DEF JournalTruthful, EffectJournaled, OpenMatchesJournal
  <2> QED BY <2>1, <2>2, <2>3
<1> QED BY <1>1, ThrowInvariant, PTL
===============================================================================
