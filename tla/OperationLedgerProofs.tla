------------------------ MODULE OperationLedgerProofs ------------------------
(***************************************************************************)
(* Proofs about the idempotency ledger, for any number of keys, owners,    *)
(* results and generations.                                                *)
(***************************************************************************)
EXTENDS OperationLedger, TLAPS

(* A row that does not exist, or whose last call failed, is under no lease. *)
IdleRows ==
    \A k \in Keys :
        /\ record[k].status = "absent" => record[k].owner = NoOwner
        /\ record[k].status \in {"absent", "failed"} => ~record[k].live

(* Every answer given for an operation is the result its row holds. *)
AnswersFromRow ==
    \A k \in Keys : \A r \in answers[k] :
        record[k].status = "completed" /\ record[k].result = r

(* A completed row holds a result. *)
CompletedHasResult ==
    \A k \in Keys : record[k].status = "completed" => record[k].result \in Results

(* A call that is past its claim has a key, and a result once it returned. *)
CallsHaveKeys ==
    \A w \in Owners :
        /\ call[w].phase \in {"claimed", "handler", "returned", "recovering"}
             => call[w].key \in Keys
        /\ call[w].phase = "returned" => call[w].result \in Results

(* A non-compensatable row stays with its first owner: whoever is inside   *)
(* its call, or ever started its handler, owns it.                         *)
FirstOwnerKeeps ==
    \A k \in Keys \ Takeover :
        /\ \A w \in Owners : call[w].key = k => record[k].owner = w
        /\ \A e \in executors[k] : record[k].owner = e[1]

LedgerInv ==
    /\ TypeOK
    /\ IdleRows
    /\ AnswersFromRow
    /\ CompletedHasResult
    /\ CallsHaveKeys
    /\ effect \subseteq Mutating
    /\ FirstOwnerKeeps

-----------------------------------------------------------------------------
(* The rows and calls that the operations build have their types. *)

(* The row written by a claim of an existing row is a row. *)
LEMMA ClaimedType ==
    ASSUME TypeOK, NEW k \in Keys, NEW w \in Owners, NEW keep \in BOOLEAN,
           record[k].generation < MaxGeneration
    PROVE  /\ Claimed(k, w, keep) \in Row
           /\ Claimed(k, w, keep).generation \in 0 .. MaxGeneration
<1>1. record[k] \in Row
  BY DEF TypeOK
<1>2. record[k].generation + 1 \in 0 .. MaxGeneration
  BY <1>1, LedgerAssumption DEF Row
<1> QED BY <1>1, <1>2 DEF Claimed, Row, Statuses

(* The row written by a first claim is a row. *)
LEMMA FreshType ==
    ASSUME NEW w \in Owners
    PROVE  [AbsentRow EXCEPT !.status = "in_progress", !.owner = w,
                             !.live = TRUE, !.generation = 1] \in Row
<1>1. 1 \in 0 .. MaxGeneration
  BY LedgerAssumption
<1> QED BY <1>1 DEF AbsentRow, Row, Statuses

(* The row written by failOperation is a row. *)
LEMMA FailedRowType ==
    ASSUME TypeOK, NEW k \in Keys, NEW w \in Owners, NEW f \in FailureKinds
    PROVE  FailedRow(k, w, f) \in Row
<1>1. record[k] \in Row
  BY DEF TypeOK
<1> QED BY <1>1 DEF FailedRow, Row, Statuses

(* The row written by completeOperation is a row. *)
LEMMA CompletedRowType ==
    ASSUME TypeOK, NEW k \in Keys, NEW r \in Results
    PROVE  CompletedRow(k, r) \in Row
<1>1. record[k] \in Row
  BY DEF TypeOK
<1> QED BY <1>1 DEF CompletedRow, Row, Statuses

(* completeOperation keeps every table typed. *)
LEMMA CompleteWithType ==
    ASSUME TypeOK, NEW w \in Owners, NEW k \in Keys, NEW r \in Results,
           CompleteWith(w, k, r)
    PROVE  TypeOK'
<1>1. record' \in [Keys -> Row]
  BY CompletedRowType DEF CompleteWith, TypeOK
<1>2. answers' \in [Keys -> SUBSET Results]
  BY DEF CompleteWith, TypeOK
<1>3. call' \in [Owners -> CallState]
  BY LedgerAssumption DEF CompleteWith, TypeOK, IdleCall, CallState, Phases
<1> QED BY <1>1, <1>2, <1>3 DEF CompleteWith, TypeOK

-----------------------------------------------------------------------------
LEMMA InitLedger == Init => LedgerInv
BY LedgerAssumption
   DEF Init, LedgerInv, TypeOK, IdleRows, AnswersFromRow, CompletedHasResult,
       CallsHaveKeys, FirstOwnerKeeps, Row, Statuses, AbsentRow, CallState,
       Phases, IdleCall

LEMMA StepLedger == LedgerInv /\ [Next]_vars => LedgerInv'
<1> SUFFICES ASSUME LedgerInv, [Next]_vars PROVE LedgerInv'
    OBVIOUS
<1> USE LedgerAssumption DEF LedgerInv
<1>1. ASSUME NEW w \in Owners, NEW k \in Keys, ClaimFresh(w, k) PROVE LedgerInv'
  <2>1. TypeOK'
    <3>1. record' \in [Keys -> Row]
      BY <1>1, FreshType DEF ClaimFresh, TypeOK
    <3>2. call' \in [Owners -> CallState]
      <4>1. record'[k].generation \in 0 .. MaxGeneration
        BY <3>1 DEF Row
      <4> QED BY <1>1, <4>1 DEF ClaimFresh, HoldClaim, TypeOK, CallState, Phases
    <3> QED BY <1>1, <3>1, <3>2 DEF ClaimFresh, HoldClaim, TypeOK
  <2>2. IdleRows'
    BY <1>1
       DEF ClaimFresh, HoldClaim, AbsentRow, TypeOK, Row, Statuses,
           CallState, Phases, IdleRows
  <2>3. AnswersFromRow'
    BY <1>1
       DEF ClaimFresh, HoldClaim, AbsentRow, TypeOK, Row, Statuses,
           CallState, Phases, AnswersFromRow, CallsHaveKeys
  <2>4. CompletedHasResult'
    BY <1>1
       DEF ClaimFresh, HoldClaim, AbsentRow, TypeOK, Row, Statuses,
           CallState, Phases, CompletedHasResult, CallsHaveKeys
  <2>5. CallsHaveKeys'
    BY <1>1
       DEF ClaimFresh, HoldClaim, AbsentRow, TypeOK, Row, Statuses,
           CallState, Phases, CallsHaveKeys
  <2>6. (effect \subseteq Mutating)'
    BY <1>1
       DEF ClaimFresh, HoldClaim, AbsentRow, TypeOK, Row, Statuses,
           CallState, Phases
  <2>7. FirstOwnerKeeps'
    BY <1>1
       DEF ClaimFresh, HoldClaim, AbsentRow, TypeOK, Row, Statuses,
           CallState, Phases, FirstOwnerKeeps, IdleRows, CallsHaveKeys
  <2> QED BY <2>1, <2>2, <2>3, <2>4, <2>5, <2>6, <2>7
<1>2. ASSUME NEW w \in Owners, NEW k \in Keys, ClaimReacquired(w, k) PROVE LedgerInv'
  <2>1. TypeOK'
    <3>1. record' \in [Keys -> Row]
      BY <1>2, ClaimedType DEF ClaimReacquired, TypeOK
    <3>2. call' \in [Owners -> CallState]
      <4>1. record'[k].generation \in 0 .. MaxGeneration
        BY <3>1 DEF Row
      <4> QED BY <1>2, <4>1 DEF ClaimReacquired, HoldClaim, TypeOK, CallState, Phases
    <3> QED BY <1>2, <3>1, <3>2 DEF ClaimReacquired, HoldClaim, TypeOK
  <2>2. IdleRows'
    BY <1>2
       DEF ClaimReacquired, HoldClaim, Claimed, IsOpen, IsReplay,
           IsTerminalFailure, IsBusy, NeedsManualRecovery, TypeOK, Row,
           Statuses, CallState, Phases, IdleRows
  <2>3. AnswersFromRow'
    BY <1>2
       DEF ClaimReacquired, HoldClaim, Claimed, IsOpen, IsReplay,
           IsTerminalFailure, IsBusy, NeedsManualRecovery, TypeOK, Row,
           Statuses, CallState, Phases, AnswersFromRow, CallsHaveKeys
  <2>4. CompletedHasResult'
    BY <1>2
       DEF ClaimReacquired, HoldClaim, Claimed, IsOpen, IsReplay,
           IsTerminalFailure, IsBusy, NeedsManualRecovery, TypeOK, Row,
           Statuses, CallState, Phases, CompletedHasResult, CallsHaveKeys
  <2>5. CallsHaveKeys'
    BY <1>2
       DEF ClaimReacquired, HoldClaim, Claimed, IsOpen, IsReplay,
           IsTerminalFailure, IsBusy, NeedsManualRecovery, TypeOK, Row,
           Statuses, CallState, Phases, CallsHaveKeys
  <2>6. (effect \subseteq Mutating)'
    BY <1>2
       DEF ClaimReacquired, HoldClaim, Claimed, IsOpen, IsReplay,
           IsTerminalFailure, IsBusy, NeedsManualRecovery, TypeOK, Row,
           Statuses, CallState, Phases
  <2>7. FirstOwnerKeeps'
    BY <1>2
       DEF ClaimReacquired, HoldClaim, Claimed, IsOpen, IsReplay,
           IsTerminalFailure, IsBusy, NeedsManualRecovery, TypeOK, Row,
           Statuses, CallState, Phases, FirstOwnerKeeps, IdleRows,
           CallsHaveKeys
  <2> QED BY <2>1, <2>2, <2>3, <2>4, <2>5, <2>6, <2>7
<1>3. ASSUME NEW w \in Owners, NEW k \in Keys, ClaimEffectRecorded(w, k) PROVE LedgerInv'
  <2>1. TypeOK'
    <3>1. record' \in [Keys -> Row]
      BY <1>3, ClaimedType DEF ClaimEffectRecorded, TypeOK
    <3>2. call' \in [Owners -> CallState]
      <4>1. record'[k].generation \in 0 .. MaxGeneration
        BY <3>1 DEF Row
      <4> QED BY <1>3, <4>1 DEF ClaimEffectRecorded, HoldClaim, TypeOK, CallState, Phases
    <3> QED BY <1>3, <3>1, <3>2 DEF ClaimEffectRecorded, HoldClaim, TypeOK
  <2>2. IdleRows'
    BY <1>3
       DEF ClaimEffectRecorded, HoldClaim, Claimed, IsOpen, IsReplay,
           IsTerminalFailure, IsBusy, TypeOK, Row, Statuses, CallState,
           Phases, IdleRows
  <2>3. AnswersFromRow'
    BY <1>3
       DEF ClaimEffectRecorded, HoldClaim, Claimed, IsOpen, IsReplay,
           IsTerminalFailure, IsBusy, TypeOK, Row, Statuses, CallState,
           Phases, AnswersFromRow, CallsHaveKeys
  <2>4. CompletedHasResult'
    BY <1>3
       DEF ClaimEffectRecorded, HoldClaim, Claimed, IsOpen, IsReplay,
           IsTerminalFailure, IsBusy, TypeOK, Row, Statuses, CallState,
           Phases, CompletedHasResult, CallsHaveKeys
  <2>5. CallsHaveKeys'
    BY <1>3
       DEF ClaimEffectRecorded, HoldClaim, Claimed, IsOpen, IsReplay,
           IsTerminalFailure, IsBusy, TypeOK, Row, Statuses, CallState,
           Phases, CallsHaveKeys
  <2>6. (effect \subseteq Mutating)'
    BY <1>3
       DEF ClaimEffectRecorded, HoldClaim, Claimed, IsOpen, IsReplay,
           IsTerminalFailure, IsBusy, TypeOK, Row, Statuses, CallState,
           Phases
  <2>7. FirstOwnerKeeps'
    BY <1>3
       DEF ClaimEffectRecorded, HoldClaim, Claimed, IsOpen, IsReplay,
           IsTerminalFailure, IsBusy, TypeOK, Row, Statuses, CallState,
           Phases, FirstOwnerKeeps, IdleRows, CallsHaveKeys
  <2> QED BY <2>1, <2>2, <2>3, <2>4, <2>5, <2>6, <2>7
<1>4. ASSUME NEW w \in Owners, NEW k \in Keys, ClaimReplay(w, k) PROVE LedgerInv'
  <2>1. TypeOK'
    <3>1. record[k].result \in Results
      BY <1>4 DEF ClaimReplay, IsReplay, CompletedHasResult
    <3> QED BY <1>4, <3>1 DEF ClaimReplay, TypeOK
  <2>2. IdleRows'
    BY <1>4
       DEF ClaimReplay, IsReplay, TypeOK, Row, Statuses, CallState,
           Phases, IdleRows
  <2>3. AnswersFromRow'
    BY <1>4
       DEF ClaimReplay, IsReplay, TypeOK, Row, Statuses, CallState,
           Phases, AnswersFromRow, CallsHaveKeys
  <2>4. CompletedHasResult'
    BY <1>4
       DEF ClaimReplay, IsReplay, TypeOK, Row, Statuses, CallState,
           Phases, CompletedHasResult, CallsHaveKeys
  <2>5. CallsHaveKeys'
    BY <1>4
       DEF ClaimReplay, IsReplay, TypeOK, Row, Statuses, CallState,
           Phases, CallsHaveKeys
  <2>6. (effect \subseteq Mutating)'
    BY <1>4 DEF ClaimReplay, IsReplay, TypeOK, Row, Statuses, CallState, Phases
  <2>7. FirstOwnerKeeps'
    BY <1>4
       DEF ClaimReplay, IsReplay, TypeOK, Row, Statuses, CallState,
           Phases, FirstOwnerKeeps, IdleRows, CallsHaveKeys
  <2> QED BY <2>1, <2>2, <2>3, <2>4, <2>5, <2>6, <2>7
<1>5. ASSUME NEW w \in Owners, NEW k \in Keys, RollBackEffect(w, k) PROVE LedgerInv'
  <2>1. TypeOK'
    BY <1>5 DEF RollBackEffect, TypeOK, Row, Statuses, CallState, Phases
  <2>2. IdleRows'
    BY <1>5 DEF RollBackEffect, TypeOK, Row, Statuses, CallState, Phases, IdleRows
  <2>3. AnswersFromRow'
    BY <1>5
       DEF RollBackEffect, TypeOK, Row, Statuses, CallState, Phases,
           AnswersFromRow, CallsHaveKeys
  <2>4. CompletedHasResult'
    BY <1>5
       DEF RollBackEffect, TypeOK, Row, Statuses, CallState, Phases,
           CompletedHasResult, CallsHaveKeys
  <2>5. CallsHaveKeys'
    BY <1>5
       DEF RollBackEffect, TypeOK, Row, Statuses, CallState, Phases,
           CallsHaveKeys
  <2>6. (effect \subseteq Mutating)'
    BY <1>5 DEF RollBackEffect, TypeOK, Row, Statuses, CallState, Phases
  <2>7. FirstOwnerKeeps'
    BY <1>5
       DEF RollBackEffect, TypeOK, Row, Statuses, CallState, Phases,
           FirstOwnerKeeps, IdleRows, CallsHaveKeys
  <2> QED BY <2>1, <2>2, <2>3, <2>4, <2>5, <2>6, <2>7
<1>6. ASSUME NEW w \in Owners, HandlerMutates(w) PROVE LedgerInv'
  <2>1. TypeOK'
    BY <1>6 DEF HandlerMutates, TypeOK, Row, Statuses, CallState, Phases
  <2>2. IdleRows'
    BY <1>6 DEF HandlerMutates, TypeOK, Row, Statuses, CallState, Phases, IdleRows
  <2>3. AnswersFromRow'
    BY <1>6
       DEF HandlerMutates, TypeOK, Row, Statuses, CallState, Phases,
           AnswersFromRow, CallsHaveKeys
  <2>4. CompletedHasResult'
    BY <1>6
       DEF HandlerMutates, TypeOK, Row, Statuses, CallState, Phases,
           CompletedHasResult, CallsHaveKeys
  <2>5. CallsHaveKeys'
    BY <1>6
       DEF HandlerMutates, TypeOK, Row, Statuses, CallState, Phases,
           CallsHaveKeys
  <2>6. (effect \subseteq Mutating)'
    BY <1>6 DEF HandlerMutates, TypeOK, Row, Statuses, CallState, Phases
  <2>7. FirstOwnerKeeps'
    BY <1>6
       DEF HandlerMutates, TypeOK, Row, Statuses, CallState, Phases,
           FirstOwnerKeeps, IdleRows, CallsHaveKeys
  <2> QED BY <2>1, <2>2, <2>3, <2>4, <2>5, <2>6, <2>7
<1>7. ASSUME NEW w \in Owners, NEW r \in Results, HandlerReturns(w, r) PROVE LedgerInv'
  <2>1. TypeOK'
    <3>1. [call[w] EXCEPT !.phase = "returned", !.result = r] \in CallState
      BY DEF TypeOK, CallState, Phases
    <3>2. call' \in [Owners -> CallState]
      BY <1>7, <3>1 DEF HandlerReturns, TypeOK
    <3> QED BY <1>7, <3>2 DEF HandlerReturns, TypeOK
  <2>2. IdleRows'
    BY <1>7 DEF HandlerReturns, TypeOK, Row, Statuses, CallState, Phases, IdleRows
  <2>3. AnswersFromRow'
    BY <1>7
       DEF HandlerReturns, TypeOK, Row, Statuses, CallState, Phases,
           AnswersFromRow, CallsHaveKeys
  <2>4. CompletedHasResult'
    BY <1>7
       DEF HandlerReturns, TypeOK, Row, Statuses, CallState, Phases,
           CompletedHasResult, CallsHaveKeys
  <2>5. CallsHaveKeys'
    BY <1>7
       DEF HandlerReturns, TypeOK, Row, Statuses, CallState, Phases,
           CallsHaveKeys
  <2>6. (effect \subseteq Mutating)'
    BY <1>7 DEF HandlerReturns, TypeOK, Row, Statuses, CallState, Phases
  <2>7. FirstOwnerKeeps'
    BY <1>7
       DEF HandlerReturns, TypeOK, Row, Statuses, CallState, Phases,
           FirstOwnerKeeps, IdleRows, CallsHaveKeys
  <2> QED BY <2>1, <2>2, <2>3, <2>4, <2>5, <2>6, <2>7
<1>8. ASSUME NEW w \in Owners, NEW r \in Results, CompleteRecovered(w, r) PROVE LedgerInv'
  <2>1. TypeOK'
    <3>1. call[w].key \in Keys
      BY <1>8 DEF CompleteRecovered, CallsHaveKeys
    <3> QED BY <1>8, <3>1, CompleteWithType DEF CompleteRecovered
  <2>2. IdleRows'
    BY <1>8
       DEF CompleteRecovered, CompleteWith, Completes, Accepted,
           CompletedRow, IdleCall, TypeOK, Row, Statuses, CallState,
           Phases, IdleRows
  <2>3. AnswersFromRow'
    BY <1>8
       DEF CompleteRecovered, CompleteWith, Completes, Accepted,
           CompletedRow, IdleCall, TypeOK, Row, Statuses, CallState,
           Phases, AnswersFromRow, CallsHaveKeys
  <2>4. CompletedHasResult'
    BY <1>8
       DEF CompleteRecovered, CompleteWith, Completes, Accepted,
           CompletedRow, IdleCall, TypeOK, Row, Statuses, CallState,
           Phases, CompletedHasResult, CallsHaveKeys
  <2>5. CallsHaveKeys'
    BY <1>8
       DEF CompleteRecovered, CompleteWith, Completes, Accepted,
           CompletedRow, IdleCall, TypeOK, Row, Statuses, CallState,
           Phases, CallsHaveKeys
  <2>6. (effect \subseteq Mutating)'
    BY <1>8
       DEF CompleteRecovered, CompleteWith, Completes, Accepted,
           CompletedRow, IdleCall, TypeOK, Row, Statuses, CallState,
           Phases
  <2>7. FirstOwnerKeeps'
    BY <1>8
       DEF CompleteRecovered, CompleteWith, Completes, Accepted,
           CompletedRow, IdleCall, TypeOK, Row, Statuses, CallState,
           Phases, FirstOwnerKeeps, IdleRows, CallsHaveKeys
  <2> QED BY <2>1, <2>2, <2>3, <2>4, <2>5, <2>6, <2>7
<1>9. ASSUME NEW w \in Owners, NEW f \in FailureKinds, HandlerFails(w, f) PROVE LedgerInv'
  <2>1. TypeOK'
    <3>1. call[w].key \in Keys
      BY <1>9 DEF HandlerFails, CallsHaveKeys
    <3>2. record' \in [Keys -> Row]
      BY <1>9, <3>1, FailedRowType DEF HandlerFails, TypeOK
    <3>3. call' \in [Owners -> CallState]
      BY <1>9 DEF HandlerFails, TypeOK, IdleCall, CallState, Phases
    <3> QED BY <1>9, <3>2, <3>3 DEF HandlerFails, TypeOK
  <2>2. IdleRows'
    BY <1>9
       DEF HandlerFails, FailedRow, IdleCall, TypeOK, Row, Statuses,
           CallState, Phases, IdleRows
  <2>3. AnswersFromRow'
    BY <1>9
       DEF HandlerFails, FailedRow, IdleCall, TypeOK, Row, Statuses,
           CallState, Phases, AnswersFromRow, CallsHaveKeys
  <2>4. CompletedHasResult'
    BY <1>9
       DEF HandlerFails, FailedRow, IdleCall, TypeOK, Row, Statuses,
           CallState, Phases, CompletedHasResult, CallsHaveKeys
  <2>5. CallsHaveKeys'
    BY <1>9
       DEF HandlerFails, FailedRow, IdleCall, TypeOK, Row, Statuses,
           CallState, Phases, CallsHaveKeys
  <2>6. (effect \subseteq Mutating)'
    BY <1>9
       DEF HandlerFails, FailedRow, IdleCall, TypeOK, Row, Statuses,
           CallState, Phases
  <2>7. FirstOwnerKeeps'
    BY <1>9
       DEF HandlerFails, FailedRow, IdleCall, TypeOK, Row, Statuses,
           CallState, Phases, FirstOwnerKeeps, IdleRows, CallsHaveKeys
  <2> QED BY <2>1, <2>2, <2>3, <2>4, <2>5, <2>6, <2>7
<1>10. ASSUME NEW w \in Owners, LeaveUnreported(w) PROVE LedgerInv'
  <2>1. TypeOK'
    BY <1>10 DEF LeaveUnreported, IdleCall, TypeOK, Row, Statuses, CallState, Phases
  <2>2. IdleRows'
    BY <1>10
       DEF LeaveUnreported, IdleCall, TypeOK, Row, Statuses, CallState,
           Phases, IdleRows
  <2>3. AnswersFromRow'
    BY <1>10
       DEF LeaveUnreported, IdleCall, TypeOK, Row, Statuses, CallState,
           Phases, AnswersFromRow, CallsHaveKeys
  <2>4. CompletedHasResult'
    BY <1>10
       DEF LeaveUnreported, IdleCall, TypeOK, Row, Statuses, CallState,
           Phases, CompletedHasResult, CallsHaveKeys
  <2>5. CallsHaveKeys'
    BY <1>10
       DEF LeaveUnreported, IdleCall, TypeOK, Row, Statuses, CallState,
           Phases, CallsHaveKeys
  <2>6. (effect \subseteq Mutating)'
    BY <1>10 DEF LeaveUnreported, IdleCall, TypeOK, Row, Statuses, CallState, Phases
  <2>7. FirstOwnerKeeps'
    BY <1>10
       DEF LeaveUnreported, IdleCall, TypeOK, Row, Statuses, CallState,
           Phases, FirstOwnerKeeps, IdleRows, CallsHaveKeys
  <2> QED BY <2>1, <2>2, <2>3, <2>4, <2>5, <2>6, <2>7
<1>11. ASSUME NEW w \in Owners, BeginHandler(w) PROVE LedgerInv'
  <2>1. TypeOK'
    <3>1. call' \in [Owners -> CallState]
      BY <1>11 DEF BeginHandler, TypeOK, CallState, Phases
    <3>2. call[w].key \in Keys /\ call[w].generation \in 0 .. MaxGeneration
      BY <1>11 DEF BeginHandler, CallsHaveKeys, TypeOK, CallState
    <3>3. executors' \in [Keys -> SUBSET (Owners \X (0 .. MaxGeneration))]
      BY <1>11, <3>2 DEF BeginHandler, TypeOK
    <3> QED BY <1>11, <3>1, <3>3 DEF BeginHandler, TypeOK
  <2>2. IdleRows'
    BY <1>11 DEF BeginHandler, TypeOK, Row, Statuses, CallState, Phases, IdleRows
  <2>3. AnswersFromRow'
    BY <1>11
       DEF BeginHandler, TypeOK, Row, Statuses, CallState, Phases,
           AnswersFromRow, CallsHaveKeys
  <2>4. CompletedHasResult'
    BY <1>11
       DEF BeginHandler, TypeOK, Row, Statuses, CallState, Phases,
           CompletedHasResult, CallsHaveKeys
  <2>5. CallsHaveKeys'
    BY <1>11
       DEF BeginHandler, TypeOK, Row, Statuses, CallState, Phases,
           CallsHaveKeys
  <2>6. (effect \subseteq Mutating)'
    BY <1>11 DEF BeginHandler, TypeOK, Row, Statuses, CallState, Phases
  <2>7. FirstOwnerKeeps'
    BY <1>11
       DEF BeginHandler, TypeOK, Row, Statuses, CallState, Phases,
           FirstOwnerKeeps, IdleRows, CallsHaveKeys
  <2> QED BY <2>1, <2>2, <2>3, <2>4, <2>5, <2>6, <2>7
<1>12. ASSUME NEW w \in Owners, Complete(w) PROVE LedgerInv'
  <2>1. TypeOK'
    <3>1. call[w].key \in Keys /\ call[w].result \in Results
      BY <1>12 DEF Complete, CallsHaveKeys
    <3> QED BY <1>12, <3>1, CompleteWithType DEF Complete
  <2>2. IdleRows'
    BY <1>12
       DEF Complete, CompleteWith, Completes, Accepted, CompletedRow,
           IdleCall, TypeOK, Row, Statuses, CallState, Phases, IdleRows
  <2>3. AnswersFromRow'
    BY <1>12
       DEF Complete, CompleteWith, Completes, Accepted, CompletedRow,
           IdleCall, TypeOK, Row, Statuses, CallState, Phases,
           AnswersFromRow, CallsHaveKeys
  <2>4. CompletedHasResult'
    BY <1>12
       DEF Complete, CompleteWith, Completes, Accepted, CompletedRow,
           IdleCall, TypeOK, Row, Statuses, CallState, Phases,
           CompletedHasResult, CallsHaveKeys
  <2>5. CallsHaveKeys'
    BY <1>12
       DEF Complete, CompleteWith, Completes, Accepted, CompletedRow,
           IdleCall, TypeOK, Row, Statuses, CallState, Phases,
           CallsHaveKeys
  <2>6. (effect \subseteq Mutating)'
    BY <1>12
       DEF Complete, CompleteWith, Completes, Accepted, CompletedRow,
           IdleCall, TypeOK, Row, Statuses, CallState, Phases
  <2>7. FirstOwnerKeeps'
    BY <1>12
       DEF Complete, CompleteWith, Completes, Accepted, CompletedRow,
           IdleCall, TypeOK, Row, Statuses, CallState, Phases,
           FirstOwnerKeeps, IdleRows, CallsHaveKeys
  <2> QED BY <2>1, <2>2, <2>3, <2>4, <2>5, <2>6, <2>7
<1>13. ASSUME NEW w \in Owners, Crash(w) PROVE LedgerInv'
  <2>1. TypeOK'
    BY <1>13 DEF Crash, IdleCall, TypeOK, Row, Statuses, CallState, Phases
  <2>2. IdleRows'
    BY <1>13 DEF Crash, IdleCall, TypeOK, Row, Statuses, CallState, Phases, IdleRows
  <2>3. AnswersFromRow'
    BY <1>13
       DEF Crash, IdleCall, TypeOK, Row, Statuses, CallState, Phases,
           AnswersFromRow, CallsHaveKeys
  <2>4. CompletedHasResult'
    BY <1>13
       DEF Crash, IdleCall, TypeOK, Row, Statuses, CallState, Phases,
           CompletedHasResult, CallsHaveKeys
  <2>5. CallsHaveKeys'
    BY <1>13
       DEF Crash, IdleCall, TypeOK, Row, Statuses, CallState, Phases,
           CallsHaveKeys
  <2>6. (effect \subseteq Mutating)'
    BY <1>13 DEF Crash, IdleCall, TypeOK, Row, Statuses, CallState, Phases
  <2>7. FirstOwnerKeeps'
    BY <1>13
       DEF Crash, IdleCall, TypeOK, Row, Statuses, CallState, Phases,
           FirstOwnerKeeps, IdleRows, CallsHaveKeys
  <2> QED BY <2>1, <2>2, <2>3, <2>4, <2>5, <2>6, <2>7
<1>14. ASSUME NEW k \in Keys, Expire(k) PROVE LedgerInv'
  <2>1. TypeOK'
    <3>1. record[k] \in Row
      BY DEF TypeOK
    <3>2. [record[k] EXCEPT !.live = FALSE] \in Row
      BY <3>1 DEF Row
    <3>3. record' \in [Keys -> Row]
      BY <1>14, <3>2 DEF Expire, TypeOK
    <3> QED BY <1>14, <3>3 DEF Expire, TypeOK
  <2>2. IdleRows'
    BY <1>14 DEF Expire, TypeOK, Row, Statuses, CallState, Phases, IdleRows
  <2>3. AnswersFromRow'
    BY <1>14
       DEF Expire, TypeOK, Row, Statuses, CallState, Phases,
           AnswersFromRow, CallsHaveKeys
  <2>4. CompletedHasResult'
    BY <1>14
       DEF Expire, TypeOK, Row, Statuses, CallState, Phases,
           CompletedHasResult, CallsHaveKeys
  <2>5. CallsHaveKeys'
    BY <1>14 DEF Expire, TypeOK, Row, Statuses, CallState, Phases, CallsHaveKeys
  <2>6. (effect \subseteq Mutating)'
    BY <1>14 DEF Expire, TypeOK, Row, Statuses, CallState, Phases
  <2>7. FirstOwnerKeeps'
    BY <1>14
       DEF Expire, TypeOK, Row, Statuses, CallState, Phases,
           FirstOwnerKeeps, IdleRows, CallsHaveKeys
  <2> QED BY <2>1, <2>2, <2>3, <2>4, <2>5, <2>6, <2>7
<1>15. CASE UNCHANGED vars
  BY <1>15 DEF vars, TypeOK, IdleRows, AnswersFromRow, CompletedHasResult,
     CallsHaveKeys, FirstOwnerKeeps
<1> QED BY <1>1, <1>2, <1>3, <1>4, <1>5, <1>6, <1>7, <1>8, <1>9, <1>10, <1>11, <1>12, <1>13, <1>14, <1>15 DEF Next

(* LedgerInv holds in every reachable state. *)
LEMMA LedgerInvariant == Spec => []LedgerInv
<1> QED BY InitLedger, StepLedger, PTL DEF Spec

(* Type correctness of the ledger. *)
THEOREM TypeCorrect == Spec => []TypeOK
<1>1. LedgerInv => TypeOK
  BY DEF LedgerInv
<1> QED BY LedgerInvariant, <1>1, PTL

(* All callers that are told an operation succeeded are told the same.     *)
THEOREM AnswersAgree == Spec => []OneAnswer
<1>1. LedgerInv => OneAnswer
  BY DEF LedgerInv, AnswersFromRow, OneAnswer
<1> QED BY LedgerInvariant, <1>1, PTL

(* A non-compensatable handler is only ever started by one execution.      *)
THEOREM OneOwnerRunsCommand == Spec => []NonCompensatableOneOwner
<1>1. LedgerInv => NonCompensatableOneOwner
  BY DEF LedgerInv, FirstOwnerKeeps, NonCompensatableOneOwner
<1> QED BY LedgerInvariant, <1>1, PTL

-----------------------------------------------------------------------------
(* Ownership changes hands only over a lease that is no longer live.       *)
LEMMA StepKeepsLiveOwner ==
    ASSUME LedgerInv, Next, NEW k \in Keys, record'[k].owner # record[k].owner
    PROVE  ~record[k].live
<1> USE DEF LedgerInv, IdleRows, TypeOK, Row
<1>1. ASSUME NEW w \in Owners, NEW j \in Keys, ClaimFresh(w, j) PROVE ~record[k].live
  BY <1>1 DEF ClaimFresh
<1>2. ASSUME NEW w \in Owners, NEW j \in Keys, ClaimReacquired(w, j)
      PROVE ~record[k].live
  BY <1>2 DEF ClaimReacquired, Claimed, IsOpen, IsBusy, IsReplay, Statuses
<1>3. ASSUME NEW w \in Owners, NEW j \in Keys, ClaimEffectRecorded(w, j)
      PROVE ~record[k].live
  BY <1>3 DEF ClaimEffectRecorded, Claimed, IsOpen, IsBusy, IsReplay, Statuses
<1>4. ASSUME NEW w \in Owners, NEW f \in FailureKinds, HandlerFails(w, f)
      PROVE FALSE
  BY <1>4 DEF HandlerFails, FailedRow
<1>5. ASSUME NEW w \in Owners, NEW j \in Keys, NEW r \in Results \cup {NoResult},
             CompleteWith(w, j, r)
      PROVE FALSE
  BY <1>5 DEF CompleteWith, CompletedRow
<1>6. ASSUME NEW w \in Owners, NEW r \in Results, CompleteRecovered(w, r)
      PROVE FALSE
  BY <1>5, <1>6 DEF CompleteRecovered, CallsHaveKeys
<1>7. ASSUME NEW w \in Owners, Complete(w) PROVE FALSE
  BY <1>5, <1>7 DEF Complete, CallsHaveKeys
<1>8. ASSUME NEW j \in Keys, Expire(j) PROVE FALSE
  BY <1>8 DEF Expire
<1>9. CASE UNCHANGED record
  BY <1>9
<1> QED
  BY <1>1, <1>2, <1>3, <1>4, <1>6, <1>7, <1>8, <1>9
     DEF Next, ClaimReplay, RollBackEffect, HandlerMutates, HandlerReturns,
         LeaveUnreported, BeginHandler, Crash

(* No execution takes a row from another one whose lease is still live.    *)
THEOREM LiveOwnerKeepsRow == Spec => NoStealFromLive
<1>1. LedgerInv /\ [Next]_vars =>
        [\A k \in Keys : record'[k].owner # record[k].owner => ~record[k].live]_vars
  <2> SUFFICES ASSUME LedgerInv, Next, NEW k \in Keys,
                      record'[k].owner # record[k].owner
               PROVE  ~record[k].live
    BY DEF vars
  <2> QED BY StepKeepsLiveOwner
<1> QED BY LedgerInvariant, <1>1, PTL DEF Spec, NoStealFromLive

-----------------------------------------------------------------------------
(* The refinement of OperationOutcome. *)

(* completeOperation decides the outcome, repeats it, or is invisible.     *)
LEMMA CompleteWithOutcome ==
    ASSUME LedgerInv, NEW w \in Owners, NEW k \in Keys, NEW r \in Results,
           CompleteWith(w, k, r)
    PROVE  \/ Outcome!Decide(k, r)
           \/ Outcome!Answer(k)
           \/ UNCHANGED <<AckedOutcome, answers>>
<1> USE LedgerAssumption DEF LedgerInv, TypeOK, Row
<1>1. CASE Completes(k, w)
  <2>1. AckedOutcome[k] = NoResult
    BY <1>1 DEF Completes, AckedOutcome
  <2>2. AckedOutcome' = [AckedOutcome EXCEPT ![k] = r]
    BY <1>1 DEF CompleteWith, CompletedRow, AckedOutcome
  <2>3. answers' = [answers EXCEPT ![k] = @ \cup {r}]
    BY <1>1 DEF CompleteWith, Accepted
  <2> QED BY <2>1, <2>2, <2>3 DEF Outcome!Decide
<1>2. CASE ~Completes(k, w) /\ Accepted(k, w, r)
  <2>1. AckedOutcome[k] = r /\ AckedOutcome' = AckedOutcome
    BY <1>2 DEF CompleteWith, Accepted, AckedOutcome
  <2>2. answers' = [answers EXCEPT ![k] = @ \cup {r}]
    BY <1>2 DEF CompleteWith
  <2> QED BY <2>1, <2>2 DEF Outcome!Answer
<1>3. CASE ~Completes(k, w) /\ ~Accepted(k, w, r)
  BY <1>3 DEF CompleteWith, AckedOutcome
<1> QED BY <1>1, <1>2, <1>3

(* Every step of the ledger is a step of OperationOutcome or invisible.    *)
LEMMA StepOutcome ==
    LedgerInv /\ [Next]_vars => [Outcome!Next]_<<AckedOutcome, answers>>
<1> SUFFICES ASSUME LedgerInv, [Next]_vars
             PROVE  Outcome!Next \/ UNCHANGED <<AckedOutcome, answers>>
    OBVIOUS
<1> USE LedgerAssumption DEF LedgerInv, TypeOK
<1>1. ASSUME NEW w \in Owners, NEW k \in Keys, ClaimFresh(w, k)
      PROVE  UNCHANGED <<AckedOutcome, answers>>
  BY <1>1 DEF ClaimFresh, HoldClaim, AckedOutcome, AbsentRow
<1>2. ASSUME NEW w \in Owners, NEW k \in Keys,
             ClaimReacquired(w, k) \/ ClaimEffectRecorded(w, k)
      PROVE  UNCHANGED <<AckedOutcome, answers>>
  <2>1. PICK keep \in BOOLEAN : record' = [record EXCEPT ![k] = Claimed(k, w, keep)]
    BY <1>2 DEF ClaimReacquired, ClaimEffectRecorded
  <2>2. record[k].status # "completed"
    BY <1>2 DEF ClaimReacquired, ClaimEffectRecorded, IsOpen, IsReplay
  <2>3. Claimed(k, w, keep).status = "in_progress"
    BY DEF Claimed, Row
  <2>4. AckedOutcome' = AckedOutcome
    BY <2>1, <2>2, <2>3 DEF AckedOutcome
  <2> QED BY <1>2, <2>4 DEF ClaimReacquired, ClaimEffectRecorded, HoldClaim
<1>3. ASSUME NEW w \in Owners, NEW k \in Keys, ClaimReplay(w, k)
      PROVE  Outcome!Next
  <2>1. AckedOutcome[k] = record[k].result /\ record[k].result \in Results
    BY <1>3 DEF ClaimReplay, IsReplay, AckedOutcome, CompletedHasResult
  <2>2. AckedOutcome' = AckedOutcome
    BY <1>3 DEF ClaimReplay, AckedOutcome
  <2>3. Outcome!Answer(k)
    BY <1>3, <2>1, <2>2 DEF ClaimReplay, Outcome!Answer
  <2> QED BY <2>3 DEF Outcome!Next
<1>4. ASSUME NEW w \in Owners, NEW f \in FailureKinds, HandlerFails(w, f)
      PROVE  UNCHANGED <<AckedOutcome, answers>>
  <2>1. ASSUME NEW j \in Keys
        PROVE  (record'[j].status = "completed") = (record[j].status = "completed")
               /\ (record[j].status = "completed" => record'[j] = record[j])
    BY <1>4 DEF HandlerFails, FailedRow, Row
  <2>2. AckedOutcome' = AckedOutcome
    BY <2>1 DEF AckedOutcome
  <2> QED BY <1>4, <2>2 DEF HandlerFails
<1>5. ASSUME NEW w \in Owners, NEW k \in Keys, NEW r \in Results,
             CompleteWith(w, k, r)
      PROVE  Outcome!Next \/ UNCHANGED <<AckedOutcome, answers>>
  BY <1>5, CompleteWithOutcome DEF Outcome!Next
<1>6. ASSUME NEW w \in Owners, NEW r \in Results, CompleteRecovered(w, r)
      PROVE  Outcome!Next \/ UNCHANGED <<AckedOutcome, answers>>
  BY <1>5, <1>6 DEF CompleteRecovered, CallsHaveKeys
<1>7. ASSUME NEW w \in Owners, Complete(w)
      PROVE  Outcome!Next \/ UNCHANGED <<AckedOutcome, answers>>
  BY <1>5, <1>7 DEF Complete, CallsHaveKeys
<1>8. ASSUME NEW k \in Keys, Expire(k)
      PROVE  UNCHANGED <<AckedOutcome, answers>>
  BY <1>8 DEF Expire, AckedOutcome, Row
<1>9. CASE UNCHANGED <<record, answers>>
  BY <1>9 DEF AckedOutcome
<1> QED
  BY <1>1, <1>2, <1>3, <1>4, <1>6, <1>7, <1>8, <1>9
     DEF Next, RollBackEffect, HandlerMutates, HandlerReturns,
         LeaveUnreported, BeginHandler, Crash, vars

(* The ledger implements OperationOutcome: one outcome per operation,      *)
(* fixed once acknowledged, and the only one callers ever see.             *)
THEOREM LedgerRefinesOutcome == Spec => OutcomeSpec
<1>1. Init => Outcome!Init
  BY DEF Init, Outcome!Init, AckedOutcome, AbsentRow
<1> QED BY LedgerInvariant, StepOutcome, <1>1, PTL DEF Spec, OutcomeSpec, Outcome!Spec

=============================================================================
