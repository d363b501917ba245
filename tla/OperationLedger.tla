--------------------------- MODULE OperationLedger ---------------------------
(***************************************************************************)
(* The idempotency ledger of the durable workflow kernel                   *)
(* (claimOperation, completeOperation and failOperation of                 *)
(* lib/product/durable_workflow.dart) and the life of one durable tool     *)
(* call above it (ToolRegistry.execute of lib/product/workspace_tools.dart)*)
(*                                                                         *)
(* An idempotency key stands for run, work item, attempt, tool and the     *)
(* hash of the normalized arguments; the hash is part of the key, so two   *)
(* requests with one key have one hash and idempotency_key_collision is a  *)
(* SHA-256 collision, which is not modelled.                               *)
(*                                                                         *)
(* An owner is one execution of a run, "<instance>:<lease id>": a new one  *)
(* is drawn for every execution, so an owner that crashed never returns.   *)
(* Time appears only through leaseExpires.isAfter(now), the Boolean live;  *)
(* Expire lets it turn false at any moment.                                *)
(***************************************************************************)
EXTENDS Integers, FiniteSets

CONSTANTS
    Keys,            \* idempotency keys
    Owners,          \* owner ids, one per execution of a run
    Takeover,        \* keys of tools called with allowLeaseTakeover = true
    Mutating,        \* keys of tools whose effect is one workspace mutation
    Results,         \* what a handler can return
    FailureKinds,    \* retryability classes a failing handler can report
    NoKey, NoOwner, NoResult,
    MaxGeneration    \* bound on execution_generation

ASSUME LedgerAssumption ==
    /\ Takeover \subseteq Keys
    /\ Mutating \subseteq Takeover
    /\ NoKey \notin Keys
    /\ NoOwner \notin Owners
    /\ NoResult \notin Results
    /\ MaxGeneration \in Nat \ {0}

VARIABLES
    record,      \* idempotency_records: one row per key
    effect,      \* keys with a compensation record 'applied' or 'committed'
    call,        \* the tool call each owner is in
    executors,   \* history: <<owner, generation>> of the handler starts of a key
    answers      \* history: results returned as a success for a key

vars == <<record, effect, call, executors, answers>>

-----------------------------------------------------------------------------
(* The row of a key. "absent" is a key with no row. *)

RetryableKinds == {"transient", "resource", "state_conflict"}

Statuses == {"absent", "in_progress", "completed", "failed"}

Row == [status : Statuses, owner : Owners \cup {NoOwner}, live : BOOLEAN,
        generation : 0 .. MaxGeneration, result : Results \cup {NoResult},
        retryability : FailureKinds \cup {"none"}]

AbsentRow == [status |-> "absent", owner |-> NoOwner, live |-> FALSE,
              generation |-> 0, result |-> NoResult, retryability |-> "none"]

(* A call is idle, holds a claim, is inside the handler, holds the handler's *)
(* result, or rebuilds the result of a recorded effect; "dead" is an owner *)
(* whose process is gone.                                                  *)
Phases == {"idle", "claimed", "handler", "returned", "recovering", "dead"}

CallState == [phase : Phases, key : Keys \cup {NoKey},
              generation : 0 .. MaxGeneration, result : Results \cup {NoResult}]

IdleCall ==
    [phase |-> "idle", key |-> NoKey, generation |-> 0, result |-> NoResult]

-----------------------------------------------------------------------------
(* claimOperation: the conditions in the order the code tests them. *)

IsReplay(k) == record[k].status = "completed"

IsTerminalFailure(k) ==
    record[k].status = "failed" /\ record[k].retryability \notin RetryableKinds

IsBusy_EffectFirst(k, w) ==
    /\ record[k].status = "in_progress" /\ record[k].owner # w
    /\ record[k].live /\ k \notin effect

IsBusy(k, w) ==
    /\ record[k].status = "in_progress"
    /\ record[k].owner # w
    /\ record[k].live

(* An open row is one that the first three early returns let through. *)
IsOpen(k, w) == ~IsReplay(k) /\ ~IsTerminalFailure(k) /\ ~IsBusy(k, w)

NeedsManualRecovery_InProgress(k, w) ==
    k \notin Takeover /\ record[k].owner # w /\ record[k].status = "in_progress"

NeedsManualRecovery(k, w) == k \notin Takeover /\ record[k].owner # w

Claimed(k, w, keepDetails) ==
    [record[k] EXCEPT
        !.status = "in_progress", !.owner = w, !.live = TRUE,
        !.generation = @ + 1,
        !.result = IF keepDetails THEN @ ELSE NoResult,
        !.retryability = IF keepDetails THEN @ ELSE "none"]

HoldClaim(w, k, phase) ==
    /\ call' = [call EXCEPT ![w] =
                  [phase |-> phase, key |-> k, result |-> NoResult,
                   generation |-> record'[k].generation]]
    /\ UNCHANGED <<effect, executors, answers>>

ClaimFresh(w, k) ==
    /\ call[w].phase = "idle"
    /\ record[k].status = "absent"
    /\ record' = [record EXCEPT ![k] =
                    [AbsentRow EXCEPT !.status = "in_progress", !.owner = w,
                                      !.live = TRUE, !.generation = 1]]
    /\ HoldClaim(w, k, "claimed")

ClaimReacquired(w, k) ==
    /\ call[w].phase = "idle"
    /\ record[k].status # "absent"
    /\ IsOpen(k, w)
    /\ k \notin effect
    /\ ~NeedsManualRecovery(k, w)
    /\ record[k].generation < MaxGeneration
    /\ record' = [record EXCEPT ![k] = Claimed(k, w, FALSE)]
    /\ HoldClaim(w, k, "claimed")

ClaimEffectRecorded(w, k) ==
    /\ call[w].phase = "idle"
    /\ record[k].status # "absent"
    /\ IsOpen(k, w)
    /\ k \in effect
    /\ record[k].generation < MaxGeneration
    /\ record' = [record EXCEPT ![k] = Claimed(k, w, TRUE)]
    /\ HoldClaim(w, k, "recovering")

(* The stored result is handed out again. Busy, terminal failure and       *)
(* manual recovery throw and leave every table as it was: stuttering steps.*)
ClaimReplay(w, k) ==
    /\ call[w].phase = "idle"
    /\ IsReplay(k)
    /\ answers' = [answers EXCEPT ![k] = @ \cup {record[k].result}]
    /\ UNCHANGED <<record, effect, call, executors>>

-----------------------------------------------------------------------------
(* The handler. A mutating handler's last durable step is the compensation *)
(* record 'applied'; a noop write has no such record, so both outcomes are *)
(* possible for a mutating key.                                            *)

BeginHandler(w) ==
    /\ call[w].phase = "claimed"
    /\ call' = [call EXCEPT ![w].phase = "handler"]
    /\ executors' = [executors EXCEPT ![call[w].key] =
                        @ \cup {<<w, call[w].generation>>}]
    /\ UNCHANGED <<record, effect, answers>>

HandlerMutates(w) ==
    /\ call[w].phase = "handler"
    /\ call[w].key \in Mutating
    /\ effect' = effect \cup {call[w].key}
    /\ UNCHANGED <<record, call, executors, answers>>

HandlerReturns(w, r) ==
    /\ call[w].phase = "handler"
    /\ call' = [call EXCEPT ![w] =
                  [@ EXCEPT !.phase = "returned", !.result = r]]
    /\ UNCHANGED <<record, effect, executors, answers>>

(* The catch of ToolRegistry.execute: failOperation, which returns without *)
(* a write when the row is completed or owned by someone else.             *)
FailedRow_ErrorCode(k, w, f) ==
    [record[k] EXCEPT !.status = "failed", !.retryability = "mcp_timeout"]

FailedRow(k, w, f) ==
    IF record[k].status \in {"absent", "completed"} \/ record[k].owner # w
    THEN record[k]
    ELSE [record[k] EXCEPT !.status = "failed", !.retryability = f,
                           !.live = FALSE]

HandlerFails(w, f) ==
    /\ call[w].phase \in {"handler", "returned"}
    /\ record' = [record EXCEPT ![call[w].key] = FailedRow(call[w].key, w, f)]
    /\ call' = [call EXCEPT ![w] = IdleCall]
    /\ UNCHANGED <<effect, executors, answers>>

(* The operation_claimed checkpoint stands between the claim and the try,  *)
(* and so does the reconstruction of a recorded effect: when one throws,   *)
(* failOperation is not called and the row stays in_progress.              *)
LeaveUnreported(w) ==
    /\ call[w].phase \in {"claimed", "recovering"}
    /\ call' = [call EXCEPT ![w] = IdleCall]
    /\ UNCHANGED <<record, effect, executors, answers>>

-----------------------------------------------------------------------------
(* completeOperation. It accepts the result of the row's owner, accepts a  *)
(* result equal to the stored one, and throws otherwise; the throw reaches *)
(* the same catch, whose failOperation changes nothing in those two cases. *)

Completes_Overwrite(k, w) == record[k].status # "absent"

Completes(k, w) == record[k].status # "completed" /\ record[k].owner = w

CompletedRow(k, r) ==
    [record[k] EXCEPT !.status = "completed", !.result = r,
                      !.retryability = "none"]

Accepted_AnyResult(k, w, r) == Completes(k, w) \/ record[k].status = "completed"

Accepted(k, w, r) ==
    Completes(k, w) \/ (record[k].status = "completed" /\ record[k].result = r)

CompleteWith(w, k, r) ==
    /\ record' = IF Completes(k, w)
                 THEN [record EXCEPT ![k] = CompletedRow(k, r)]
                 ELSE record
    /\ answers' = IF Accepted(k, w, r)
                  THEN [answers EXCEPT ![k] = @ \cup {r}]
                  ELSE answers
    /\ call' = [call EXCEPT ![w] = IdleCall]
    /\ UNCHANGED <<effect, executors>>

Complete(w) ==
    /\ call[w].phase = "returned"
    /\ CompleteWith(w, call[w].key, call[w].result)

(* effectRecorded: the result is rebuilt from the compensation record. *)
CompleteRecovered(w, r) ==
    /\ call[w].phase = "recovering"
    /\ CompleteWith(w, call[w].key, r)

-----------------------------------------------------------------------------
(* The world around the ledger. *)

Expire(k) ==
    /\ record[k].live
    /\ record' = [record EXCEPT ![k].live = FALSE]
    /\ UNCHANGED <<effect, call, executors, answers>>

Crash(w) ==
    /\ call[w].phase # "dead"
    /\ call' = [call EXCEPT ![w] = [IdleCall EXCEPT !.phase = "dead"]]
    /\ UNCHANGED <<record, effect, executors, answers>>

(* WorkspaceTransaction.rollback marks the mutation 'rolled_back'; it is   *)
(* run by an owner that is not inside a tool call.                         *)
RollBackEffect(w, k) ==
    /\ call[w].phase = "idle"
    /\ k \in effect
    /\ effect' = effect \ {k}
    /\ UNCHANGED <<record, call, executors, answers>>

-----------------------------------------------------------------------------
Init ==
    /\ record = [k \in Keys |-> AbsentRow]
    /\ effect = {}
    /\ call = [w \in Owners |-> IdleCall]
    /\ executors = [k \in Keys |-> {}]
    /\ answers = [k \in Keys |-> {}]

Next ==
    \/ \E w \in Owners, k \in Keys :
        \/ ClaimFresh(w, k)
        \/ ClaimReacquired(w, k)
        \/ ClaimEffectRecorded(w, k)
        \/ ClaimReplay(w, k)
        \/ RollBackEffect(w, k)
    \/ \E w \in Owners :
        \/ HandlerMutates(w)
        \/ \E r \in Results : HandlerReturns(w, r) \/ CompleteRecovered(w, r)
        \/ \E f \in FailureKinds : HandlerFails(w, f)
        \/ LeaveUnreported(w)
        \/ BeginHandler(w)
        \/ Complete(w)
        \/ Crash(w)
    \/ \E k \in Keys : Expire(k)

Spec == Init /\ [][Next]_vars

-----------------------------------------------------------------------------
(* Properties *)

(* Every table and every call has its shape. *)
TypeOK ==
    /\ record \in [Keys -> Row]
    /\ effect \subseteq Keys
    /\ call \in [Owners -> CallState]
    /\ executors \in [Keys -> SUBSET (Owners \X (0 .. MaxGeneration))]
    /\ answers \in [Keys -> SUBSET Results]

(* Whoever is told that an operation succeeded is told the same result:    *)
(* the handler's own caller, a replay, a recovery from the compensation    *)
(* record, and an executor that lost its lease and completes late.         *)
OneAnswer ==
    \A k \in Keys : \A r1, r2 \in answers[k] : r1 = r2

(* The handler of a non-compensatable operation (run_command,              *)
(* start_process, package_deployment, mcp_call) is started by one owner    *)
(* only: after a crash or a lost lease no other execution repeats it.      *)
NonCompensatableOneOwner ==
    \A k \in Keys \ Takeover : \A e1, e2 \in executors[k] : e1[1] = e2[1]

(* A row changes hands only when its lease has run out or its last call    *)
(* failed: a recorded effect is not stolen from a live executor.           *)
NoStealFromLive ==
    [][\A k \in Keys : record'[k].owner # record[k].owner => ~record[k].live]_vars

(* What docs/V1.3.0_DURABLE_WORKFLOW_KERNEL.md says of non-compensatable   *)
(* operations, that they are not repeated after an ambiguous failure: the  *)
(* handler starts once.                                                    *)
NonCompensatableOnce ==
    \A k \in Keys \ Takeover : \A e1, e2 \in executors[k] : e1 = e2

(* The ledger implements OperationOutcome: the outcome of an operation is  *)
(* the result of its completed row.                                        *)
AckedOutcome ==
    [k \in Keys |-> IF record[k].status = "completed"
                    THEN record[k].result ELSE NoResult]

Outcome == INSTANCE OperationOutcome WITH
    outcome <- AckedOutcome, answered <- answers

(* Refinement: claims, crashes, takeovers and late completions are         *)
(* invisible to the callers of an operation; they see one fixed outcome.   *)
OutcomeSpec == Outcome!Spec

=============================================================================
