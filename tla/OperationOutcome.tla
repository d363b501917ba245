--------------------------- MODULE OperationOutcome ---------------------------
(***************************************************************************)
(* What the idempotency ledger promises to the callers of a durable        *)
(* operation: an operation has at most one outcome, it never changes, and  *)
(* a caller that is told of a success is told that outcome.                *)
(***************************************************************************)
CONSTANTS Keys, Results, NoResult

VARIABLES
    outcome,    \* the acknowledged result of each operation
    answered    \* the results callers have been given

Decide(k, r) ==
    /\ outcome[k] = NoResult
    /\ outcome' = [outcome EXCEPT ![k] = r]
    /\ answered' = [answered EXCEPT ![k] = @ \cup {r}]

Answer(k) ==
    /\ outcome[k] # NoResult
    /\ answered' = [answered EXCEPT ![k] = @ \cup {outcome[k]}]
    /\ UNCHANGED outcome

Init ==
    /\ outcome = [k \in Keys |-> NoResult]
    /\ answered = [k \in Keys |-> {}]

Next == \E k \in Keys : Answer(k) \/ \E r \in Results : Decide(k, r)

Spec == Init /\ [][Next]_<<outcome, answered>>
=============================================================================
