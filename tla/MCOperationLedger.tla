-------------------------- MODULE MCOperationLedger --------------------------
(* Two operations, one compensatable and one not, and two executions.      *)
EXTENDS OperationLedger, TLC

CONSTANTS command, write, w1, w2, r1, r2

MCKeys == {command, write}
MCOwners == {w1, w2}
MCTakeover == {write}
MCMutating == {write}
MCResults == {r1, r2}
MCFailureKinds == {"transient", "never"}

Symmetry == Permutations(MCOwners) \cup Permutations(MCResults)
=============================================================================
