--------------------------- MODULE MCRunLifecycle ---------------------------
(* Two processes and a plan of two items, the second on top of the first. *)
EXTENDS RunLifecycle, TLC

CONSTANTS a, b

MCProcs == {a, b}
MCDeps == [i \in Items |-> {j \in Items : j < i}]

Symmetry == Permutations(MCProcs)
=============================================================================
