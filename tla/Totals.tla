--------------------------------- MODULE Totals ---------------------------------
(***************************************************************************)
(* Lists of Python: the built-in sum, and the list that a comprehension    *)
(* with a condition makes of another.                                      *)
(***************************************************************************)
EXTENDS Integers, Sequences, FiniteSets

SumOf(s) ==
    LET Sum[i \in 0 .. Len(s)] == IF i = 0 THEN 0 ELSE Sum[i - 1] + s[i]
    IN Sum[Len(s)]

\* The elements of s at the chosen places, in their order.
Kept(s, chosen) ==
    [k \in 1 .. Cardinality(chosen) |->
        s[CHOOSE i \in chosen : Cardinality({j \in chosen : j <= i}) = k]]
=============================================================================
