------------------------- MODULE MadContentValuesMC -------------------------
(* A small instance of MadContentValues: k1 and k2 name one column, in       *)
(* different letter case.                                                     *)
EXTENDS MadContentValues, TLC

CONSTANTS k1, k2, k3

TwoColumns == [k \in Key |-> IF k = k3 THEN k3 ELSE k1]

\* The handles, the Impl objects and the values are alike.
Symmetric == Permutations(Handle) \cup Permutations(Impl) \cup Permutations(Value)
=============================================================================
