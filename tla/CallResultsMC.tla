---------------------------- MODULE CallResultsMC ----------------------------
(* Symmetry of a small instance of CallResults: its threads differ in their   *)
(* names only.                                                                *)
EXTENDS CallResults, TLC

Symmetric == Permutations(Thread)
=============================================================================
