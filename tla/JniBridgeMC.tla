----------------------------- MODULE JniBridgeMC -----------------------------
(* Symmetry of small instances of JniBridge: callers, addresses, connections  *)
(* and statements differ in their names only.                                 *)
EXTENDS JniBridge, TLC

Symmetric ==
  Permutations(Caller) \cup Permutations(Object) \cup Permutations(Conn)
    \cup Permutations(Query)
=============================================================================
