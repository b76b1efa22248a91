--------------------------- MODULE MadDatabaseMC ---------------------------
(* Small instances of MadDatabase: who has a shared_ptr to which database. *)
EXTENDS MadDatabase, TLC

CONSTANTS t1, t2, c1, c2

\* One thread, one connection.
OneClient == {<<t1, c1>>}

\* Two processes, or two database objects: each thread has its own connection.
OwnConnection == {<<t1, c1>>, <<t2, c2>>}

\* Two threads of one process share the database object of c1.
SharedConnection == {<<t1, c1>>, <<t2, c1>>}

\* One thread goes back and forth between two connections.
TwoConnections == {<<t1, c1>>, <<t1, c2>>}

\* Rows differ only in their names, and so do two clients that each have a
\* connection of their own.
RowSymmetry == Permutations(Row)

Swap == t1 :> t2 @@ t2 :> t1 @@ c1 :> c2 @@ c2 :> c1

OwnConnectionSymmetry ==
  RowSymmetry \cup {p @@ Swap : p \in RowSymmetry \cup {[r \in Row |-> r]}}

TwoConnectionsSymmetry == Permutations({c1, c2})
=============================================================================
