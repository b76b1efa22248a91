-------------------------- MODULE TransactionStore --------------------------
(***************************************************************************)
(* What MadDatabase promises of the rows of a file, whoever uses it and    *)
(* however: the rows of a transaction come into the file together or not   *)
(* at all, at most one session has any that are not there yet, none come   *)
(* while another session reads, and what is stored stays.  MadDatabase     *)
(* implements this (IsTransactionStore).                                   *)
(***************************************************************************)
CONSTANTS Session, Row

VARIABLES
  stored,           \* the rows in the file
  work,             \* work[s]: rows of the transaction of s
  inTransaction,    \* rows that s inserts wait for a commit
  reading,          \* s stands on a row of a query
  told              \* the rows that somebody was told are inserted

vars == <<stored, work, inTransaction, reading, told>>

\* What s does now disturbs nobody.
Alone(s) == \A z \in Session \ {s} : ~reading[z]

Begin(s) ==
  /\ inTransaction' = [inTransaction EXCEPT ![s] = TRUE]
  /\ UNCHANGED <<stored, work, reading, told>>

\* An insertion that is answered with true, by one session at a time.
Insert(s, r) ==
  /\ r \notin stored \cup told
  /\ \A z \in Session \ {s} : work[z] = {}
  /\ \/ /\ inTransaction[s]
        /\ work' = [work EXCEPT ![s] = @ \cup {r}]
        /\ UNCHANGED stored
     \/ /\ ~inTransaction[s] /\ Alone(s)
        /\ stored' = stored \cup {r}
        /\ UNCHANGED work
  /\ told' = told \cup {r}
  /\ UNCHANGED <<inTransaction, reading>>

Commit(s) ==
  /\ inTransaction[s]
  /\ work[s] # {} => Alone(s)
  /\ stored' = stored \cup work[s]
  /\ work' = [work EXCEPT ![s] = {}]
  /\ inTransaction' = [inTransaction EXCEPT ![s] = FALSE]
  /\ UNCHANGED <<reading, told>>

\* By call, by closing, or by an error of the engine's.
Rollback(s) ==
  /\ work' = [work EXCEPT ![s] = {}]
  /\ \/ UNCHANGED inTransaction
     \/ inTransaction' = [inTransaction EXCEPT ![s] = FALSE]
  /\ UNCHANGED <<stored, reading, told>>

Read(s) ==
  /\ reading' = [reading EXCEPT ![s] = ~@]
  /\ UNCHANGED <<stored, work, inTransaction, told>>

\* A commit that was not answered yet may have been told of, or not.
Crash ==
  /\ work' = [s \in Session |-> {}]
  /\ inTransaction' = [s \in Session |-> FALSE]
  /\ reading' = [s \in Session |-> FALSE]
  /\ told' \subseteq told
  /\ UNCHANGED stored

Init ==
  /\ stored = {}
  /\ work = [s \in Session |-> {}]
  /\ inTransaction = [s \in Session |-> FALSE]
  /\ reading = [s \in Session |-> FALSE]
  /\ told = {}

Next ==
  \/ \E s \in Session :
       \/ Begin(s) \/ Commit(s) \/ Rollback(s) \/ Read(s)
       \/ \E r \in Row : Insert(s, r)
  \/ Crash

Spec == Init /\ [][Next]_vars
=============================================================================
