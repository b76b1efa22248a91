---------------------------- MODULE MadDatabase ----------------------------
(***************************************************************************)
(* MadDatabase (MadDatabaseImpl.cpp) and the part of MadQuery that reaches *)
(* the engine: threads calling the MadDatabase objects of several          *)
(* connections to one database file.                                       *)
(*                                                                         *)
(* beginTransaction, commitTransaction and rollbackTransaction read and    *)
(* write isInTransaction outside databaseMutex, so each is three steps:    *)
(* test the flag, execInternal, set the flag.  insert, exec and query run  *)
(* entirely under databaseMutex and are one step; a MadQuery call runs     *)
(* under the engine's own mutex, one sqlite3_reset, sqlite3_step or        *)
(* sqlite3_finalize at a time.                                             *)
(***************************************************************************)
EXTENDS SqliteConnection

CONSTANTS
  Thread,
  Client,       \* <<t, c>>: thread t has a shared_ptr to the MadDatabase of c
  Sql,          \* the texts given to exec
  Fault         \* the ways an insert can fail that are not about locks

SqlText == {"INSERT", "BEGIN", "COMMIT", "ROLLBACK", "BEGIN;", "COMMIT;", "ROLLBACK;"}

ASSUME ClientAssumption == Client \subseteq Thread \X Conn
ASSUME SqlAssumption == Sql \subseteq SqlText
ASSUME FaultAssumption == Fault \subseteq {"constraint", "rollback", "bind"}

VARIABLES
  held,             \* held[c]: some shared_ptr to the MadDatabase of c is left
  isInTransaction,
  pc,               \* where the call of thread t on connection c is
  buffered,         \* rows reported inserted since isInTransaction was set
  kept,             \* rows reported inserted and committed
  undone            \* rows reported rolled back, or lost with their transaction

dbVars == <<held, isInTransaction, pc>>
historyVars == <<buffered, kept, undone>>
vars == <<engineVars, dbVars, historyVars>>

Step == {"idle", "begin", "beginSet", "commit", "commitSet",
         "rollback", "rollbackSet", "rewound"}

\* Thread t is in no call and has a MadDatabase for connection c.
Idle(t, c) ==
  /\ <<t, c>> \in Client
  /\ \A d \in Conn : <<t, d>> \in Client => pc[<<t, d>>] = "idle"

Goto(t, c, step) == pc' = [pc EXCEPT ![<<t, c>>] = step]

\* Some thread is between the two tests and writes of the flag of c.
InCall(c) ==
  \E t \in Thread : <<t, c>> \in Client /\ pc[<<t, c>>] \notin {"idle", "rewound"}

Fresh(r) ==
  /\ r \notin disk \cup kept \cup undone
  /\ \A c \in Conn : r \notin pending[c] \cup buffered[c]

-----------------------------------------------------------------------------
(* Opening and closing. *)

OpenDatabase(t, c) ==
  /\ Idle(t, c) /\ ~held[c]
  /\ Open(c)
  /\ held' = [held EXCEPT ![c] = TRUE]
  /\ UNCHANGED <<isInTransaction, pc, historyVars>>

\* The last shared_ptr goes: ~Impl calls sqlite3_close and ignores its result;
\* the object, with its flag, is no more.
CloseDatabase(t, c) ==
  /\ Idle(t, c) /\ held[c] /\ ~InCall(c)
  /\ Close(c)
  /\ held' = [held EXCEPT ![c] = FALSE]
  /\ undone' = undone \cup buffered[c]
  /\ buffered' = [buffered EXCEPT ![c] = {}]
  /\ isInTransaction' = [isInTransaction EXCEPT ![c] = FALSE]
  /\ UNCHANGED <<pc, kept>>

-----------------------------------------------------------------------------
(* beginTransaction, commitTransaction, rollbackTransaction. *)

\* Mutant: the flag is set and nothing is executed.
BeginNothing(t, c) ==
  /\ Idle(t, c) /\ held[c]
  /\ ~isInTransaction[c]
  /\ Goto(t, c, "beginSet")
  /\ UNCHANGED <<engineVars, held, isInTransaction, historyVars>>

BeginTransaction(t, c) ==
  /\ Idle(t, c) /\ held[c]
  /\ ~isInTransaction[c]
  /\ Goto(t, c, "begin")
  /\ UNCHANGED <<engineVars, held, isInTransaction, historyVars>>

BeginExec(t, c) ==
  /\ pc[<<t, c>>] = "begin"
  /\ ExecBegin(c)
  /\ Goto(t, c, "beginSet")
  /\ UNCHANGED <<held, isInTransaction, historyVars>>

BeginSet(t, c) ==
  /\ pc[<<t, c>>] = "beginSet"
  /\ isInTransaction' = [isInTransaction EXCEPT ![c] = TRUE]
  /\ Goto(t, c, "idle")
  /\ UNCHANGED <<engineVars, held, historyVars>>

CommitTransaction(t, c) ==
  /\ Idle(t, c) /\ held[c]
  /\ isInTransaction[c]
  /\ Goto(t, c, "commit")
  /\ UNCHANGED <<engineVars, held, isInTransaction, historyVars>>

\* Mutant: the flag is cleared and nothing is executed.
CommitNothing(t, c) ==
  /\ pc[<<t, c>>] = "commit"
  /\ Goto(t, c, "commitSet")
  /\ UNCHANGED <<engineVars, held, isInTransaction, historyVars>>

\* Mutant: ROLLBACK for COMMIT.
CommitUndoes(t, c) ==
  /\ pc[<<t, c>>] = "commit"
  /\ ExecRollback(c)
  /\ Goto(t, c, "commitSet")
  /\ UNCHANGED <<held, isInTransaction, historyVars>>

\* The result of COMMIT goes to the log only.
CommitExec(t, c) ==
  /\ pc[<<t, c>>] = "commit"
  /\ ExecCommit(c)
  /\ Goto(t, c, "commitSet")
  /\ UNCHANGED <<held, isInTransaction, historyVars>>

CommitSet(t, c) ==
  /\ pc[<<t, c>>] = "commitSet"
  /\ isInTransaction' = [isInTransaction EXCEPT ![c] = FALSE]
  /\ kept' = kept \cup buffered[c]
  /\ buffered' = [buffered EXCEPT ![c] = {}]
  /\ Goto(t, c, "idle")
  /\ UNCHANGED <<engineVars, held, undone>>

RollbackTransaction(t, c) ==
  /\ Idle(t, c) /\ held[c]
  /\ isInTransaction[c]
  /\ Goto(t, c, "rollback")
  /\ UNCHANGED <<engineVars, held, isInTransaction, historyVars>>

\* Mutant: the flag is cleared and nothing is executed.
RollbackNothing(t, c) ==
  /\ pc[<<t, c>>] = "rollback"
  /\ Goto(t, c, "rollbackSet")
  /\ UNCHANGED <<engineVars, held, isInTransaction, historyVars>>

\* Mutant: COMMIT for ROLLBACK.
RollbackCommits(t, c) ==
  /\ pc[<<t, c>>] = "rollback"
  /\ ExecCommit(c)
  /\ Goto(t, c, "rollbackSet")
  /\ UNCHANGED <<held, isInTransaction, historyVars>>

RollbackExec(t, c) ==
  /\ pc[<<t, c>>] = "rollback"
  /\ ExecRollback(c)
  /\ Goto(t, c, "rollbackSet")
  /\ UNCHANGED <<held, isInTransaction, historyVars>>

RollbackSet(t, c) ==
  /\ pc[<<t, c>>] = "rollbackSet"
  /\ isInTransaction' = [isInTransaction EXCEPT ![c] = FALSE]
  /\ undone' = undone \cup buffered[c]
  /\ buffered' = [buffered EXCEPT ![c] = {}]
  /\ Goto(t, c, "idle")
  /\ UNCHANGED <<engineVars, held, kept>>

-----------------------------------------------------------------------------
(* insert.  Once prepared, its statement is never finalized. *)

\* The caller is told that row r was inserted.
Report(c, r) ==
  /\ IF isInTransaction[c]
       THEN buffered' = [buffered EXCEPT ![c] = @ \cup {r}] /\ UNCHANGED kept
       ELSE kept' = kept \cup {r} /\ UNCHANGED buffered
  /\ UNCHANGED undone

Inserting(t, c) ==
  /\ Idle(t, c) /\ held[c]
  /\ unfinalized' = [unfinalized EXCEPT ![c] = TRUE]
  /\ UNCHANGED <<open, phase, dbVars>>

\* Mutant: the result of the step is not looked at.
InsertUnchecked(t, c, r) ==
  /\ Inserting(t, c) /\ Fresh(r)
  /\ \/ WriteCommitted(c, r) \/ WriteBuffered(c, r)
     \/ "constraint" \in Fault /\ WriteAborted(c)
  /\ Report(c, r)
  /\ UNCHANGED stuck

InsertDone(t, c, r) ==
  /\ Inserting(t, c) /\ Fresh(r)
  /\ WriteCommitted(c, r) \/ WriteBuffered(c, r)
  /\ Report(c, r)
  /\ UNCHANGED stuck

\* A failed bind returns -1, which is true, before the step.
InsertUnbound(t, c, r) ==
  /\ "bind" \in Fault
  /\ Inserting(t, c) /\ Fresh(r)
  /\ Report(c, r)
  /\ UNCHANGED <<disk, autoCommit, lock, pending, stuck>>

\* The step is left where it met SQLITE_BUSY: its statement stays active.
InsertBlocked(t, c) ==
  /\ Inserting(t, c)
  /\ WriteBlocked(c)
  /\ stuck' = [stuck EXCEPT ![c] = TRUE]
  /\ UNCHANGED historyVars

WriteFails(c) ==
  \/ WriteRefused(c)
  \/ "constraint" \in Fault /\ WriteAborted(c)
  \/ "rollback" \in Fault /\ WriteRolledBack(c)

InsertFails(t, c) ==
  /\ Inserting(t, c)
  /\ WriteFails(c)
  /\ UNCHANGED <<stuck, historyVars>>

-----------------------------------------------------------------------------
(* exec: the texts of transactionKeyWords are refused, in any letter case, *)
(* and every other text goes to sqlite3_exec.                              *)

transactionKeyWords == {"BEGIN", "COMMIT", "ROLLBACK"}

\* sqlite3_exec of an INSERT: the statement is finalized whatever happened.
ExecInsert(c) ==
  /\ \/ /\ \E r \in Row : /\ Fresh(r)
                          /\ WriteCommitted(c, r) \/ WriteBuffered(c, r)
                          /\ Report(c, r)
     \/ /\ WriteBlocked(c) \/ WriteFails(c)
        /\ UNCHANGED historyVars
  /\ UNCHANGED <<open, stuck, unfinalized, phase>>

Exec(t, c, s) ==
  /\ Idle(t, c) /\ held[c]
  /\ s \notin transactionKeyWords
  /\ \/ s = "INSERT" /\ ExecInsert(c)
     \/ s = "BEGIN;" /\ ExecBegin(c) /\ UNCHANGED historyVars
     \/ s = "COMMIT;" /\ ExecCommit(c) /\ UNCHANGED historyVars
     \/ s = "ROLLBACK;" /\ ExecRollback(c) /\ UNCHANGED historyVars
  /\ UNCHANGED dbVars

-----------------------------------------------------------------------------
(* query, and the MadQuery it returns, which may outlive the MadDatabase. *)

DoQuery(t, c, q) ==
  /\ Idle(t, c) /\ held[c]
  /\ PrepareQuery(c, q)
  /\ UNCHANGED <<dbVars, historyVars>>

MoveToFirst(t, c, q) ==
  /\ Idle(t, c)
  /\ \E p \in {"rewound", "halted"} :
       /\ ResetQuery(c, q, p)
       /\ Goto(t, c, IF p = "rewound" THEN "rewound" ELSE "idle")
  /\ UNCHANGED <<held, isInTransaction, historyVars>>

MoveToFirstStep(t, c, q) ==
  /\ pc[<<t, c>>] = "rewound" /\ phase[c][q] = "rewound"
  /\ StepQuery(c, q)
  /\ Goto(t, c, "idle")
  /\ UNCHANGED <<held, isInTransaction, historyVars>>

\* isAfterLast() keeps it from stepping after SQLITE_DONE or an error.
MoveToNext(t, c, q) ==
  /\ Idle(t, c)
  /\ phase[c][q] \in {"ready", "running"}
  /\ StepQuery(c, q)
  /\ UNCHANGED <<dbVars, historyVars>>

DestroyQuery(t, c, q) ==
  /\ Idle(t, c)
  /\ FinalizeQuery(c, q)
  /\ UNCHANGED <<dbVars, historyVars>>

-----------------------------------------------------------------------------
\* The machine stops.  Of a transaction in the middle of its COMMIT nobody
\* was told anything.
PowerLoss ==
  /\ \E c \in Conn : open[c]
  /\ EngineCrash
  /\ held' = [c \in Conn |-> FALSE]
  /\ isInTransaction' = [c \in Conn |-> FALSE]
  /\ pc' = [k \in Client |-> "idle"]
  /\ undone' = undone \cup
       UNION {buffered[c] : c \in {d \in Conn :
         \A t \in Thread : <<t, d>> \in Client => pc[<<t, d>>] # "commitSet"}}
  /\ buffered' = [c \in Conn |-> {}]
  /\ UNCHANGED kept

Init ==
  /\ EngineInit
  /\ held = [c \in Conn |-> FALSE]
  /\ isInTransaction = [c \in Conn |-> FALSE]
  /\ pc = [k \in Client |-> "idle"]
  /\ buffered = [c \in Conn |-> {}]
  /\ kept = {}
  /\ undone = {}

TransactionStep(t, c) ==
  \/ BeginTransaction(t, c) \/ BeginExec(t, c) \/ BeginSet(t, c)
  \/ CommitTransaction(t, c) \/ CommitExec(t, c) \/ CommitSet(t, c)
  \/ RollbackTransaction(t, c) \/ RollbackExec(t, c) \/ RollbackSet(t, c)

InsertStep(t, c) ==
  \/ \E r \in Row : InsertDone(t, c, r) \/ InsertUnbound(t, c, r)
  \/ InsertBlocked(t, c)
  \/ InsertFails(t, c)

QueryStep(t, c) ==
  \E q \in Query :
    \/ DoQuery(t, c, q)
    \/ MoveToFirst(t, c, q)
    \/ MoveToFirstStep(t, c, q)
    \/ MoveToNext(t, c, q)
    \/ DestroyQuery(t, c, q)

ClientStep(t, c) ==
  \/ OpenDatabase(t, c)
  \/ CloseDatabase(t, c)
  \/ TransactionStep(t, c)
  \/ InsertStep(t, c)
  \/ \E s \in Sql : Exec(t, c, s)
  \/ QueryStep(t, c)

Next ==
  \/ \E k \in Client : ClientStep(k[1], k[2])
  \/ PowerLoss

Spec == Init /\ [][Next]_vars

-----------------------------------------------------------------------------
(* Properties. *)

\* Every variable has its type.
TypeOK ==
  /\ EngineTypeOK
  /\ held \in [Conn -> BOOLEAN]
  /\ isInTransaction \in [Conn -> BOOLEAN]
  /\ pc \in [Client -> Step]
  /\ buffered \in [Conn -> SUBSET Row]
  /\ kept \subseteq Row
  /\ undone \subseteq Row

\* A connection with a MadDatabase is open, and so is one in a call.
CallsHold ==
  /\ \A c \in Conn : held[c] => open[c]
  /\ \A k \in Client : pc[k] \notin {"idle", "rewound"} => held[k[2]]

\* While a query of one connection stands on a row, no other connection
\* changes the file: what changes it is the work of one connection, and every
\* other one is reading nothing.
ReadersUndisturbed ==
  [][disk' # disk =>
       \E c \in Conn : \A d \in Conn \ {c} : \A q \in Query :
         phase[d][q] # "running"]_vars

\* isInTransaction never says there is a transaction when there is none,
\* except between the COMMIT or ROLLBACK and the write of the flag.
FlagImpliesTransaction ==
  \A c \in Conn :
    isInTransaction[c] =>
      \/ ~autoCommit[c]
      \/ \E t \in Thread : <<t, c>> \in Client /\ pc[<<t, c>>] \in {"commitSet", "rollbackSet"}

\* When no call is in progress, no transaction is open as far as
\* isInTransaction knows, and no query is being read, the connection is in no
\* transaction and holds no lock that would keep others out.
NoOrphanTransaction ==
  \A c \in Conn :
    /\ held[c] /\ ~isInTransaction[c] /\ ~InCall(c)
    /\ Active(phase[c]) = {}
    => autoCommit[c] /\ lock[c] = NO_LOCK

\* A row reported inserted outside a transaction, or in one that
\* commitTransaction was called for, is in the file and survives a crash.
KeptIsDurable == kept \subseteq disk

\* A row inserted in a transaction that was rolled back, by call, by closing
\* the database or by a crash, is never in the file.
UndoneIsGone == undone \cap disk = {}

\* When commitTransaction returns, the transaction it was called for is over.
CommitIsFinal ==
  [][\A k \in Client : CommitSet(k[1], k[2]) => autoCommit[k[2]]]_vars

\* commitTransaction loses nothing: when it ends the transaction, every row that
\* insert reported in it is in the file; when COMMIT was refused, every one is
\* still in the transaction, for the next COMMIT.
CommitLosesNothing ==
  [][\A k \in Client : CommitSet(k[1], k[2]) =>
       buffered[k[2]] \subseteq IF autoCommit[k[2]] THEN disk ELSE pending[k[2]]]_vars

\* A transaction that isInTransaction no longer speaks of is one whose COMMIT was
\* refused, for another connection's reader or for an insert of its own that was
\* abandoned at SQLITE_BUSY: no other way leaves a transaction behind.
OrphanIsRefused ==
  \A c \in Conn :
    held[c] /\ ~isInTransaction[c] /\ ~InCall(c) /\ ~autoCommit[c] =>
      lock[c] = PENDING_LOCK \/ stuck[c]

\* MadDatabase as a TransactionStore: a session is a connection that somebody
\* has a MadDatabase for.  An insert that met SQLITE_BUSY begins a transaction:
\* while it is an active writer nothing is committed.
Uncommitted == [c \in Conn |-> IF held[c] THEN pending[c] ELSE {}]

Waiting == [c \in Conn |-> held[c] /\ (~autoCommit[c] \/ stuck[c])]

Reading == [c \in Conn |-> \E q \in Query : phase[c][q] = "running"]

Reported == kept \cup undone \cup UNION {buffered[c] : c \in Conn}

Store == INSTANCE TransactionStore WITH
  Session <- Conn, stored <- disk, work <- Uncommitted,
  inTransaction <- Waiting, reading <- Reading, told <- Reported

\* Every step of every thread, of every connection, is a step of the store:
\* transactions are all or nothing, alone, and undisturbing to readers, and
\* what insert reports is written.
IsTransactionStore == Store!Spec
=============================================================================
