-------------------------- MODULE SqliteConnection --------------------------
(***************************************************************************)
(* What the SQLite 3.15.2 engine under src/main/cpp/sqlite-amalgamation    *)
(* does for the calls MadDatabase and MadQuery make: connections to ONE    *)
(* database file in rollback-journal mode, their file locks, their         *)
(* auto-commit flag and the statements prepared on them.  No busy handler  *)
(* is ever installed, so a lock that is not free is SQLITE_BUSY at once.   *)
(*                                                                         *)
(* This module has no specification of its own: MadDatabase composes its   *)
(* operators.  Each operator is one call that the engine runs under the    *)
(* mutex of the connection, so it is one step.                             *)
(***************************************************************************)
EXTENDS Naturals

CONSTANTS
  Conn,         \* connections (sqlite3*) to the file, in one or more processes
  Query,        \* SELECT statements a connection can have prepared at a time
  Row           \* rows of the one table; every insertion is of a row of its own

VARIABLES
  disk,         \* the rows in the file
  open,         \* open[c]: sqlite3_open succeeded, sqlite3_close has not yet
  autoCommit,   \* sqlite3.autoCommit
  lock,         \* unixFile.eFileLock
  pending,      \* rows written by c and not committed
  stuck,        \* nVdbeWrite > 0 for ever: an INSERT that met SQLITE_BUSY in
                \* OP_Transaction and is neither reset nor finalized
  unfinalized,  \* c has an INSERT statement that nobody will finalize
  phase         \* phase[c][q]: where the SELECT statement q of c is

engineVars ==
  <<disk, open, autoCommit, lock, pending, stuck, unfinalized, phase>>

\* EXCLUSIVE is held only inside a commit, so no state shows it.
NO_LOCK       == 0
SHARED_LOCK   == 1
RESERVED_LOCK == 2
PENDING_LOCK  == 3

(***************************************************************************)
(* "none": no statement; "ready": prepared, not stepped; "rewound": inside *)
(* moveToFirst, after sqlite3_reset and before sqlite3_step; "running":    *)
(* the last step returned a row; "blocked": the last step returned         *)
(* SQLITE_BUSY and the program is still active; "halted": at its end.      *)
(***************************************************************************)
Phase == {"none", "ready", "rewound", "running", "blocked", "halted"}

\* The statements that count in nVdbeRead (f is a value of phase[c]).
Active(f) == {q \in Query : f[q] \in {"running", "blocked"}}

\* Mutant: a lock is added to the one held, not raised to a level.
Added(l, m) == l + m

AtLeast(l, m) == IF l >= m THEN l ELSE m

-----------------------------------------------------------------------------
(* File locks. *)

\* Some other connection's lock reaches level l.
OtherHolds(c, l) == \E d \in Conn \ {c} : lock[d] >= l

\* A SHARED lock is held or free: nobody waits for, or has, an exclusive one.
CanRead(c) == lock[c] >= SHARED_LOCK \/ ~OtherHolds(c, PENDING_LOCK)

\* Mutant: another connection's RESERVED lock is not looked at.
CanWriteUnreserved(c) == CanRead(c)

\* OP_Transaction with P2 = 1 succeeds: SHARED, then RESERVED.
CanWrite(c) ==
  /\ CanRead(c)
  /\ lock[c] >= RESERVED_LOCK \/ ~OtherHolds(c, RESERVED_LOCK)

\* Mutant: readers do not keep a commit back.
CanExcludeReaders(c) == ~OtherHolds(c, RESERVED_LOCK)

\* sqlite3PagerExclusiveLock succeeds: no other connection reads or writes.
CanExclude(c) == ~OtherHolds(c, SHARED_LOCK)

\* Mutant: the lock is given up under the queries still on a row.
LockDropped(c, l, f) == NO_LOCK

\* The lock left when the transaction that held l ends, f being phase[c]
\* then: statements that are still active keep a read transaction.
LockAfterEnd(c, l, f) ==
  IF l # NO_LOCK /\ (stuck[c] \/ Active(f) # {}) THEN SHARED_LOCK ELSE NO_LOCK

\* The transaction of c ends; rows is what it leaves in the file.
EndTransaction(c, l, rows) ==
  /\ disk' = disk \cup rows
  /\ pending' = [pending EXCEPT ![c] = {}]
  /\ lock' = [lock EXCEPT ![c] = LockAfterEnd(c, l, phase[c])]

\* A statement of c that halts now commits (or rolls back) by itself.
HaltEnds(c) == autoCommit[c] /\ ~stuck[c]

-----------------------------------------------------------------------------
(* BEGIN, ROLLBACK and COMMIT through sqlite3_exec. *)

\* BEGIN is deferred: it takes no lock.  Inside a transaction it is an error
\* that leaves autoCommit as it is, FALSE.
ExecBegin(c) ==
  /\ autoCommit' = [autoCommit EXCEPT ![c] = FALSE]
  /\ UNCHANGED <<disk, open, lock, pending, stuck, unfinalized, phase>>

\* Nothing to end ("no transaction is active"), or other statements of the
\* connection are writing ("SQL statements in progress", COMMIT only).
EndFails(c) == UNCHANGED engineVars

ExecRollback(c) ==
  \/ autoCommit[c] /\ EndFails(c)
  \/ /\ ~autoCommit[c]
     /\ EndTransaction(c, lock[c], {})
     /\ autoCommit' = [autoCommit EXCEPT ![c] = TRUE]
     /\ UNCHANGED <<open, stuck, unfinalized, phase>>

\* Mutant: a COMMIT that meets SQLITE_BUSY gives its lock up.
CommitUnlocks(c) ==
  \/ (autoCommit[c] \/ stuck[c]) /\ EndFails(c)
  \/ /\ ~autoCommit[c] /\ ~stuck[c]
     /\ lock[c] >= RESERVED_LOCK /\ ~CanExclude(c)
     /\ lock' = [lock EXCEPT ![c] = LockAfterEnd(c, lock[c], phase[c])]
     /\ UNCHANGED <<disk, open, autoCommit, pending, stuck, unfinalized, phase>>

\* A write transaction needs the exclusive lock.  Without it COMMIT returns
\* SQLITE_BUSY, stays in the transaction and keeps the PENDING lock.
ExecCommit(c) ==
  \/ (autoCommit[c] \/ stuck[c]) /\ EndFails(c)
  \/ /\ ~autoCommit[c] /\ ~stuck[c]
     /\ lock[c] >= RESERVED_LOCK /\ ~CanExclude(c)
     /\ lock' = [lock EXCEPT ![c] = PENDING_LOCK]
     /\ UNCHANGED <<disk, open, autoCommit, pending, stuck, unfinalized, phase>>
  \/ /\ ~autoCommit[c] /\ ~stuck[c]
     /\ lock[c] < RESERVED_LOCK \/ CanExclude(c)
     /\ EndTransaction(c, lock[c], pending[c])
     /\ autoCommit' = [autoCommit EXCEPT ![c] = TRUE]
     /\ UNCHANGED <<open, stuck, unfinalized, phase>>

-----------------------------------------------------------------------------
(* One sqlite3_step of a single-row INSERT, by its outcome.  They leave    *)
(* open, stuck, unfinalized and phase to the caller.                       *)

\* SQLITE_DONE outside a transaction: written and committed.
WriteCommitted(c, r) ==
  /\ CanWrite(c) /\ HaltEnds(c) /\ CanExclude(c)
  /\ EndTransaction(c, RESERVED_LOCK, pending[c] \cup {r})
  /\ UNCHANGED autoCommit

\* SQLITE_DONE in a transaction, or with another write statement unfinished.
WriteBuffered(c, r) ==
  /\ CanWrite(c) /\ ~HaltEnds(c)
  /\ pending' = [pending EXCEPT ![c] = @ \cup {r}]
  /\ lock' = [lock EXCEPT ![c] = AtLeast(@, RESERVED_LOCK)]
  /\ UNCHANGED <<disk, autoCommit>>

\* SQLITE_BUSY in OP_Transaction: the program stays where it is.
WriteBlocked(c) ==
  /\ ~CanWrite(c)
  /\ UNCHANGED <<disk, autoCommit, lock, pending>>

\* SQLITE_BUSY in the commit of vdbeCommit: the row is rolled back.
WriteRefused(c) ==
  /\ CanWrite(c) /\ HaltEnds(c) /\ ~CanExclude(c)
  /\ EndTransaction(c, RESERVED_LOCK, {})
  /\ UNCHANGED autoCommit

\* A constraint failed (OE_Abort): only the statement is undone.
WriteAborted(c) ==
  /\ CanWrite(c)
  /\ \/ HaltEnds(c) /\ EndTransaction(c, RESERVED_LOCK, {})
     \/ /\ ~HaltEnds(c)
        /\ lock' = [lock EXCEPT ![c] = AtLeast(@, RESERVED_LOCK)]
        /\ UNCHANGED <<disk, pending>>
  /\ UNCHANGED autoCommit

\* SQLITE_FULL, SQLITE_IOERR or OE_Rollback: the whole transaction is undone
\* and the connection is back in auto-commit mode.
WriteRolledBack(c) ==
  /\ CanWrite(c)
  /\ EndTransaction(c, RESERVED_LOCK, {})
  /\ autoCommit' = [autoCommit EXCEPT ![c] = TRUE]

-----------------------------------------------------------------------------
(* A SELECT statement. *)

\* phase[c][q] becomes p and q, if it was active, halts, l being held.
HaltQuery(c, q, p, l) ==
  LET f == [phase[c] EXCEPT ![q] = p] IN
  /\ phase' = [phase EXCEPT ![c] = f]
  /\ lock' = [lock EXCEPT ![c] = IF HaltEnds(c) THEN LockAfterEnd(c, l, f) ELSE l]
  /\ UNCHANGED <<disk, open, autoCommit, pending, stuck, unfinalized>>

PrepareQuery(c, q) ==
  /\ open[c] /\ phase[c][q] = "none"
  /\ phase' = [phase EXCEPT ![c][q] = "ready"]
  /\ UNCHANGED <<disk, open, autoCommit, lock, pending, stuck, unfinalized>>

\* sqlite3_reset returns the error of the step before it; p is the phase then.
ResetQuery(c, q, p) ==
  /\ phase[c][q] \notin {"none", "rewound"}
  /\ p = IF phase[c][q] = "blocked" THEN "halted" ELSE "rewound"
  /\ HaltQuery(c, q, p, lock[c])

\* sqlite3_step: SQLITE_ROW, SQLITE_DONE or SQLITE_BUSY.
StepQuery(c, q) ==
  \/ /\ CanRead(c)
     /\ phase' = [phase EXCEPT ![c][q] = "running"]
     /\ lock' = [lock EXCEPT ![c] = AtLeast(@, SHARED_LOCK)]
     /\ UNCHANGED <<disk, open, autoCommit, pending, stuck, unfinalized>>
  \/ CanRead(c) /\ HaltQuery(c, q, "halted", AtLeast(lock[c], SHARED_LOCK))
  \/ /\ ~CanRead(c)
     /\ phase' = [phase EXCEPT ![c][q] = "blocked"]
     /\ UNCHANGED <<disk, open, autoCommit, lock, pending, stuck, unfinalized>>

FinalizeQuery(c, q) ==
  /\ phase[c][q] \notin {"none", "rewound"}
  /\ HaltQuery(c, q, "none", lock[c])

-----------------------------------------------------------------------------
(* Opening, closing, and losing every connection at once. *)

Open(c) ==
  /\ ~open[c]
  /\ open' = [open EXCEPT ![c] = TRUE]
  /\ UNCHANGED <<disk, autoCommit, lock, pending, stuck, unfinalized, phase>>

\* Mutant: only inserts are counted.
IsBusyInserting(c) == unfinalized[c]

\* connectionIsBusy: a statement of c is not finalized.
IsBusy(c) == unfinalized[c] \/ \E q \in Query : phase[c][q] # "none"

\* sqlite3_close rolls back and closes, or returns SQLITE_BUSY and does not.
Close(c) ==
  \/ IsBusy(c) /\ UNCHANGED engineVars
  \/ /\ ~IsBusy(c)
     /\ open' = [open EXCEPT ![c] = FALSE]
     /\ autoCommit' = [autoCommit EXCEPT ![c] = TRUE]
     /\ lock' = [lock EXCEPT ![c] = NO_LOCK]
     /\ pending' = [pending EXCEPT ![c] = {}]
     /\ UNCHANGED <<disk, stuck, unfinalized, phase>>

EngineInit ==
  /\ disk = {}
  /\ open = [c \in Conn |-> FALSE]
  /\ autoCommit = [c \in Conn |-> TRUE]
  /\ lock = [c \in Conn |-> NO_LOCK]
  /\ pending = [c \in Conn |-> {}]
  /\ stuck = [c \in Conn |-> FALSE]
  /\ unfinalized = [c \in Conn |-> FALSE]
  /\ phase = [c \in Conn |-> [q \in Query |-> "none"]]

\* Every process dies; the journals of the transactions they had open are
\* played back by the next reader.
EngineCrash ==
  /\ open' = [c \in Conn |-> FALSE]
  /\ autoCommit' = [c \in Conn |-> TRUE]
  /\ lock' = [c \in Conn |-> NO_LOCK]
  /\ pending' = [c \in Conn |-> {}]
  /\ stuck' = [c \in Conn |-> FALSE]
  /\ unfinalized' = [c \in Conn |-> FALSE]
  /\ phase' = [c \in Conn |-> [q \in Query |-> "none"]]
  /\ UNCHANGED disk

EngineTypeOK ==
  /\ disk \subseteq Row
  /\ open \in [Conn -> BOOLEAN]
  /\ autoCommit \in [Conn -> BOOLEAN]
  /\ lock \in [Conn -> NO_LOCK .. PENDING_LOCK]
  /\ pending \in [Conn -> SUBSET Row]
  /\ stuck \in [Conn -> BOOLEAN]
  /\ unfinalized \in [Conn -> BOOLEAN]
  /\ phase \in [Conn -> [Query -> Phase]]

-----------------------------------------------------------------------------
(* What holds between the calls. *)

\* At most one connection is writing.
OneWriter ==
  \A c, d \in Conn :
    c # d /\ lock[c] >= RESERVED_LOCK => lock[d] < RESERVED_LOCK

\* Uncommitted rows are always under a RESERVED lock.
WorkIsLocked ==
  \A c \in Conn : pending[c] # {} => lock[c] >= RESERVED_LOCK

\* A query that stands on a row holds the file against a commit.
ReadersHoldShared ==
  \A c \in Conn : \A q \in Query :
    phase[c][q] = "running" => lock[c] >= SHARED_LOCK

\* Outside a transaction, with no insert abandoned, nothing is left to commit.
AutoCommitIsSettled ==
  \A c \in Conn : autoCommit[c] /\ ~stuck[c] => lock[c] < RESERVED_LOCK

\* A closed connection has left nothing behind.
ClosedIsFree ==
  \A c \in Conn : ~open[c] => autoCommit[c] /\ lock[c] = NO_LOCK /\ ~IsBusy(c)

\* An insert abandoned at SQLITE_BUSY keeps its connection from closing.
StuckIsUnfinalized == \A c \in Conn : stuck[c] => unfinalized[c]

\* The locks are what the transactions and the queries in progress need, over
\* every order of calls on every connection.
LockInv ==
  /\ OneWriter
  /\ WorkIsLocked
  /\ ReadersHoldShared
  /\ AutoCommitIsSettled
  /\ ClosedIsFree
  /\ StuckIsUnfinalized
=============================================================================
