----------------------------- MODULE JniBridge -----------------------------
(***************************************************************************)
(* The JNI bridge (MadSqliteJni.cpp): Java objects that hold addresses of  *)
(* MadDatabase and MadQuery objects, and dbPtrs, the vector whose          *)
(* shared_ptrs keep the databases alive.  The databases at one path, and   *)
(* in-memory ones.                                                         *)
(*                                                                         *)
(* The bridge has no lock: two calls that change dbPtrs at once are        *)
(* undefined, so openDatabase and closeDatabase are one step each.  Java   *)
(* makes one call at a time through an object, closes a handle once and    *)
(* then forgets it.                                                        *)
(*                                                                         *)
(* A call is one step, but for moveToFirst.  That the test of              *)
(* isInTransaction, the statement and the write of it can come apart when  *)
(* two Java objects share a database is in MadDatabase, and shared_flag    *)
(* shows it; no property here depends on the flag being right.             *)
(***************************************************************************)
EXTENDS SqliteConnection

CONSTANTS
  Caller,       \* Java objects with a database
  Object,       \* addresses of MadDatabase objects; a freed one is used again
  None,
  Sharing       \* several callers may have the path open at a time

ASSUME NoneAssumption == None \notin Object \cup Conn
ASSUME SharingAssumption == Sharing \in BOOLEAN

VARIABLES
  dbPtrs,       \* dbPtrs[o]: how many shared_ptrs to o the vector has
  db,           \* db[o]: the connection of o; None: in memory, or no object
  isInTransaction,
  nativePtr,    \* nativePtr[j]: the address the Java object j has, or None
  queries       \* queries[j]: the statements of the MadQuery objects j has

bridgeVars == <<dbPtrs, db, isInTransaction, nativePtr, queries>>
vars == <<engineVars, bridgeVars>>

Alive(o) == dbPtrs[o] > 0

\* j is not between the two engine calls of moveToFirst.
Idle(j) == \A k \in queries[j] : phase[k[1]][k[2]] # "rewound"

\* A call through nativePtr[j] is a call of a database of the file.  Anything
\* else is undefined behaviour, or is about a database in memory.
Calls(j, c) ==
  /\ Idle(j)
  /\ nativePtr[j] # None /\ Alive(nativePtr[j])
  /\ db[nativePtr[j]] = c

Fresh(r) == r \notin disk /\ \A c \in Conn : r \notin pending[c]

-----------------------------------------------------------------------------
(* openDatabase and closeDatabase. *)

Push(j, o) ==
  /\ dbPtrs' = [dbPtrs EXCEPT ![o] = @ + 1]
  /\ nativePtr' = [nativePtr EXCEPT ![j] = o]

\* The registry has the database of the path: one more pointer to it.
OpenShared(j) ==
  /\ Idle(j) /\ nativePtr[j] = None /\ Sharing
  /\ \E o \in Object : Alive(o) /\ db[o] # None /\ Push(j, o)
  /\ UNCHANGED <<engineVars, db, isInTransaction, queries>>

\* Nobody has the path open: a new database with a new connection.
OpenNew(j) ==
  /\ Idle(j) /\ nativePtr[j] = None
  /\ \A o \in Object : ~Alive(o) \/ db[o] = None
  /\ \E o \in Object, c \in Conn :
       /\ ~Alive(o) /\ Push(j, o)
       /\ Open(c)
       /\ db' = [db EXCEPT ![o] = c]
  /\ UNCHANGED <<isInTransaction, queries>>

\* absPath is null.
OpenInMemory(j) ==
  /\ Idle(j) /\ nativePtr[j] = None
  /\ \E o \in Object : ~Alive(o) /\ Push(j, o)
  /\ UNCHANGED <<engineVars, db, isInTransaction, queries>>

\* Mutant: an address that another object had before is looked for.
EraseNothing(o) == UNCHANGED dbPtrs

\* erase(remove_if(equal)): every pointer to o goes, whoever opened it.
Erase(o) == dbPtrs' = [dbPtrs EXCEPT ![o] = 0]

\* Mutant: the connection is not closed.
CloseForgets(j) ==
  /\ Idle(j) /\ nativePtr[j] # None
  /\ LET o == nativePtr[j] IN
       /\ Erase(o)
       /\ db' = [db EXCEPT ![o] = None]
       /\ isInTransaction' = [isInTransaction EXCEPT ![o] = FALSE]
  /\ nativePtr' = [nativePtr EXCEPT ![j] = None]
  /\ UNCHANGED <<engineVars, queries>>

\* Mutant: the destructor commits.
CloseCommits(j) ==
  /\ Idle(j) /\ nativePtr[j] # None
  /\ LET o == nativePtr[j] IN
       /\ Erase(o)
       /\ \/ db[o] # None /\ ExecCommit(db[o])
          \/ db[o] = None /\ UNCHANGED engineVars
       /\ db' = [db EXCEPT ![o] = None]
       /\ isInTransaction' = [isInTransaction EXCEPT ![o] = FALSE]
  /\ nativePtr' = [nativePtr EXCEPT ![j] = None]
  /\ UNCHANGED queries

\* With its last pointer the database goes: ~Impl closes the connection and
\* ignores SQLITE_BUSY.
CloseDatabase(j) ==
  /\ Idle(j) /\ nativePtr[j] # None
  /\ LET o == nativePtr[j] IN
       /\ Erase(o)
       /\ \/ db[o] # None /\ Close(db[o])
          \/ db[o] = None /\ UNCHANGED engineVars
       /\ db' = [db EXCEPT ![o] = None]
       /\ isInTransaction' = [isInTransaction EXCEPT ![o] = FALSE]
  /\ nativePtr' = [nativePtr EXCEPT ![j] = None]
  /\ UNCHANGED queries

-----------------------------------------------------------------------------
(* beginTransaction, commitTransaction, rollbackTransaction, exec, insert. *)

SetFlag(j, b) == isInTransaction' = [isInTransaction EXCEPT ![nativePtr[j]] = b]

BeginTransaction(j, c) ==
  /\ Calls(j, c) /\ ~isInTransaction[nativePtr[j]]
  /\ ExecBegin(c)
  /\ SetFlag(j, TRUE)
  /\ UNCHANGED <<dbPtrs, db, nativePtr, queries>>

CommitTransaction(j, c) ==
  /\ Calls(j, c) /\ isInTransaction[nativePtr[j]]
  /\ ExecCommit(c)
  /\ SetFlag(j, FALSE)
  /\ UNCHANGED <<dbPtrs, db, nativePtr, queries>>

RollbackTransaction(j, c) ==
  /\ Calls(j, c) /\ isInTransaction[nativePtr[j]]
  /\ ExecRollback(c)
  /\ SetFlag(j, FALSE)
  /\ UNCHANGED <<dbPtrs, db, nativePtr, queries>>

WriteFails(c) == WriteRefused(c) \/ WriteAborted(c) \/ WriteRolledBack(c)

WriteDone(c) ==
  \E r \in Row : Fresh(r) /\ (WriteCommitted(c, r) \/ WriteBuffered(c, r))

\* The arrays become a MadContentValues; its statement is never finalized.
Insert(j, c) ==
  /\ Calls(j, c)
  /\ unfinalized' = [unfinalized EXCEPT ![c] = TRUE]
  /\ \/ (WriteDone(c) \/ WriteFails(c)) /\ UNCHANGED stuck
     \/ WriteBlocked(c) /\ stuck' = [stuck EXCEPT ![c] = TRUE]
  /\ UNCHANGED <<open, phase, bridgeVars>>

\* A text that is not BEGIN, COMMIT or ROLLBACK, but may be "COMMIT;".
Exec(j, c) ==
  /\ Calls(j, c)
  /\ \/ /\ WriteDone(c) \/ WriteFails(c) \/ WriteBlocked(c)
        /\ UNCHANGED <<open, phase, stuck, unfinalized>>
     \/ ExecBegin(c) \/ ExecCommit(c) \/ ExecRollback(c)
  /\ UNCHANGED bridgeVars

-----------------------------------------------------------------------------
(* query, moveToFirst, moveToNext, closeQuery. *)

NewQuery(j, c, q) ==
  /\ Calls(j, c)
  /\ PrepareQuery(c, q)
  /\ queries' = [queries EXCEPT ![j] = @ \cup {<<c, q>>}]
  /\ UNCHANGED <<dbPtrs, db, isInTransaction, nativePtr>>

\* sqlite3_reset; moveToFirst then goes on to step, or stops at its error.
MoveToFirst(j, c, q) ==
  /\ Idle(j) /\ <<c, q>> \in queries[j]
  /\ \E p \in {"rewound", "halted"} : ResetQuery(c, q, p)
  /\ UNCHANGED bridgeVars

MoveToFirstStep(j, c, q) ==
  /\ <<c, q>> \in queries[j] /\ phase[c][q] = "rewound"
  /\ StepQuery(c, q)
  /\ UNCHANGED bridgeVars

\* isAfterLast() keeps it from stepping after SQLITE_DONE or an error.
MoveToNext(j, c, q) ==
  /\ Idle(j) /\ <<c, q>> \in queries[j]
  /\ phase[c][q] \in {"ready", "running"}
  /\ StepQuery(c, q)
  /\ UNCHANGED bridgeVars

\* delete of a void*: the memory is freed and no destructor runs, so nobody
\* will ever finalize the statement.
CloseQuery(j, c, q) ==
  /\ Idle(j) /\ <<c, q>> \in queries[j]
  /\ queries' = [queries EXCEPT ![j] = @ \ {<<c, q>>}]
  /\ UNCHANGED <<engineVars, dbPtrs, db, isInTransaction, nativePtr>>

-----------------------------------------------------------------------------
\* The process with its Java objects is killed.
Killed ==
  /\ \E c \in Conn : open[c]
  /\ EngineCrash
  /\ dbPtrs' = [o \in Object |-> 0]
  /\ db' = [o \in Object |-> None]
  /\ isInTransaction' = [o \in Object |-> FALSE]
  /\ nativePtr' = [j \in Caller |-> None]
  /\ queries' = [j \in Caller |-> {}]

Init ==
  /\ EngineInit
  /\ dbPtrs = [o \in Object |-> 0]
  /\ db = [o \in Object |-> None]
  /\ isInTransaction = [o \in Object |-> FALSE]
  /\ nativePtr = [j \in Caller |-> None]
  /\ queries = [j \in Caller |-> {}]

HandleStep(j) ==
  \/ OpenShared(j) \/ OpenNew(j) \/ OpenInMemory(j)
  \/ CloseDatabase(j)

DatabaseStep(j, c) ==
  \/ BeginTransaction(j, c) \/ CommitTransaction(j, c) \/ RollbackTransaction(j, c)
  \/ Insert(j, c)
  \/ Exec(j, c)

QueryStep(j, c, q) ==
  \/ NewQuery(j, c, q)
  \/ MoveToFirst(j, c, q) \/ MoveToFirstStep(j, c, q)
  \/ MoveToNext(j, c, q)
  \/ CloseQuery(j, c, q)

Next ==
  \/ \E j \in Caller :
       \/ HandleStep(j)
       \/ \E c \in Conn : DatabaseStep(j, c)
       \/ \E c \in Conn, q \in Query : QueryStep(j, c, q)
  \/ Killed

Spec == Init /\ [][Next]_vars

-----------------------------------------------------------------------------
(* Properties. *)

\* Every variable has its type.
TypeOK ==
  /\ EngineTypeOK
  /\ dbPtrs \in [Object -> Nat]
  /\ db \in [Object -> Conn \cup {None}]
  /\ isInTransaction \in [Object -> BOOLEAN]
  /\ nativePtr \in [Caller -> Object \cup {None}]
  /\ queries \in [Caller -> SUBSET (Conn \X Query)]

\* The address that a Java object has is that of a database that still exists,
\* whatever other callers open and close: dbPtrs counts the references.
HandlesAreLive ==
  \A j \in Caller : nativePtr[j] # None => Alive(nativePtr[j])

\* A database that no Java object can reach any more has been destroyed: dbPtrs
\* does not grow with the databases that were closed.
NoDatabaseLeaks ==
  \A o \in Object : Alive(o) => \E j \in Caller : nativePtr[j] = o

\* A connection that outlives its database is kept open by a statement, which
\* is an insert's or a query's, and by nothing else.
LeaksAreBusy ==
  \A c \in Conn : open[c] => IsBusy(c) \/ \E o \in Object : Alive(o) /\ db[o] = c

\* "The changes will be rolled back" if a database is closed without a commit
\* (api/MadDatabase.hpp): its rows never come into the file, not even when its
\* connection cannot be closed and stays in the transaction for ever.
ClosedIsUndone ==
  [][\A c \in Conn :
       (\A o \in Object : dbPtrs'[o] = 0 \/ db'[o] # c) => pending[c] \cap disk' = {}]_vars

\* A query that Java has can be used as long as it is not closed, even when its
\* database is: its statement is there, and it is no other Java object's.
QueriesAreLive ==
  \A j \in Caller : \A k \in queries[j] :
    /\ open[k[1]] /\ phase[k[1]][k[2]] # "none"
    /\ \A i \in Caller \ {j} : k \notin queries[i]
=============================================================================
