----------------------- MODULE TransactionStoreProofs -----------------------
(***************************************************************************)
(* MadDatabase implements TransactionStore, for any threads, connections,  *)
(* cursors and rows, and whatever fails but the binding of a value.        *)
(***************************************************************************)
EXTENDS MadDatabaseProofs

\* What c is as a session, and nothing else of the sessions, may change.
Apart(c) ==
  \A d \in Conn \ {c} :
    /\ held'[d] = held[d] /\ pending'[d] = pending[d]
    /\ autoCommit'[d] = autoCommit[d] /\ stuck'[d] = stuck[d]
    /\ phase'[d] = phase[d]

\* The three functions of the mapping change at c alone.
LEMMA MappedAt ==
  ASSUME NEW c \in Conn, Apart(c)
  PROVE  /\ Uncommitted' = [Uncommitted EXCEPT ![c] = IF held'[c] THEN pending'[c] ELSE {}]
         /\ Waiting' = [Waiting EXCEPT ![c] = held'[c] /\ (~autoCommit'[c] \/ stuck'[c])]
         /\ Reading' = [Reading EXCEPT ![c] = \E q \in Query : phase'[c][q] = "running"]
<1>1. Uncommitted' = [Uncommitted EXCEPT ![c] = IF held'[c] THEN pending'[c] ELSE {}]
  BY DEF Apart, Uncommitted
<1>2. Waiting' = [Waiting EXCEPT ![c] = held'[c] /\ (~autoCommit'[c] \/ stuck'[c])]
  BY DEF Apart, Waiting
<1>3. Reading' = [Reading EXCEPT ![c] = \E q \in Query : phase'[c][q] = "running"]
  BY DEF Apart, Reading
<1> QED
  BY <1>1, <1>2, <1>3

\* The mapping at one connection.
LEMMA MappedHere ==
  ASSUME NEW c \in Conn
  PROVE  /\ Uncommitted[c] = IF held[c] THEN pending[c] ELSE {}
         /\ Waiting[c] = (held[c] /\ (~autoCommit[c] \/ stuck[c]))
         /\ Reading[c] = \E q \in Query : phase[c][q] = "running"
         /\ Waiting[c] \in BOOLEAN /\ Reading[c] \in BOOLEAN
BY DEF Uncommitted, Waiting, Reading

\* What of the mapping stays when nothing it looks at changes at c.
LEMMA MappedSame ==
  ASSUME NEW c \in Conn, Apart(c)
  PROVE  /\ held'[c] = held[c] /\ pending'[c] = pending[c] => Uncommitted' = Uncommitted
         /\ held'[c] = held[c] /\ autoCommit'[c] = autoCommit[c] /\ stuck'[c] = stuck[c]
              => Waiting' = Waiting
         /\ phase'[c] = phase[c] => Reading' = Reading
<1>1. ASSUME held'[c] = held[c], pending'[c] = pending[c]
      PROVE  Uncommitted' = Uncommitted
  <2>1. \A d \in Conn : held'[d] = held[d] /\ pending'[d] = pending[d]
    BY <1>1 DEF Apart
  <2> QED
    BY <2>1 DEF Uncommitted
<1>2. ASSUME held'[c] = held[c], autoCommit'[c] = autoCommit[c], stuck'[c] = stuck[c]
      PROVE  Waiting' = Waiting
  <2>1. \A d \in Conn : /\ held'[d] = held[d] /\ stuck'[d] = stuck[d]
                         /\ autoCommit'[d] = autoCommit[d]
    BY <1>2 DEF Apart
  <2> QED
    BY <2>1 DEF Waiting
<1>3. ASSUME phase'[c] = phase[c]
      PROVE  Reading' = Reading
  <2>1. \A d \in Conn : phase'[d] = phase[d]
    BY <1>3 DEF Apart
  <2> QED
    BY <2>1 DEF Reading
<1> QED
  BY <1>1, <1>2, <1>3

-----------------------------------------------------------------------------
(* The steps of the store. *)

\* At most the rows that c reads change.
LEMMA AsRead ==
  ASSUME NEW c \in Conn, Apart(c), disk' = disk, Reported' = Reported,
         held'[c] = held[c], pending'[c] = pending[c],
         autoCommit'[c] = autoCommit[c], stuck'[c] = stuck[c]
  PROVE  [Store!Next]_(Store!vars)
<1>1. Uncommitted' = Uncommitted /\ Waiting' = Waiting
  BY MappedSame
<1>2. Reading' = [Reading EXCEPT ![c] = Reading'[c]]
  BY MappedAt, MappedHere DEF Reading
<1>3. CASE Reading'[c] = Reading[c]
  <2>1. Reading' = Reading
    BY <1>2, <1>3 DEF Reading
  <2> QED
    BY <1>1, <2>1 DEF Store!vars
<1>4. CASE Reading'[c] # Reading[c]
  <2>1. Reading'[c] = ~Reading[c]
    BY <1>4 DEF Reading
  <2>2. Store!Read(c)
    BY <1>1, <1>2, <2>1 DEF Store!Read
  <2> QED
    BY <2>2 DEF Store!Next
<1> QED
  BY <1>3, <1>4

\* c comes to be in a transaction.
LEMMA AsBegin ==
  ASSUME NEW c \in Conn, Apart(c), disk' = disk, Reported' = Reported,
         held[c], held'[c] = held[c], pending'[c] = pending[c], phase' = phase,
         ~autoCommit'[c] \/ stuck'[c]
  PROVE  Store!Begin(c)
<1>1. Uncommitted' = Uncommitted /\ Reading' = Reading
  BY MappedSame
<1>2. Waiting' = [Waiting EXCEPT ![c] = TRUE]
  BY MappedAt
<1> QED
  BY <1>1, <1>2 DEF Store!Begin

\* What c has not committed goes.
LEMMA AsRollback ==
  ASSUME NEW c \in Conn, Apart(c), disk' = disk, Reported' = Reported,
         held'[c] => pending'[c] = {}, phase' = phase,
         held'[c] /\ (~autoCommit'[c] \/ stuck'[c]) => Waiting[c]
  PROVE  Store!Rollback(c)
<1>1. Uncommitted' = [Uncommitted EXCEPT ![c] = {}]
  BY MappedAt
<1>2. Reading' = Reading
  BY MappedSame
<1>3. Waiting' = Waiting \/ Waiting' = [Waiting EXCEPT ![c] = FALSE]
  <2>1. CASE held'[c] /\ (~autoCommit'[c] \/ stuck'[c])
    <3>1. Waiting' = [Waiting EXCEPT ![c] = TRUE]
      BY <2>1, MappedAt
    <3>2. Waiting[c] = TRUE
      BY <2>1, MappedHere
    <3> QED
      BY <3>1, <3>2 DEF Waiting
  <2>2. CASE ~(held'[c] /\ (~autoCommit'[c] \/ stuck'[c]))
    BY <2>2, MappedAt
  <2> QED
    BY <2>1, <2>2
<1> QED
  BY <1>1, <1>2, <1>3 DEF Store!Rollback

\* Another connection has nothing uncommitted while c may write.
LEMMA OthersIdle ==
  ASSUME IInv, NEW c \in Conn, CanWrite(c) \/ lock[c] >= RESERVED_LOCK
  PROVE  \A d \in Conn \ {c} : Uncommitted[d] = {}
<1> TAKE d \in Conn \ {c}
<1>1. ~(lock[d] >= RESERVED_LOCK)
  BY DEF IInv, EngineInv, EngineTypeOK, LockInv, OneWriter, CanWrite, OtherHolds,
     NO_LOCK, RESERVED_LOCK, PENDING_LOCK
<1>2. pending[d] = {}
  BY <1>1 DEF IInv, EngineInv, LockInv, WorkIsLocked
<1> QED
  BY <1>2 DEF Uncommitted

\* A row is written in the transaction of c, or by itself.
LEMMA AsInsert ==
  ASSUME IInv, NEW c \in Conn, Apart(c), held[c], UNCHANGED <<held, stuck, phase>>,
         NEW r \in Row, Fresh(r), Report(c, r),
         WriteCommitted(c, r) \/ WriteBuffered(c, r)
  PROVE  Store!Insert(c, r)
<1>1. r \notin disk \cup Reported
  BY DEF Fresh, Reported
<1>2. \A d \in Conn \ {c} : Uncommitted[d] = {}
  BY OthersIdle DEF WriteCommitted, WriteBuffered
<1>3. Reported' = Reported \cup {r}
  BY DEF Report, Reported, IInv, DbTypeOK
<1>4. Waiting' = Waiting /\ Reading' = Reading
  BY MappedSame DEF WriteCommitted, WriteBuffered
<1>5. CASE WriteBuffered(c, r)
  <2>1. Waiting[c]
    BY <1>5, MappedHere DEF WriteBuffered, HaltEnds
  <2>2. disk' = disk /\ pending'[c] = pending[c] \cup {r}
    BY <1>5 DEF WriteBuffered, IInv, EngineInv, EngineTypeOK
  <2>3. Uncommitted' = [Uncommitted EXCEPT ![c] = @ \cup {r}]
    BY <2>2, MappedAt, MappedHere
  <2> QED
    BY <1>1, <1>2, <1>3, <1>4, <2>1, <2>2, <2>3 DEF Store!Insert
<1>6. CASE WriteCommitted(c, r)
  <2>1. ~Waiting[c]
    BY <1>6, MappedHere DEF WriteCommitted, HaltEnds
  <2>2. pending[c] = {}
    BY <1>6 DEF WriteCommitted, HaltEnds, IInv, EngineInv, EngineTypeOK, LockInv,
       AutoCommitIsSettled, WorkIsLocked, NO_LOCK, RESERVED_LOCK, PENDING_LOCK
  <2>3. disk' = disk \cup {r} /\ pending'[c] = {}
    BY <1>6, <2>2 DEF WriteCommitted, EndTransaction, IInv, EngineInv, EngineTypeOK
  <2>4. Uncommitted' = Uncommitted
    BY <2>2, <2>3, MappedSame
  <2>5. Store!Alone(c)
    BY <1>6, ExcludedReaders DEF WriteCommitted, Store!Alone, Reading, IInv, EngineInv, LockInv
  <2> QED
    BY <1>1, <1>2, <1>3, <1>4, <2>1, <2>3, <2>4, <2>5 DEF Store!Insert
<1> QED
  BY <1>5, <1>6

\* COMMIT, by commitTransaction or by exec: refused, nothing to do, or done.
LEMMA AsCommit ==
  ASSUME IInv, NEW c \in Conn, Apart(c), held[c], UNCHANGED held, Reported' = Reported,
         ExecCommit(c)
  PROVE  [Store!Next]_(Store!vars)
<1>1. CASE UNCHANGED <<disk, autoCommit, pending, stuck, phase>>
  BY <1>1, AsRead
<1>2. CASE /\ ~autoCommit[c] /\ ~stuck[c]
           /\ lock[c] < RESERVED_LOCK \/ CanExclude(c)
           /\ EndTransaction(c, lock[c], pending[c])
           /\ autoCommit' = [autoCommit EXCEPT ![c] = TRUE]
           /\ UNCHANGED <<open, stuck, unfinalized, phase>>
  <2>1. Waiting[c] /\ Uncommitted[c] = pending[c]
    BY <1>2, MappedHere
  <2>2. disk' = disk \cup pending[c] /\ pending'[c] = {}
    BY <1>2 DEF EndTransaction, IInv, EngineInv, EngineTypeOK
  <2>3. Uncommitted' = [Uncommitted EXCEPT ![c] = {}]
    BY <2>2, MappedAt
  <2>4. ~(held'[c] /\ (~autoCommit'[c] \/ stuck'[c]))
    BY <1>2 DEF IInv, EngineInv, EngineTypeOK
  <2>5. Waiting' = [Waiting EXCEPT ![c] = FALSE]
    BY <2>4, MappedAt
  <2>6. Reading' = Reading
    BY <1>2, MappedSame
  <2>7. pending[c] # {} => Store!Alone(c)
    <3>1. pending[c] # {} => ~(lock[c] < RESERVED_LOCK)
      BY DEF IInv, EngineInv, EngineTypeOK, LockInv, WorkIsLocked, NO_LOCK, RESERVED_LOCK,
         PENDING_LOCK
    <3> QED
      BY <1>2, <3>1, ExcludedReaders DEF Store!Alone, Reading, IInv
  <2>8. Store!Commit(c)
    BY <2>1, <2>2, <2>3, <2>5, <2>6, <2>7 DEF Store!Commit
  <2> QED
    BY <2>8 DEF Store!Next
<1> QED
  BY <1>1, <1>2 DEF ExecCommit, EndFails, engineVars

\* ROLLBACK, by rollbackTransaction or by exec.
LEMMA AsExecRollback ==
  ASSUME IInv, NEW c \in Conn, Apart(c), held[c], UNCHANGED held, Reported' = Reported,
         ExecRollback(c)
  PROVE  [Store!Next]_(Store!vars)
<1>1. CASE UNCHANGED engineVars
  BY <1>1, AsRead DEF engineVars
<1>2. CASE /\ ~autoCommit[c]
           /\ EndTransaction(c, lock[c], {})
           /\ UNCHANGED <<open, stuck, unfinalized, phase>>
  <2>1. disk' = disk /\ pending'[c] = {}
    BY <1>2 DEF EndTransaction, IInv, EngineInv, EngineTypeOK
  <2>2. Waiting[c]
    BY <1>2, MappedHere
  <2>3. Store!Rollback(c)
    BY <1>2, <2>1, <2>2, AsRollback
  <2> QED
    BY <2>3 DEF Store!Next
<1> QED
  BY <1>1, <1>2 DEF ExecRollback, EndFails

\* BEGIN, by beginTransaction or by exec.
LEMMA AsExecBegin ==
  ASSUME IInv, NEW c \in Conn, Apart(c), held[c], UNCHANGED held, Reported' = Reported,
         ExecBegin(c)
  PROVE  [Store!Next]_(Store!vars)
<1>1. ~autoCommit'[c]
  BY DEF ExecBegin, IInv, EngineInv, EngineTypeOK
<1>2. Store!Begin(c)
  BY <1>1, AsBegin DEF ExecBegin
<1> QED
  BY <1>2 DEF Store!Next

\* An INSERT that is not executed: blocked, refused, aborted or rolled back.
LEMMA AsFailure ==
  ASSUME IInv, NEW c \in Conn, Apart(c), held[c], UNCHANGED <<held, phase, stuck>>,
         Reported' = Reported, WriteBlocked(c) \/ WriteFails(c)
  PROVE  [Store!Next]_(Store!vars)
<1>1. CASE UNCHANGED <<disk, autoCommit, pending>>
  BY <1>1, AsRead
<1>2. CASE /\ EndTransaction(c, RESERVED_LOCK, {})
           /\ \/ UNCHANGED autoCommit
              \/ autoCommit' = [autoCommit EXCEPT ![c] = TRUE]
  <2>1. disk' = disk /\ pending'[c] = {}
    BY <1>2 DEF EndTransaction, IInv, EngineInv, EngineTypeOK
  <2>2. ~autoCommit'[c] \/ stuck'[c] => Waiting[c]
    BY <1>2, MappedHere DEF IInv, EngineInv, EngineTypeOK
  <2>3. Store!Rollback(c)
    BY <2>1, <2>2, AsRollback
  <2> QED
    BY <2>3 DEF Store!Next
<1> QED
  BY <1>1, <1>2 DEF WriteBlocked, WriteFails, WriteRefused, WriteAborted, WriteRolledBack

-----------------------------------------------------------------------------
(* The steps of MadDatabase. *)

\* A call is about one connection.
LEMMA StepIsApart ==
  ASSUME IInv, NEW t \in Thread, NEW c \in Conn, ClientStep(t, c)
  PROVE  Apart(c)
<1> USE DEF Apart, IInv, EngineInv, EngineTypeOK, DbTypeOK
<1>1. CASE OpenDatabase(t, c) \/ CloseDatabase(t, c)
  BY <1>1 DEF OpenDatabase, CloseDatabase, Open, Close, engineVars
<1>2. ASSUME NEW l, NEW rows, EndTransaction(c, l, rows),
             UNCHANGED <<held, stuck, phase>>,
             \/ UNCHANGED autoCommit
             \/ autoCommit' = [autoCommit EXCEPT ![c] = TRUE]
      PROVE  Apart(c)
  BY <1>2 DEF EndTransaction
<1>3. ASSUME UNCHANGED held, ExecBegin(c) \/ ExecCommit(c) \/ ExecRollback(c)
      PROVE  Apart(c)
  <2>1. CASE ExecBegin(c)
    BY <1>3, <2>1 DEF ExecBegin
  <2>2. CASE ExecCommit(c) \/ ExecRollback(c)
    BY <1>2, <1>3, <2>2 DEF ExecCommit, ExecRollback, EndFails, engineVars
  <2> QED
    BY <1>3, <2>1, <2>2
<1>4. ASSUME UNCHANGED <<held, phase>>,
             UNCHANGED stuck \/ stuck' = [stuck EXCEPT ![c] = TRUE],
             UNCHANGED <<autoCommit, pending>>
      PROVE  Apart(c)
  BY <1>4
<1>5. ASSUME UNCHANGED <<held, phase, stuck>>, NEW r,
             \/ WriteCommitted(c, r) \/ WriteBuffered(c, r)
             \/ WriteBlocked(c) \/ WriteFails(c)
      PROVE  Apart(c)
  <2>1. CASE WriteBuffered(c, r)
    BY <1>5, <2>1 DEF WriteBuffered
  <2>2. CASE WriteBlocked(c)
    BY <1>4, <1>5, <2>2 DEF WriteBlocked
  <2>3. CASE WriteCommitted(c, r)
    BY <1>2, <1>5, <2>3 DEF WriteCommitted
  <2>4. CASE WriteFails(c)
    BY <1>2, <1>4, <1>5, <2>4 DEF WriteFails, WriteRefused, WriteAborted, WriteRolledBack
  <2> QED
    BY <1>5, <2>1, <2>2, <2>3, <2>4
<1>6. CASE TransactionStep(t, c)
  BY <1>3, <1>4, <1>6 DEF TransactionStep, BeginTransaction, BeginExec, BeginSet,
     CommitTransaction, CommitExec, CommitSet, RollbackTransaction, RollbackExec,
     RollbackSet, engineVars
<1>7. CASE InsertStep(t, c)
  BY <1>4, <1>5, <1>7 DEF InsertStep, InsertDone, InsertUnbound, InsertBlocked,
     InsertFails, Inserting, WriteBlocked, dbVars
<1>8. ASSUME NEW s \in Sql, Exec(t, c, s)
      PROVE  Apart(c)
  BY <1>3, <1>5, <1>8 DEF Exec, ExecInsert, dbVars
<1>9. CASE QueryStep(t, c)
  BY <1>9 DEF QueryStep, DoQuery, MoveToFirst, MoveToFirstStep, MoveToNext, DestroyQuery,
     PrepareQuery, ResetQuery, StepQuery, FinalizeQuery, HaltQuery, dbVars
<1> QED
  BY <1>1, <1>6, <1>7, <1>8, <1>9 DEF ClientStep

\* What a session was told is only moved between the sets that tell its fate.
LEMMA ToldStays ==
  ASSUME IInv, NEW c \in Conn,
         \/ UNCHANGED historyVars
         \/ /\ buffered' = [buffered EXCEPT ![c] = {}]
            /\ \/ kept' = kept \cup buffered[c] /\ UNCHANGED undone
               \/ undone' = undone \cup buffered[c] /\ UNCHANGED kept
  PROVE  Reported' = Reported
<1>1. CASE UNCHANGED historyVars
  BY <1>1 DEF historyVars, Reported
<1>2. CASE /\ buffered' = [buffered EXCEPT ![c] = {}]
           /\ \/ kept' = kept \cup buffered[c] /\ UNCHANGED undone
              \/ undone' = undone \cup buffered[c] /\ UNCHANGED kept
  <2>1. UNION {buffered[d] : d \in Conn}
          = buffered[c] \cup UNION {buffered'[d] : d \in Conn}
    BY <1>2 DEF IInv, DbTypeOK
  <2> QED
    BY <1>2, <2>1 DEF Reported
<1> QED
  BY <1>1, <1>2

\* Opening begins with nothing, and closing leaves nothing.
LEMMA StoreOpenClose ==
  ASSUME IInv, NEW t \in Thread, NEW c \in Conn, Apart(c),
         OpenDatabase(t, c) \/ CloseDatabase(t, c)
  PROVE  [Store!Next]_(Store!vars)
<1>1. Reported' = Reported /\ disk' = disk /\ phase' = phase
  BY ToldStays DEF OpenDatabase, CloseDatabase, Open, Close, engineVars
<1>2. held'[c] => pending'[c] = {} /\ autoCommit'[c] /\ ~stuck'[c]
  <2>1. CASE OpenDatabase(t, c)
    BY <2>1, AtConnection DEF OpenDatabase, Open, IInv, EngineInv, LockInv, ClosedIsFree,
       StuckIsUnfinalized, IsBusy, WorkIsLocked, NO_LOCK, RESERVED_LOCK
  <2>2. CASE CloseDatabase(t, c)
    BY <2>2 DEF CloseDatabase, IInv, DbTypeOK
  <2> QED
    BY <2>1, <2>2
<1>3. Store!Rollback(c)
  BY <1>1, <1>2, AsRollback
<1> QED
  BY <1>3 DEF Store!Next

LEMMA StoreTransaction ==
  ASSUME IInv, NEW t \in Thread, NEW c \in Conn, <<t, c>> \in Client, Apart(c),
         TransactionStep(t, c)
  PROVE  [Store!Next]_(Store!vars)
<1>1. Reported' = Reported
  BY ToldStays DEF TransactionStep, BeginTransaction, BeginExec, BeginSet,
     CommitTransaction, CommitExec, CommitSet, RollbackTransaction, RollbackExec,
     RollbackSet
<1>2. CASE UNCHANGED engineVars
  BY <1>1, <1>2, AsRead DEF engineVars, TransactionStep, BeginTransaction, BeginExec,
     BeginSet, CommitTransaction, CommitExec, CommitSet, RollbackTransaction,
     RollbackExec, RollbackSet
<1>3. pc[<<t, c>>] \in {"begin", "commit", "rollback"} => held[c]
  BY DEF IInv, CallsHold
<1>4. CASE BeginExec(t, c)
  BY <1>1, <1>3, <1>4, AsExecBegin DEF BeginExec
<1>5. CASE CommitExec(t, c)
  BY <1>1, <1>3, <1>5, AsCommit DEF CommitExec
<1>6. CASE RollbackExec(t, c)
  BY <1>1, <1>3, <1>6, AsExecRollback DEF RollbackExec
<1> QED
  BY <1>2, <1>4, <1>5, <1>6 DEF TransactionStep, BeginTransaction, BeginSet,
     CommitTransaction, CommitSet, RollbackTransaction, RollbackSet

LEMMA StoreInsert ==
  ASSUME IInv, "bind" \notin Fault, NEW t \in Thread, NEW c \in Conn, Apart(c),
         InsertStep(t, c)
  PROVE  [Store!Next]_(Store!vars)
<1>1. ASSUME NEW r \in Row, InsertDone(t, c, r)
      PROVE  [Store!Next]_(Store!vars)
  <2>1. Store!Insert(c, r)
    BY <1>1, AsInsert DEF InsertDone, Inserting, dbVars
  <2> QED
    BY <2>1 DEF Store!Next
<1>2. CASE InsertBlocked(t, c)
  <2>1. Reported' = Reported
    BY <1>2, ToldStays DEF InsertBlocked
  <2>2. stuck'[c]
    BY <1>2 DEF InsertBlocked, IInv, EngineInv, EngineTypeOK
  <2>3. Store!Begin(c)
    BY <1>2, <2>1, <2>2, AsBegin DEF InsertBlocked, Inserting, WriteBlocked, dbVars
  <2> QED
    BY <2>3 DEF Store!Next
<1>3. CASE InsertFails(t, c)
  <2>1. Reported' = Reported
    BY <1>3, ToldStays DEF InsertFails
  <2> QED
    BY <1>3, <2>1, AsFailure DEF InsertFails, Inserting, dbVars
<1> QED
  BY <1>1, <1>2, <1>3 DEF InsertStep, InsertUnbound

LEMMA StoreExec ==
  ASSUME IInv, NEW t \in Thread, NEW c \in Conn, Apart(c), NEW s \in Sql, Exec(t, c, s)
  PROVE  [Store!Next]_(Store!vars)
<1>1. held[c] /\ UNCHANGED held
  BY DEF Exec, dbVars
<1>2. ASSUME UNCHANGED historyVars
      PROVE  Reported' = Reported
  BY <1>2, ToldStays
<1>3. CASE ExecInsert(c)
  <2>1. ASSUME NEW r \in Row, Fresh(r), Report(c, r),
               WriteCommitted(c, r) \/ WriteBuffered(c, r)
        PROVE  [Store!Next]_(Store!vars)
    <3>1. Store!Insert(c, r)
      BY <1>1, <1>3, <2>1, AsInsert DEF ExecInsert
    <3> QED
      BY <3>1 DEF Store!Next
  <2>2. CASE (WriteBlocked(c) \/ WriteFails(c)) /\ UNCHANGED historyVars
    BY <1>1, <1>2, <1>3, <2>2, AsFailure DEF ExecInsert
  <2> QED
    BY <1>3, <2>1, <2>2 DEF ExecInsert
<1> QED
  BY <1>1, <1>2, <1>3, AsExecBegin, AsCommit, AsExecRollback DEF Exec

LEMMA StoreQuery ==
  ASSUME IInv, NEW t \in Thread, NEW c \in Conn, Apart(c), QueryStep(t, c)
  PROVE  [Store!Next]_(Store!vars)
<1>1. UNCHANGED <<disk, pending, autoCommit, stuck, held, historyVars>>
  BY DEF QueryStep, DoQuery, MoveToFirst, MoveToFirstStep, MoveToNext, DestroyQuery,
     PrepareQuery, ResetQuery, StepQuery, FinalizeQuery, HaltQuery, dbVars
<1>2. Reported' = Reported
  BY <1>1, ToldStays
<1> QED
  BY <1>1, <1>2, AsRead

LEMMA StorePowerLoss ==
  ASSUME IInv, PowerLoss
  PROVE  Store!Crash
<1>1. Uncommitted' = [c \in Conn |-> {}]
  BY DEF PowerLoss, Uncommitted
<1>2. Waiting' = [c \in Conn |-> FALSE]
  BY DEF PowerLoss, Waiting
<1>3. Reading' = [c \in Conn |-> FALSE]
  BY DEF PowerLoss, EngineCrash, Reading
<1>4. Reported' \subseteq Reported
  BY DEF PowerLoss, Reported
<1> QED
  BY <1>1, <1>2, <1>3, <1>4 DEF PowerLoss, EngineCrash, Store!Crash

LEMMA StoreStep ==
  ASSUME "bind" \notin Fault
  PROVE  IInv /\ [Next]_vars => [Store!Next]_(Store!vars)
<1> SUFFICES ASSUME IInv, [Next]_vars
             PROVE  [Store!Next]_(Store!vars)
  OBVIOUS
<1>1. ASSUME NEW t \in Thread, NEW c \in Conn, <<t, c>> \in Client, ClientStep(t, c)
      PROVE  [Store!Next]_(Store!vars)
  <2>1. Apart(c)
    BY <1>1, StepIsApart
  <2> QED
    BY <1>1, <2>1, StoreOpenClose, StoreTransaction, StoreInsert, StoreExec, StoreQuery
       DEF ClientStep
<1>2. ASSUME NEW k \in Client, ClientStep(k[1], k[2])
      PROVE  [Store!Next]_(Store!vars)
  BY <1>1, <1>2, ClientPair
<1>3. CASE PowerLoss
  BY <1>3, StorePowerLoss DEF Store!Next
<1>4. CASE UNCHANGED vars
  BY <1>4 DEF vars, dbVars, engineVars, historyVars, Store!vars, Uncommitted, Waiting,
     Reading, Reported
<1> QED
  BY <1>2, <1>3, <1>4 DEF Next

LEMMA StoreInit == Init => Store!Init
<1> SUFFICES ASSUME Init
             PROVE  Store!Init
  OBVIOUS
<1>1. Uncommitted = [c \in Conn |-> {}]
  BY DEF Init, Uncommitted
<1>2. Waiting = [c \in Conn |-> FALSE]
  BY DEF Init, Waiting
<1>3. Reading = [c \in Conn |-> FALSE]
  BY DEF Init, EngineInit, Reading
<1>4. Reported = {}
  BY DEF Init, Reported
<1> QED
  BY <1>1, <1>2, <1>3, <1>4 DEF Init, EngineInit, Store!Init

\* However threads, connections and crashes interleave, the calls of MadDatabase
\* are steps of the store: what a connection writes comes into the file as a
\* whole or not at all, no connection reads while another changes the file, and
\* a row reported inserted is in the file or in the transaction.  Values are
\* taken to be bound: insert reports a row it could not bind.
THEOREM ImplementsStore ==
  ASSUME "bind" \notin Fault
  PROVE  Spec => IsTransactionStore
<1>1. Init => Store!Init
  BY StoreInit
<1>2. IInv /\ [Next]_vars => [Store!Next]_(Store!vars)
  BY StoreStep
<1> QED
  BY <1>1, <1>2, IInvInit, IInvInductive, PTL DEF Spec, IsTransactionStore, Store!Spec
=============================================================================
