------------------------- MODULE MadDatabaseProofs -------------------------
(***************************************************************************)
(* What holds of MadDatabase for every set of threads, connections,        *)
(* queries and rows; for connections that no two threads share, what       *)
(* isInTransaction and rollbackTransaction are worth; and for the only     *)
(* connection to a file, what insert and commitTransaction are worth.      *)
(***************************************************************************)
EXTENDS MadDatabase, SqliteConnectionProofs

DbTypeOK ==
  /\ held \in [Conn -> BOOLEAN]
  /\ isInTransaction \in [Conn -> BOOLEAN]
  /\ pc \in [Client -> Step]
  /\ buffered \in [Conn -> SUBSET Row]
  /\ kept \subseteq Row
  /\ undone \subseteq Row

IInv == EngineInv /\ DbTypeOK /\ CallsHold

\* A step of a client is a step of a thread on a connection.
LEMMA ClientPair ==
  ASSUME NEW k \in Client
  PROVE  k[1] \in Thread /\ k[2] \in Conn /\ k = <<k[1], k[2]>>
BY ClientAssumption

-----------------------------------------------------------------------------
(* The inductive invariant. *)

\* A thread in a call, or with a MadDatabase, is on an open connection.
LEMMA CallIsOpen ==
  ASSUME CallsHold, NEW t \in Thread, NEW c \in Conn, <<t, c>> \in Client,
         held[c] \/ pc[<<t, c>>] \notin {"idle", "rewound"}
  PROVE  open[c]
BY DEF CallsHold

LEMMA ClientStepEngine ==
  ASSUME IInv, NEW t \in Thread, NEW c \in Conn, <<t, c>> \in Client,
         ClientStep(t, c)
  PROVE  EngineInv'
<1> USE DEF IInv
<1>1. CASE OpenDatabase(t, c)
  BY <1>1, OpenInv DEF OpenDatabase
<1>2. CASE CloseDatabase(t, c)
  BY <1>2, CloseInv DEF CloseDatabase
<1>3. CASE TransactionStep(t, c)
  <2>1. CASE UNCHANGED engineVars
    BY <2>1, EngineStutter
  <2>2. CASE BeginExec(t, c)
    BY <2>2, CallIsOpen, ExecBeginInv DEF BeginExec
  <2>3. CASE CommitExec(t, c)
    BY <2>3, CallIsOpen, ExecCommitInv DEF CommitExec
  <2>4. CASE RollbackExec(t, c)
    BY <2>4, CallIsOpen, ExecRollbackInv DEF RollbackExec
  <2> QED
    BY <1>3, <2>1, <2>2, <2>3, <2>4 DEF TransactionStep, BeginTransaction,
       BeginSet, CommitTransaction, CommitSet, RollbackTransaction, RollbackSet
<1>4. CASE InsertStep(t, c)
  <2>1. ASSUME Inserting(t, c), UNCHANGED stuck, NEW r,
               \/ r \in Row /\ (WriteCommitted(c, r) \/ WriteBuffered(c, r))
               \/ WriteFails(c)
        PROVE  EngineInv'
    BY <2>1, CallIsOpen, WriteInv DEF Inserting, WriteFails
  <2>2. ASSUME NEW r \in Row, InsertDone(t, c, r)
        PROVE  EngineInv'
    BY <2>1, <2>2 DEF InsertDone
  <2>3. ASSUME NEW r \in Row, InsertUnbound(t, c, r)
        PROVE  EngineInv'
    <3>1. EngineTypeOK'
      BY <2>3 DEF InsertUnbound, Inserting, EngineInv, EngineTypeOK
    <3>2. Local(c)
      BY <2>3, AtConnection, CallIsOpen DEF InsertUnbound, Inserting, EngineInv,
         EngineTypeOK, Local
    <3> QED
      BY <3>1, <3>2, LocalInv
  <2>4. CASE InsertBlocked(t, c)
    BY <2>4, CallIsOpen, AbandonInv DEF InsertBlocked, Inserting
  <2>5. CASE InsertFails(t, c)
    BY <2>1, <2>5 DEF InsertFails
  <2> QED
    BY <1>4, <2>2, <2>3, <2>4, <2>5 DEF InsertStep
<1>5. ASSUME NEW s \in Sql, Exec(t, c, s)
      PROVE  EngineInv'
  <2>0. open[c]
    BY <1>5, CallIsOpen DEF Exec
  <2>1. CASE ExecInsert(c)
    <3>1. ASSUME NEW r \in Row, WriteCommitted(c, r) \/ WriteBuffered(c, r)
          PROVE  EngineInv'
      BY <2>0, <2>1, <3>1, WriteInv DEF ExecInsert
    <3>2. CASE WriteBlocked(c) \/ WriteFails(c)
      BY <2>0, <2>1, <3>2, WriteInv DEF ExecInsert, WriteFails
    <3> QED
      BY <2>1, <3>1, <3>2 DEF ExecInsert
  <2> QED
    BY <1>5, <2>0, <2>1, ExecBeginInv, ExecCommitInv, ExecRollbackInv DEF Exec
<1>6. ASSUME NEW q \in Query,
             \/ DoQuery(t, c, q) \/ MoveToFirst(t, c, q) \/ MoveToFirstStep(t, c, q)
             \/ MoveToNext(t, c, q) \/ DestroyQuery(t, c, q)
      PROVE  EngineInv'
  <2>1. CASE DoQuery(t, c, q)
    BY <2>1, PrepareQueryInv DEF DoQuery
  <2>2. CASE MoveToFirst(t, c, q)
    BY <2>2, ResetQueryInv DEF MoveToFirst
  <2>3. CASE MoveToFirstStep(t, c, q)
    BY <2>3, PreparedIsOpen, StepQueryInv DEF MoveToFirstStep
  <2>4. CASE MoveToNext(t, c, q)
    BY <2>4, PreparedIsOpen, StepQueryInv DEF MoveToNext
  <2>5. CASE DestroyQuery(t, c, q)
    BY <2>5, FinalizeQueryInv DEF DestroyQuery
  <2> QED
    BY <1>6, <2>1, <2>2, <2>3, <2>4, <2>5
<1> QED
  BY <1>1, <1>2, <1>3, <1>4, <1>5, <1>6 DEF ClientStep, QueryStep

LEMMA ReportType ==
  ASSUME DbTypeOK, NEW c \in Conn, NEW r \in Row, Report(c, r)
  PROVE  /\ buffered' \in [Conn -> SUBSET Row]
         /\ kept' \subseteq Row /\ undone' \subseteq Row
BY DEF DbTypeOK, Report

LEMMA ClientStepTypes ==
  ASSUME IInv, NEW t \in Thread, NEW c \in Conn, <<t, c>> \in Client,
         ClientStep(t, c)
  PROVE  DbTypeOK'
<1> USE DEF IInv
<1>1. CASE OpenDatabase(t, c) \/ CloseDatabase(t, c)
  BY <1>1 DEF OpenDatabase, CloseDatabase, historyVars, DbTypeOK
<1>2. CASE TransactionStep(t, c)
  BY <1>2 DEF TransactionStep, BeginTransaction, BeginExec, BeginSet,
     CommitTransaction, CommitExec, CommitSet, RollbackTransaction, RollbackExec,
     RollbackSet, Goto, Step, historyVars, DbTypeOK
<1>3. ASSUME NEW r \in Row, Report(c, r), UNCHANGED dbVars
      PROVE  DbTypeOK'
  BY <1>3, ReportType DEF dbVars, DbTypeOK
<1>4. ASSUME UNCHANGED <<dbVars, historyVars>>
      PROVE  DbTypeOK'
  BY <1>4 DEF dbVars, historyVars, DbTypeOK
<1>5. CASE InsertStep(t, c)
  BY <1>3, <1>4, <1>5 DEF InsertStep, InsertDone, InsertUnbound, InsertBlocked,
     InsertFails, Inserting
<1>6. ASSUME NEW s \in Sql, Exec(t, c, s)
      PROVE  DbTypeOK'
  BY <1>3, <1>4, <1>6 DEF Exec, ExecInsert
<1>7. CASE QueryStep(t, c)
  BY <1>7 DEF QueryStep, DoQuery, MoveToFirst, MoveToFirstStep, MoveToNext,
     DestroyQuery, Goto, Step, dbVars, historyVars, DbTypeOK
<1> QED
  BY <1>1, <1>2, <1>5, <1>6, <1>7 DEF ClientStep

\* A call in progress keeps its MadDatabase: nobody else can let it go.
LEMMA ClientStepCalls ==
  ASSUME IInv, NEW t \in Thread, NEW c \in Conn, <<t, c>> \in Client,
         ClientStep(t, c)
  PROVE  CallsHold'
<1> USE DEF IInv
<1>1. ASSUME UNCHANGED <<open, held>>, NEW step, Goto(t, c, step),
             held[c] \/ step \in {"idle", "rewound"}
      PROVE  CallsHold'
  BY <1>1 DEF CallsHold, Goto, DbTypeOK
<1>2. ASSUME UNCHANGED <<open, held, pc>>
      PROVE  CallsHold'
  BY <1>2 DEF CallsHold
<1>3. CASE OpenDatabase(t, c)
  BY <1>3 DEF OpenDatabase, Open, CallsHold, DbTypeOK, EngineInv, EngineTypeOK
<1>4. CASE CloseDatabase(t, c)
  <2>1. /\ \A d \in Conn \ {c} : open'[d] = open[d] /\ held'[d] = held[d]
        /\ ~held'[c] /\ pc' = pc
    BY <1>4 DEF CloseDatabase, Close, engineVars, DbTypeOK, EngineInv, EngineTypeOK
  <2>2. ASSUME NEW k \in Client, pc[k] \notin {"idle", "rewound"}
        PROVE  k[2] # c
    BY <1>4, <2>2, ClientPair DEF CloseDatabase, InCall
  <2> QED
    BY <2>1, <2>2, ClientPair DEF CallsHold
<1>5. CASE TransactionStep(t, c)
  BY <1>1, <1>5 DEF TransactionStep, BeginTransaction, BeginExec, BeginSet,
     CommitTransaction, CommitExec, CommitSet, RollbackTransaction, RollbackExec,
     RollbackSet, CallsHold, engineVars, ExecBegin, ExecCommit, ExecRollback, EndFails
<1>6. CASE InsertStep(t, c)
  BY <1>2, <1>6 DEF InsertStep, InsertDone, InsertUnbound, InsertBlocked,
     InsertFails, Inserting, dbVars
<1>7. ASSUME NEW s \in Sql, Exec(t, c, s)
      PROVE  CallsHold'
  BY <1>2, <1>7 DEF Exec, ExecInsert, ExecBegin, ExecCommit, ExecRollback,
     EndFails, engineVars, dbVars
<1>8. CASE QueryStep(t, c)
  BY <1>1, <1>2, <1>8 DEF QueryStep, DoQuery, MoveToFirst, MoveToFirstStep,
     MoveToNext, DestroyQuery, PrepareQuery, ResetQuery, StepQuery, FinalizeQuery,
     HaltQuery, dbVars
<1> QED
  BY <1>3, <1>4, <1>5, <1>6, <1>7, <1>8 DEF ClientStep

LEMMA PowerLossInv ==
  ASSUME IInv, PowerLoss
  PROVE  IInv'
<1>1. EngineInv'
  BY EngineCrashInv DEF IInv, PowerLoss
<1>2. DbTypeOK'
  <2>1. undone' \subseteq Row
    BY DEF IInv, PowerLoss, DbTypeOK
  <2> QED
    BY <2>1 DEF IInv, PowerLoss, DbTypeOK, Step
<1>3. CallsHold'
  BY ClientPair DEF PowerLoss, CallsHold
<1> QED
  BY <1>1, <1>2, <1>3 DEF IInv

LEMMA IInvInductive == IInv /\ [Next]_vars => IInv'
<1> SUFFICES ASSUME IInv, [Next]_vars
             PROVE  IInv'
  OBVIOUS
<1>1. ASSUME NEW k \in Client, ClientStep(k[1], k[2])
      PROVE  IInv'
  BY <1>1, ClientPair, ClientStepEngine, ClientStepTypes, ClientStepCalls DEF IInv
<1>2. CASE PowerLoss
  BY <1>2, PowerLossInv
<1>3. CASE UNCHANGED vars
  BY <1>3, EngineStutter DEF vars, dbVars, historyVars, engineVars, IInv, DbTypeOK, CallsHold
<1> QED
  BY <1>1, <1>2, <1>3 DEF Next

LEMMA IInvInit == Init => IInv
BY EngineInitInv, ClientPair DEF Init, IInv, DbTypeOK, CallsHold, Step

\* Every variable keeps its type.
THEOREM TypeCorrect == Spec => []TypeOK
<1>1. IInv => TypeOK
  BY DEF IInv, EngineInv, DbTypeOK, TypeOK
<1> QED
  BY <1>1, IInvInit, IInvInductive, PTL DEF Spec

\* The file locks are what the transactions and queries in progress need,
\* whatever threads call in whatever order, insert and exec failing as they
\* do: one writer, uncommitted rows under its lock, readers under theirs.
THEOREM LocksCorrect == Spec => []LockInv
<1>1. IInv => LockInv
  BY DEF IInv, EngineInv
<1> QED
  BY <1>1, IInvInit, IInvInductive, PTL DEF Spec

-----------------------------------------------------------------------------
(* Reading. *)

\* A commit finds no other connection on a row of a query.
LEMMA FileStep ==
  ASSUME IInv, [Next]_vars, disk' # disk
  PROVE  \E c \in Conn : \A d \in Conn \ {c} : \A q \in Query :
           phase[d][q] # "running"
<1>1. ASSUME NEW c \in Conn, CanExclude(c)
      PROVE  \A d \in Conn \ {c} : \A q \in Query : phase[d][q] # "running"
  BY <1>1, ExcludedReaders DEF IInv
<1> SUFFICES \E c \in Conn : CanExclude(c)
  BY <1>1
<1>2. PICK k \in Client : ClientStep(k[1], k[2])
  BY DEF Next, PowerLoss, EngineCrash, vars, engineVars
<1> DEFINE t == k[1]
           c == k[2]
<1>3. c \in Conn
  BY ClientPair
<1> HIDE DEF t, c
<1>4. ClientStep(t, c)
  BY <1>2 DEF t, c
<1>5. \A r : \/ ExecBegin(c) \/ ExecRollback(c) \/ ExecCommit(c)
             \/ WriteCommitted(c, r) \/ WriteBuffered(c, r) \/ WriteBlocked(c)
             \/ WriteFails(c)
             => CanExclude(c)
  BY <1>3, FileChange DEF IInv, WriteFails
<1>6. CASE OpenDatabase(t, c) \/ CloseDatabase(t, c)
  BY <1>6 DEF OpenDatabase, CloseDatabase, Open, Close, engineVars
<1>7. CASE TransactionStep(t, c)
  BY <1>3, <1>5, <1>7 DEF TransactionStep, BeginTransaction, BeginExec, BeginSet,
     CommitTransaction, CommitExec, CommitSet, RollbackTransaction, RollbackExec,
     RollbackSet, engineVars
<1>8. CASE InsertStep(t, c)
  BY <1>3, <1>5, <1>8 DEF InsertStep, InsertDone, InsertUnbound, InsertBlocked, InsertFails
<1>9. ASSUME NEW s \in Sql, Exec(t, c, s)
      PROVE  CanExclude(c)
  BY <1>5, <1>9 DEF Exec, ExecInsert
<1>10. CASE QueryStep(t, c)
  BY <1>10 DEF QueryStep, DoQuery, MoveToFirst, MoveToFirstStep, MoveToNext,
     DestroyQuery, PrepareQuery, ResetQuery, StepQuery, FinalizeQuery, HaltQuery
<1> QED
  BY <1>3, <1>4, <1>6, <1>7, <1>8, <1>9, <1>10 DEF ClientStep

\* A query that stands on a row sees no other connection's commit.
THEOREM ReadersAreUndisturbed == Spec => ReadersUndisturbed
BY IInvInit, IInvInductive, FileStep, PTL DEF Spec, ReadersUndisturbed

-----------------------------------------------------------------------------
(* Connections of one thread each. *)

\* No connection is shared, COMMIT and ROLLBACK are not smuggled into exec, and
\* the engine does not roll a whole transaction back by itself.
Sole ==
  /\ \A k, l \in Client : k[2] = l[2] => k = l
  /\ Sql \cap {"COMMIT;", "ROLLBACK;"} = {}
  /\ "rollback" \notin Fault

\* The flag, the calls that test and set it, and the engine's auto-commit mode.
FlagInv ==
  /\ \A k \in Client :
       /\ isInTransaction[k[2]] /\ pc[k] \notin {"commitSet", "rollbackSet"}
            => ~autoCommit[k[2]]
       /\ pc[k] = "beginSet" => ~autoCommit[k[2]]
       /\ pc[k] \in {"commit", "commitSet", "rollback", "rollbackSet"}
            => isInTransaction[k[2]]
  /\ \A c \in Conn : isInTransaction[c] => \E k \in Client : k[2] = c

\* A step of t on c leaves every other client and connection as it is.
LEMMA OthersAlone ==
  ASSUME IInv, Sole, NEW t \in Thread, NEW c \in Conn, <<t, c>> \in Client,
         ClientStep(t, c)
  PROVE  /\ \A k \in Client : k[2] # c => pc'[k] = pc[k]
         /\ \A d \in Conn \ {c} :
              /\ isInTransaction'[d] = isInTransaction[d]
              /\ autoCommit'[d] = autoCommit[d]
              /\ pending'[d] = pending[d]
              /\ buffered'[d] = buffered[d]
              /\ held'[d] = held[d]
<1> USE DEF IInv
<1>1. pc' = pc \/ \E step : Goto(t, c, step)
  BY DEF ClientStep, OpenDatabase, CloseDatabase, TransactionStep,
     BeginTransaction, BeginExec, BeginSet,
     CommitTransaction, CommitExec, CommitSet, RollbackTransaction, RollbackExec,
     RollbackSet, InsertStep, InsertDone, InsertUnbound, InsertBlocked,
     InsertFails, Inserting, Exec, QueryStep, DoQuery, MoveToFirst,
     MoveToFirstStep, MoveToNext, DestroyQuery, dbVars
<1>1a. \A k \in Client : k[2] # c => pc'[k] = pc[k]
  BY <1>1, ClientPair DEF Goto, DbTypeOK
<1>2. \A d \in Conn \ {c} : isInTransaction'[d] = isInTransaction[d] /\ held'[d] = held[d]
  BY DEF ClientStep, OpenDatabase, CloseDatabase, TransactionStep,
     BeginTransaction, BeginExec, BeginSet,
     CommitTransaction, CommitExec, CommitSet, RollbackTransaction, RollbackExec,
     RollbackSet, InsertStep, InsertDone, InsertUnbound, InsertBlocked,
     InsertFails, Inserting, Exec, QueryStep, DoQuery, MoveToFirst,
     MoveToFirstStep, MoveToNext, DestroyQuery, dbVars, DbTypeOK
<1>3. \A d \in Conn \ {c} : buffered'[d] = buffered[d]
  BY DEF ClientStep, OpenDatabase, CloseDatabase, TransactionStep,
     BeginTransaction, BeginExec, BeginSet,
     CommitTransaction, CommitExec, CommitSet, RollbackTransaction, RollbackExec,
     RollbackSet, InsertStep, InsertDone, InsertUnbound, InsertBlocked,
     InsertFails, Report, Exec, ExecInsert, QueryStep, DoQuery, MoveToFirst,
     MoveToFirstStep, MoveToNext, DestroyQuery, historyVars, DbTypeOK
<1>4. \A d \in Conn \ {c} : autoCommit'[d] = autoCommit[d] /\ pending'[d] = pending[d]
  BY DEF ClientStep, OpenDatabase, Open, CloseDatabase, Close, TransactionStep,
     BeginTransaction, BeginExec, BeginSet, ExecBegin,
     CommitTransaction, CommitExec, CommitSet, ExecCommit, RollbackTransaction,
     RollbackExec, ExecRollback, RollbackSet, EndFails, EndTransaction,
     InsertStep, InsertDone, InsertUnbound, InsertBlocked,
     InsertFails, WriteFails, WriteCommitted, WriteBuffered, WriteBlocked,
     WriteRefused, WriteAborted, WriteRolledBack,
     Exec, ExecInsert, QueryStep, DoQuery, MoveToFirst,
     MoveToFirstStep, MoveToNext, DestroyQuery, PrepareQuery, ResetQuery, StepQuery,
     FinalizeQuery, HaltQuery, engineVars, EngineInv, EngineTypeOK
<1> QED
  BY <1>1a, <1>2, <1>3, <1>4

\* FlagInv for one client, its connection and its call.
FlagAt(k) ==
  /\ isInTransaction[k[2]] /\ pc[k] \notin {"commitSet", "rollbackSet"}
       => ~autoCommit[k[2]]
  /\ pc[k] = "beginSet" => ~autoCommit[k[2]]
  /\ pc[k] \in {"commit", "commitSet", "rollback", "rollbackSet"}
       => isInTransaction[k[2]]

LEMMA FlagStep ==
  ASSUME IInv, Sole, FlagInv, NEW t \in Thread, NEW c \in Conn, <<t, c>> \in Client,
         ClientStep(t, c)
  PROVE  FlagInv'
<1> DEFINE k == <<t, c>>
<1> USE DEF IInv
<1>0. /\ isInTransaction[c] /\ pc[k] \notin {"commitSet", "rollbackSet"} => ~autoCommit[c]
      /\ pc[k] = "beginSet" => ~autoCommit[c]
      /\ pc[k] \in {"commit", "commitSet", "rollback", "rollbackSet"} => isInTransaction[c]
  BY DEF FlagInv
<1>1. FlagAt(k)'
  <2>1. ASSUME isInTransaction' = isInTransaction, autoCommit'[c] = autoCommit[c],
               Idle(t, c), pc'[k] \in {"idle", "rewound", "commit", "rollback"},
               pc'[k] \in {"commit", "rollback"} => isInTransaction[c]
        PROVE  FlagAt(k)'
    BY <1>0, <2>1 DEF Idle, FlagAt
  <2>2. CASE OpenDatabase(t, c)
    BY <1>0, <2>2 DEF OpenDatabase, Open, Idle, FlagAt
  <2>3. CASE CloseDatabase(t, c)
    BY <2>3 DEF CloseDatabase, Idle, FlagAt, DbTypeOK
  <2>4. CASE BeginTransaction(t, c)
    BY <2>4 DEF BeginTransaction, Goto, FlagAt, DbTypeOK
  <2>5. CASE BeginExec(t, c)
    BY <1>0, <2>5 DEF BeginExec, ExecBegin, Goto, FlagAt, DbTypeOK, EngineInv, EngineTypeOK
  <2>6. CASE BeginSet(t, c)
    BY <1>0, <2>6 DEF BeginSet, Goto, FlagAt, DbTypeOK, engineVars
  <2>7. CASE CommitTransaction(t, c) \/ RollbackTransaction(t, c)
    BY <1>0, <2>7 DEF CommitTransaction, RollbackTransaction, Idle, Goto, FlagAt,
       DbTypeOK, engineVars
  <2>8. CASE CommitExec(t, c) \/ RollbackExec(t, c)
    BY <1>0, <2>8 DEF CommitExec, RollbackExec, Goto, FlagAt, DbTypeOK
  <2>9. CASE CommitSet(t, c) \/ RollbackSet(t, c)
    BY <2>9 DEF CommitSet, RollbackSet, Goto, FlagAt, DbTypeOK
  <2>10. CASE InsertStep(t, c)
    <3>1. UNCHANGED <<isInTransaction, pc>> /\ Idle(t, c)
      BY <2>10 DEF InsertStep, InsertDone, InsertUnbound, InsertBlocked, InsertFails,
         Inserting, dbVars
    <3>2. autoCommit'[c] = autoCommit[c]
      BY <2>10 DEF InsertStep, InsertDone, InsertUnbound, InsertBlocked, InsertFails,
         WriteFails, WriteCommitted, WriteBuffered, WriteBlocked, WriteRefused,
         WriteAborted, Sole
    <3> QED
      BY <2>1, <3>1, <3>2 DEF Idle
  <2>11. ASSUME NEW s \in Sql, Exec(t, c, s)
         PROVE  FlagAt(k)'
    <3>1. UNCHANGED <<isInTransaction, pc>> /\ Idle(t, c)
      BY <2>11 DEF Exec, dbVars
    <3>2. CASE ExecInsert(c)
      <4>1. autoCommit'[c] = autoCommit[c]
        BY <3>2 DEF ExecInsert, WriteFails, WriteCommitted, WriteBuffered,
           WriteBlocked, WriteRefused, WriteAborted, Sole
      <4> QED
        BY <2>1, <3>1, <4>1 DEF Idle
    <3>3. CASE ExecBegin(c)
      BY <1>0, <3>1, <3>3 DEF ExecBegin, Idle, FlagAt, EngineInv, EngineTypeOK
    <3> QED
      BY <2>11, <3>2, <3>3 DEF Exec, Sole
  <2>12. CASE QueryStep(t, c)
    <3>1. isInTransaction' = isInTransaction /\ autoCommit' = autoCommit
      BY <2>12 DEF QueryStep, DoQuery, MoveToFirst, MoveToFirstStep, MoveToNext,
         DestroyQuery, PrepareQuery, ResetQuery, StepQuery, FinalizeQuery,
         HaltQuery, dbVars
    <3>2. /\ pc[k] \in {"idle", "rewound"}
          /\ pc'[k] \in {"idle", "rewound"}
      BY <2>12 DEF QueryStep, DoQuery, MoveToFirst, MoveToFirstStep, MoveToNext,
         DestroyQuery, Idle, Goto, dbVars, DbTypeOK
    <3> QED
      BY <1>0, <3>1, <3>2 DEF FlagAt
  <2> QED
    BY <2>2, <2>3, <2>4, <2>5, <2>6, <2>7, <2>8, <2>9, <2>10, <2>11, <2>12
       DEF ClientStep, TransactionStep
<1>2. ASSUME NEW l \in Client, l # k
      PROVE  FlagAt(l)'
  <2>1. l[2] # c /\ l[2] \in Conn
    BY <1>2, ClientPair DEF Sole
  <2> QED
    BY <1>2, <2>1, OthersAlone DEF FlagInv, FlagAt
<1>3. ASSUME NEW d \in Conn, isInTransaction'[d]
      PROVE  \E l \in Client : l[2] = d
  <2>1. CASE d = c
    <3>1. k[2] = c
      OBVIOUS
    <3> QED
      BY <2>1, <3>1
  <2>2. CASE d # c
    BY <1>3, <2>2, OthersAlone DEF FlagInv
  <2> QED
    BY <2>1, <2>2
<1> QED
  BY <1>1, <1>2, <1>3 DEF FlagInv, FlagAt

LEMMA FlagInductive ==
  ASSUME Sole
  PROVE  IInv /\ FlagInv /\ [Next]_vars => FlagInv'
<1> SUFFICES ASSUME IInv, FlagInv, [Next]_vars
             PROVE  FlagInv'
  OBVIOUS
<1>1. ASSUME NEW k \in Client, ClientStep(k[1], k[2])
      PROVE  FlagInv'
  BY <1>1, ClientPair, FlagStep
<1>2. CASE PowerLoss
  BY <1>2, ClientPair DEF PowerLoss, FlagInv
<1>3. CASE UNCHANGED vars
  BY <1>3 DEF vars, dbVars, engineVars, FlagInv
<1> QED
  BY <1>1, <1>2, <1>3 DEF Next

LEMMA FlagInit == Init => FlagInv
BY ClientPair DEF Init, FlagInv

\* For connections of one thread each: whenever the flag says there is a
\* transaction the engine is in one, a COMMIT refused for a reader and an
\* insert that failed included, so rollbackTransaction has something to undo.
THEOREM FlagIsSound ==
  ASSUME Sole
  PROVE  Spec => []FlagImpliesTransaction
<1>1. IInv /\ FlagInv => FlagImpliesTransaction
  <2> SUFFICES ASSUME FlagInv, NEW c \in Conn, isInTransaction[c]
               PROVE  \/ ~autoCommit[c]
                      \/ \E t \in Thread : <<t, c>> \in Client
                           /\ pc[<<t, c>>] \in {"commitSet", "rollbackSet"}
    BY DEF FlagImpliesTransaction
  <2>1. PICK k \in Client : k[2] = c
    BY DEF FlagInv
  <2> QED
    BY <2>1, ClientPair DEF FlagInv
<1> QED
  BY <1>1, IInvInit, IInvInductive, FlagInit, FlagInductive, PTL DEF Spec

-----------------------------------------------------------------------------
(* What was undone stays undone.                                           *)

\* Undone rows are neither in the file nor where they could still be written
\* to it; rows of a transaction in progress are not in the file, and only its
\* own connection can write them.
UndoInv ==
  /\ undone \cap disk = {}
  /\ \A c \in Conn : held[c] => undone \cap pending[c] = {}
  /\ \A c \in Conn : ~isInTransaction[c] => buffered[c] = {}
  /\ \A c, d \in Conn : c # d => buffered[c] \cap pending[d] = {}
  /\ \A k \in Client :
       /\ pc[k] # "commitSet" => buffered[k[2]] \cap disk = {}
       /\ pc[k] = "rollbackSet" => buffered[k[2]] \cap pending[k[2]] = {}

\* A step of c that reports nothing and whose rows, if any, reach the file:
\* a COMMIT, or a call that writes nothing.
LEMMA UndoQuiet ==
  ASSUME IInv, Sole, UndoInv, NEW t \in Thread, NEW c \in Conn, <<t, c>> \in Client,
         held[c] \/ disk' = disk,
         \A d \in Conn \ {c} : pending'[d] = pending[d] /\ held'[d] = held[d],
         UNCHANGED <<isInTransaction, historyVars>>,
         held'[c] => held[c] \/ pending'[c] = {},
         disk' = disk \/ disk' = disk \cup pending[c],
         pending'[c] = pending[c] \/ pending'[c] = {},
         \A k \in Client : k[2] # c => pc'[k] = pc[k],
         disk' # disk => pc'[<<t, c>>] = "commitSet",
         pc[<<t, c>>] = "commitSet" => pc'[<<t, c>>] = "commitSet",
         pc'[<<t, c>>] = "rollbackSet" =>
           pc[<<t, c>>] = "rollbackSet" \/ pending'[c] = {}
  PROVE  UndoInv'
<1>1. undone' \cap disk' = {}
  BY DEF UndoInv, historyVars
<1>2. \A d \in Conn : held'[d] => undone' \cap pending'[d] = {}
  BY DEF UndoInv, historyVars
<1>3. \A d \in Conn : ~isInTransaction'[d] => buffered'[d] = {}
  BY DEF UndoInv, historyVars
<1>4. \A d, e \in Conn : d # e => buffered'[d] \cap pending'[e] = {}
  BY DEF UndoInv, historyVars
<1>5. ASSUME NEW k \in Client
      PROVE  /\ pc'[k] # "commitSet" => buffered'[k[2]] \cap disk' = {}
             /\ pc'[k] = "rollbackSet" => buffered'[k[2]] \cap pending'[k[2]] = {}
  <2>1. CASE k[2] = c
    <3>1. k = <<t, c>>
      BY <2>1 DEF Sole
    <3> QED
      BY <3>1 DEF UndoInv, historyVars
  <2>2. CASE k[2] # c
    BY <2>2, ClientPair DEF UndoInv, historyVars
  <2> QED
    BY <2>1, <2>2
<1> QED
  BY <1>1, <1>2, <1>3, <1>4, <1>5 DEF UndoInv

\* Reporting a new row that was written, or a row that never will be.
LEMMA UndoReport ==
  ASSUME IInv, Sole, FlagInv, UndoInv, NEW t \in Thread, NEW c \in Conn,
         <<t, c>> \in Client, Idle(t, c), NEW r \in Row, Fresh(r), Report(c, r),
         \A d \in Conn \ {c} : pending'[d] = pending[d],
         \/ disk' = disk /\ pending'[c] \subseteq pending[c] \cup {r}
         \/ /\ held[c] /\ ~isInTransaction[c]
            /\ disk' = disk \cup pending[c] \cup {r} /\ pending'[c] = {},
         UNCHANGED dbVars
  PROVE  UndoInv'
<1>1. undone' \cap disk' = {}
  BY DEF UndoInv, Report, Fresh
<1>2. \A d \in Conn : held'[d] => undone' \cap pending'[d] = {}
  BY DEF UndoInv, Report, Fresh, dbVars
<1>3. \A d \in Conn : ~isInTransaction'[d] => buffered'[d] = {}
  BY DEF UndoInv, Report, dbVars, IInv, DbTypeOK
<1>4. \A d \in Conn : buffered'[d] = buffered[d] \/ (d = c /\ buffered'[d] = buffered[d] \cup {r})
  <2>1. CASE buffered' = [buffered EXCEPT ![c] = @ \cup {r}]
    BY <2>1 DEF IInv, DbTypeOK
  <2>2. CASE buffered' = buffered
    BY <2>2
  <2> QED
    BY <2>1, <2>2 DEF Report
<1>5. ASSUME NEW d \in Conn, NEW e \in Conn, d # e
      PROVE  buffered'[d] \cap pending'[e] = {}
  <2>1. pending'[e] \subseteq pending[e] \cup {r} /\ (e # c => pending'[e] = pending[e])
    OBVIOUS
  <2>2. r \notin pending[e] /\ r \notin buffered[d] /\ buffered[d] \cap pending[e] = {}
    BY <1>5 DEF Fresh, UndoInv
  <2> QED
    BY <1>4, <1>5, <2>1, <2>2
<1>6. ASSUME NEW k \in Client
      PROVE  /\ pc'[k] # "commitSet" => buffered'[k[2]] \cap disk' = {}
             /\ pc'[k] = "rollbackSet" => buffered'[k[2]] \cap pending'[k[2]] = {}
  <2>1. CASE k[2] = c
    <3>1. k = <<t, c>> /\ pc'[k] = "idle" /\ buffered[c] \cap disk = {}
      BY <2>1 DEF Sole, Idle, dbVars, UndoInv
    <3>2. CASE isInTransaction[c]
      BY <1>4, <2>1, <3>1, <3>2 DEF Fresh
    <3>3. CASE ~isInTransaction[c]
      BY <2>1, <3>1, <3>3 DEF UndoInv, Report
    <3> QED
      BY <3>2, <3>3
  <2>2. CASE k[2] # c
    <3>1. /\ k[2] \in Conn /\ buffered'[k[2]] = buffered[k[2]] /\ pc'[k] = pc[k]
          /\ pending'[k[2]] = pending[k[2]] /\ r \notin buffered[k[2]]
          /\ buffered[k[2]] \cap pending[c] = {}
      BY <1>4, <2>2, ClientPair DEF Fresh, UndoInv, dbVars
    <3> QED
      BY <3>1 DEF UndoInv
  <2> QED
    BY <2>1, <2>2
<1> QED
  BY <1>1, <1>2, <1>3, <1>5, <1>6 DEF UndoInv

LEMMA UndoStep ==
  ASSUME IInv, Sole, FlagInv, UndoInv, NEW t \in Thread, NEW c \in Conn,
         <<t, c>> \in Client, ClientStep(t, c)
  PROVE  UndoInv'
<1> DEFINE k == <<t, c>>
<1>1. /\ \A l \in Client : l[2] # c => pc'[l] = pc[l]
      /\ \A d \in Conn \ {c} : /\ isInTransaction'[d] = isInTransaction[d]
                              /\ pending'[d] = pending[d]
                              /\ buffered'[d] = buffered[d]
                              /\ held'[d] = held[d]
  BY OthersAlone
<1>2. \A l \in Client : l[2] = c => l = k
  BY DEF Sole
<1>3. /\ isInTransaction[c] /\ pc[k] \notin {"commitSet", "rollbackSet"} => ~autoCommit[c]
      /\ pc[k] \in {"commit", "commitSet", "rollback", "rollbackSet"} => isInTransaction[c]
  BY DEF FlagInv
\* Between the engine calls: only the file's owner and the history move.
<1>4. CASE OpenDatabase(t, c)
  <2>1. pending[c] = {}
    BY <1>4, AtConnection DEF IInv, OpenDatabase, Open, NO_LOCK, RESERVED_LOCK
  <2> QED
    BY <1>1, <1>4, <2>1, UndoQuiet DEF OpenDatabase, Open, Idle
<1>5. CASE CloseDatabase(t, c)
  <2>1. /\ disk' = disk /\ ~held'[c] /\ buffered'[c] = {} /\ pc' = pc
        /\ undone' = undone \cup buffered[c] /\ pc[k] = "idle"
        /\ pending'[c] \subseteq pending[c]
    BY <1>5 DEF CloseDatabase, Close, engineVars, Idle, IInv, DbTypeOK, EngineInv,
       EngineTypeOK
  <2>2. buffered[c] \cap disk = {}
    BY <2>1 DEF UndoInv
  <2>3. undone' \cap disk' = {}
    BY <2>1, <2>2 DEF UndoInv
  <2>4. \A d \in Conn : held'[d] => undone' \cap pending'[d] = {}
    BY <1>1, <2>1 DEF UndoInv
  <2>5. \A d \in Conn : ~isInTransaction'[d] => buffered'[d] = {}
    BY <1>1, <2>1 DEF UndoInv
  <2>6. \A d, e \in Conn : d # e => buffered'[d] \cap pending'[e] = {}
    BY <1>1, <2>1 DEF UndoInv
  <2>7. \A l \in Client :
          /\ pc'[l] # "commitSet" => buffered'[l[2]] \cap disk' = {}
          /\ pc'[l] = "rollbackSet" => buffered'[l[2]] \cap pending'[l[2]] = {}
    BY <1>1, <2>1, ClientPair DEF UndoInv
  <2> QED
    BY <2>3, <2>4, <2>5, <2>6, <2>7 DEF UndoInv
<1>6. ASSUME UNCHANGED <<disk, pending, held, isInTransaction, historyVars>>,
             pc[k] = "commitSet" => pc'[k] = "commitSet",
             pc'[k] # "rollbackSet"
      PROVE  UndoInv'
  BY <1>1, <1>6, UndoQuiet
<1>7. CASE BeginTransaction(t, c) \/ CommitTransaction(t, c) \/ RollbackTransaction(t, c)
  BY <1>6, <1>7 DEF BeginTransaction, CommitTransaction, RollbackTransaction, Idle,
     Goto, engineVars, IInv, DbTypeOK
<1>8. CASE BeginExec(t, c)
  BY <1>6, <1>8 DEF BeginExec, ExecBegin, Goto, IInv, DbTypeOK
<1>9. CASE BeginSet(t, c)
  <2>1. UNCHANGED <<disk, pending, held, historyVars>> /\ isInTransaction'[c]
    BY <1>9 DEF BeginSet, engineVars, IInv, DbTypeOK
  <2>2. pc[k] = "beginSet" /\ pc'[k] = "idle"
    BY <1>9 DEF BeginSet, Goto, IInv, DbTypeOK
  <2>3. \A d \in Conn : ~isInTransaction'[d] => buffered'[d] = {}
    BY <1>1, <2>1 DEF UndoInv
  <2>4. ASSUME NEW l \in Client
        PROVE  /\ pc'[l] # "commitSet" => buffered[l[2]] \cap disk = {}
               /\ pc'[l] = "rollbackSet" => buffered[l[2]] \cap pending[l[2]] = {}
    <3>1. CASE l = k
      BY <2>2, <3>1 DEF UndoInv
    <3>2. CASE l # k
      BY <1>1, <1>2, <3>2 DEF UndoInv
    <3> QED
      BY <3>1, <3>2
  <2> QED
    BY <2>1, <2>3, <2>4 DEF UndoInv, historyVars
<1>10. CASE CommitExec(t, c)
  <2>1. /\ disk' = disk \/ disk' = disk \cup pending[c]
        /\ pending'[c] = pending[c] \/ pending'[c] = {}
    BY <1>10 DEF CommitExec, ExecCommit, EndFails, engineVars, EndTransaction, IInv,
       EngineInv, EngineTypeOK
  <2>2. pc[k] = "commit" /\ pc'[k] = "commitSet" /\ held[c]
    BY <1>10 DEF CommitExec, Goto, IInv, DbTypeOK, CallsHold
  <2> QED
    BY <1>1, <1>10, <2>1, <2>2, UndoQuiet DEF CommitExec
<1>11. CASE RollbackExec(t, c)
  <2>1. disk' = disk /\ pending'[c] = {}
    BY <1>3, <1>11 DEF RollbackExec, ExecRollback, EndTransaction, IInv, EngineInv,
       EngineTypeOK
  <2>2. pc[k] = "rollback" /\ pc'[k] = "rollbackSet"
    BY <1>11 DEF RollbackExec, Goto, IInv, DbTypeOK
  <2> QED
    BY <1>1, <1>11, <2>1, <2>2, UndoQuiet DEF RollbackExec
<1>12. CASE CommitSet(t, c) \/ RollbackSet(t, c)
  <2>1. /\ UNCHANGED <<disk, pending, held>> /\ buffered'[c] = {} /\ pc'[k] = "idle"
        /\ \/ undone' = undone
           \/ pc[k] = "rollbackSet" /\ undone' = undone \cup buffered[c]
    BY <1>12 DEF CommitSet, RollbackSet, engineVars, Goto, IInv, DbTypeOK
  <2>2. \/ undone' = undone
        \/ /\ undone' = undone \cup buffered[c] /\ buffered[c] \cap disk = {}
           /\ \A d \in Conn : buffered[c] \cap pending[d] = {}
    BY <2>1 DEF UndoInv
  <2>3. undone' \cap disk' = {} /\ \A d \in Conn : held'[d] => undone' \cap pending'[d] = {}
    BY <2>1, <2>2 DEF UndoInv
  <2>4. \A d \in Conn : ~isInTransaction'[d] => buffered'[d] = {}
    BY <1>1, <2>1 DEF UndoInv
  <2>5. \A d, e \in Conn : d # e => buffered'[d] \cap pending'[e] = {}
    BY <1>1, <2>1 DEF UndoInv
  <2>6. \A l \in Client :
          /\ pc'[l] # "commitSet" => buffered'[l[2]] \cap disk' = {}
          /\ pc'[l] = "rollbackSet" => buffered'[l[2]] \cap pending'[l[2]] = {}
    BY <1>1, <2>1, ClientPair DEF UndoInv
  <2> QED
    BY <2>3, <2>4, <2>5, <2>6 DEF UndoInv
\* Inserting, by insert or by exec.
<1>13. ASSUME Idle(t, c), held[c], UNCHANGED dbVars, NEW r \in Row, Fresh(r),
              WriteCommitted(c, r) \/ WriteBuffered(c, r), Report(c, r)
       PROVE  UndoInv'
  <2>1. WriteCommitted(c, r) => /\ ~isInTransaction[c] /\ pending'[c] = {}
                                /\ disk' = disk \cup pending[c] \cup {r}
    BY <1>3, <1>13 DEF WriteCommitted, HaltEnds, Idle, EndTransaction, IInv, EngineInv,
       EngineTypeOK
  <2>2. WriteBuffered(c, r) => disk' = disk /\ pending'[c] = pending[c] \cup {r}
    BY DEF WriteBuffered, IInv, EngineInv, EngineTypeOK
  <2> QED
    BY <1>1, <1>13, <2>1, <2>2, UndoReport
<1>14. ASSUME Idle(t, c), held[c], UNCHANGED <<dbVars, historyVars>>,
              WriteBlocked(c) \/ WriteFails(c)
       PROVE  UndoInv'
  <2>1. disk' = disk /\ (pending'[c] = pending[c] \/ pending'[c] = {})
    BY <1>14 DEF WriteBlocked, WriteFails, WriteRefused, WriteAborted, Sole,
       EndTransaction, IInv, EngineInv, EngineTypeOK
  <2> QED
    BY <1>1, <1>14, <2>1, UndoQuiet DEF dbVars, Idle
<1>15. CASE InsertStep(t, c)
  <2>1. ASSUME NEW r \in Row, InsertUnbound(t, c, r)
        PROVE  UndoInv'
    BY <1>1, <2>1, UndoReport DEF InsertUnbound, Inserting
  <2> QED
    BY <1>13, <1>14, <1>15, <2>1 DEF InsertStep, InsertDone, InsertBlocked,
       InsertFails, Inserting
<1>16. ASSUME NEW s \in Sql, Exec(t, c, s)
       PROVE  UndoInv'
  <2>1. CASE ExecInsert(c)
    BY <1>13, <1>14, <1>16, <2>1 DEF Exec, ExecInsert
  <2>2. CASE ExecBegin(c) /\ UNCHANGED historyVars
    BY <1>6, <1>16, <2>2 DEF Exec, ExecBegin, Idle, dbVars
  <2> QED
    BY <1>16, <2>1, <2>2 DEF Exec, Sole
<1>17. CASE QueryStep(t, c)
  <2>1. UNCHANGED <<disk, pending, held, isInTransaction, historyVars>>
    BY <1>17 DEF QueryStep, DoQuery, MoveToFirst, MoveToFirstStep, MoveToNext,
       DestroyQuery, PrepareQuery, ResetQuery, StepQuery, FinalizeQuery, HaltQuery, dbVars
  <2>2. pc[k] # "commitSet" /\ pc'[k] # "rollbackSet"
    BY <1>17 DEF QueryStep, DoQuery, MoveToFirst, MoveToFirstStep, MoveToNext,
       DestroyQuery, Idle, Goto, dbVars, IInv, DbTypeOK
  <2> QED
    BY <1>6, <2>1, <2>2
<1> QED
  BY <1>4, <1>5, <1>7, <1>8, <1>9, <1>10, <1>11, <1>12, <1>15, <1>16, <1>17
     DEF ClientStep, TransactionStep

LEMMA UndoPowerLoss ==
  ASSUME IInv, FlagInv, UndoInv, PowerLoss
  PROVE  UndoInv'
<1>1. /\ disk' = disk /\ pending' = [c \in Conn |-> {}]
      /\ buffered' = [c \in Conn |-> {}] /\ pc' = [k \in Client |-> "idle"]
  BY DEF PowerLoss, EngineCrash
<1>2. ASSUME NEW r \in undone'
      PROVE  r \notin disk
  <2>1. CASE r \in undone
    BY <2>1 DEF UndoInv
  <2>2. CASE r \notin undone
    <3>1. PICK c \in Conn : /\ r \in buffered[c]
                            /\ \A t \in Thread : <<t, c>> \in Client =>
                                 pc[<<t, c>>] # "commitSet"
      BY <1>2, <2>2 DEF PowerLoss
    <3>2. isInTransaction[c]
      BY <3>1 DEF UndoInv
    <3>3. PICK k \in Client : k[2] = c
      BY <3>2 DEF FlagInv
    <3>4. pc[k] # "commitSet"
      BY <3>1, <3>3, ClientPair
    <3> QED
      BY <3>1, <3>3, <3>4 DEF UndoInv
  <2> QED
    BY <2>1, <2>2
<1> QED
  BY <1>1, <1>2, ClientPair DEF UndoInv

LEMMA UndoInductive ==
  ASSUME Sole
  PROVE  IInv /\ FlagInv /\ UndoInv /\ [Next]_vars => UndoInv'
<1> SUFFICES ASSUME IInv, FlagInv, UndoInv, [Next]_vars
             PROVE  UndoInv'
  OBVIOUS
<1>1. ASSUME NEW k \in Client, ClientStep(k[1], k[2])
      PROVE  UndoInv'
  BY <1>1, ClientPair, UndoStep
<1>2. CASE PowerLoss
  BY <1>2, UndoPowerLoss
<1>3. CASE UNCHANGED vars
  BY <1>3 DEF vars, dbVars, engineVars, historyVars, UndoInv
<1> QED
  BY <1>1, <1>2, <1>3 DEF Next

LEMMA UndoInit == Init => UndoInv
BY ClientPair DEF Init, EngineInit, UndoInv

\* For connections of one thread each: a row inserted in a transaction that was
\* rolled back, by rollbackTransaction, by closing the database or by a crash,
\* is never in the file, whatever the other connections do and however often
\* inserts and commits met SQLITE_BUSY in between.
THEOREM UndoneStaysGone ==
  ASSUME Sole
  PROVE  Spec => []UndoneIsGone
<1>1. UndoInv => UndoneIsGone
  BY DEF UndoInv, UndoneIsGone
<1> QED
  BY <1>1, IInvInit, IInvInductive, FlagInit, FlagInductive, UndoInit, UndoInductive,
     PTL DEF Spec

-----------------------------------------------------------------------------
(* What commitTransaction keeps, with any number of connections.           *)

\* Where the rows that were reported in a transaction are: with the transaction
\* as long as it is open, in the file after the COMMIT that ended it.
StoredAt(k) ==
  /\ pc[k] \notin {"commitSet", "rollbackSet"} => buffered[k[2]] \subseteq pending[k[2]]
  /\ pc[k] = "commitSet" =>
       buffered[k[2]] \subseteq IF autoCommit[k[2]] THEN disk ELSE pending[k[2]]

StoredInv == \A k \in Client : StoredAt(k)

\* What every call does to the rows of its connection's transaction.
LEMMA StoredStep ==
  ASSUME IInv, Sole, "bind" \notin Fault, FlagInv, UndoInv, StoredInv,
         NEW t \in Thread, NEW c \in Conn, <<t, c>> \in Client, ClientStep(t, c)
  PROVE  StoredInv'
<1> DEFINE k == <<t, c>>
<1> USE DEF IInv
<1>1. /\ pc[k] \notin {"commitSet", "rollbackSet"} => buffered[c] \subseteq pending[c]
      /\ pc[k] = "commitSet" =>
           buffered[c] \subseteq IF autoCommit[c] THEN disk ELSE pending[c]
  BY DEF StoredInv, StoredAt
<1>2. /\ ~isInTransaction[c] => buffered[c] = {}
      /\ isInTransaction[c] /\ pc[k] \notin {"commitSet", "rollbackSet"} => ~autoCommit[c]
      /\ pc[k] \in {"commit", "rollback"} => isInTransaction[c]
  BY DEF FlagInv, UndoInv
<1>3. StoredAt(k)'
  <2>1. ASSUME buffered'[c] = {} PROVE StoredAt(k)'
    BY <2>1 DEF StoredAt
  <2>2. ASSUME buffered'[c] = buffered[c], pending'[c] = pending[c],
               pc[k] \notin {"commitSet", "rollbackSet"}, pc'[k] # "commitSet"
        PROVE  StoredAt(k)'
    BY <1>1, <2>2 DEF StoredAt
  <2>3. CASE OpenDatabase(t, c)
    BY <2>2, <2>3 DEF OpenDatabase, Open, Idle, historyVars
  <2>4. CASE CloseDatabase(t, c)
    BY <2>1, <2>4 DEF CloseDatabase, DbTypeOK
  <2>5. CASE BeginTransaction(t, c) \/ CommitTransaction(t, c) \/ RollbackTransaction(t, c)
    BY <2>2, <2>5 DEF BeginTransaction, CommitTransaction, RollbackTransaction, Idle,
       Goto, engineVars, historyVars, DbTypeOK
  <2>6. CASE BeginExec(t, c)
    BY <2>2, <2>6 DEF BeginExec, ExecBegin, Goto, historyVars, DbTypeOK
  <2>7. CASE BeginSet(t, c)
    BY <2>2, <2>7 DEF BeginSet, Goto, engineVars, historyVars, DbTypeOK
  <2>8. CASE CommitExec(t, c)
    <3>1. /\ pc[k] = "commit" /\ pc'[k] = "commitSet" /\ ~autoCommit[c]
          /\ buffered'[c] = buffered[c] /\ buffered[c] \subseteq pending[c]
      BY <1>1, <1>2, <2>8 DEF CommitExec, Goto, historyVars, DbTypeOK
    <3>2. \/ ~autoCommit'[c] /\ pending'[c] = pending[c]
          \/ autoCommit'[c] /\ disk' = disk \cup pending[c]
      BY <2>8, <3>1 DEF CommitExec, ExecCommit, EndFails, EndTransaction, engineVars,
         EngineInv, EngineTypeOK
    <3> QED
      BY <3>1, <3>2 DEF StoredAt
  <2>9. CASE RollbackExec(t, c)
    <3>1. pc'[k] = "rollbackSet"
      BY <2>9 DEF RollbackExec, Goto, DbTypeOK
    <3> QED
      BY <3>1 DEF StoredAt
  <2>10. CASE CommitSet(t, c) \/ RollbackSet(t, c)
    BY <2>1, <2>10 DEF CommitSet, RollbackSet, DbTypeOK
  \* Inserting, by insert or by exec.
  <2>11. ASSUME Idle(t, c), UNCHANGED dbVars, NEW r \in Row, Report(c, r),
                WriteCommitted(c, r) \/ WriteBuffered(c, r)
         PROVE  StoredAt(k)'
    <3>1. pc[k] = "idle" /\ pc'[k] = "idle"
      BY <2>11 DEF Idle, dbVars
    <3>2. CASE isInTransaction[c]
      <4>1. pending'[c] = pending[c] \cup {r} /\ buffered'[c] = buffered[c] \cup {r}
        BY <1>2, <2>11, <3>1, <3>2 DEF Report, WriteCommitted, WriteBuffered, HaltEnds,
           DbTypeOK, EngineInv, EngineTypeOK
      <4> QED
        BY <1>1, <3>1, <4>1 DEF StoredAt
    <3>3. CASE ~isInTransaction[c]
      BY <1>2, <2>1, <2>11, <3>3 DEF Report
    <3> QED
      BY <3>2, <3>3
  <2>12. ASSUME Idle(t, c), UNCHANGED <<dbVars, historyVars>>,
                WriteBlocked(c) \/ WriteFails(c)
         PROVE  StoredAt(k)'
    <3>1. pc[k] = "idle" /\ pc'[k] = "idle" /\ buffered'[c] = buffered[c]
      BY <2>12 DEF Idle, dbVars, historyVars
    <3>2. CASE isInTransaction[c]
      <4>1. pending'[c] = pending[c]
        BY <1>2, <2>12, <3>1, <3>2 DEF WriteBlocked, WriteFails, WriteRefused,
           WriteAborted, HaltEnds, EndTransaction, Sole
      <4> QED
        BY <2>2, <3>1, <4>1
    <3>3. CASE ~isInTransaction[c]
      BY <1>2, <2>1, <3>1, <3>3
    <3> QED
      BY <3>2, <3>3
  <2>13. CASE InsertStep(t, c)
    BY <2>11, <2>12, <2>13 DEF InsertStep, InsertDone, InsertUnbound, InsertBlocked,
       InsertFails, Inserting
  <2>14. ASSUME NEW s \in Sql, Exec(t, c, s)
         PROVE  StoredAt(k)'
    <3>1. CASE ExecInsert(c)
      BY <2>11, <2>12, <2>14, <3>1 DEF Exec, ExecInsert
    <3>2. CASE ExecBegin(c) /\ UNCHANGED historyVars
      BY <2>2, <2>14, <3>2 DEF Exec, ExecBegin, Idle, dbVars, historyVars
    <3> QED
      BY <2>14, <3>1, <3>2 DEF Exec, Sole
  <2>15. CASE QueryStep(t, c)
    <3>1. UNCHANGED <<pending, buffered>>
      BY <2>15 DEF QueryStep, DoQuery, MoveToFirst, MoveToFirstStep, MoveToNext,
         DestroyQuery, PrepareQuery, ResetQuery, StepQuery, FinalizeQuery, HaltQuery,
         historyVars
    <3>2. pc[k] \in {"idle", "rewound"} /\ pc'[k] \in {"idle", "rewound"}
      BY <2>15 DEF QueryStep, DoQuery, MoveToFirst, MoveToFirstStep, MoveToNext,
         DestroyQuery, Idle, Goto, dbVars, DbTypeOK
    <3> QED
      BY <2>2, <3>1, <3>2
  <2> QED
    BY <2>3, <2>4, <2>5, <2>6, <2>7, <2>8, <2>9, <2>10, <2>13, <2>14, <2>15
       DEF ClientStep, TransactionStep
<1>4. disk \subseteq disk'
  <2>1. ASSUME NEW r
        PROVE  /\ ExecBegin(c) \/ ExecCommit(c) \/ ExecRollback(c) => disk \subseteq disk'
               /\ WriteCommitted(c, r) \/ WriteBuffered(c, r) \/ WriteBlocked(c) \/ WriteFails(c)
                    => disk \subseteq disk'
    BY DEF ExecBegin, ExecCommit, ExecRollback, EndFails, EndTransaction, engineVars,
       WriteCommitted, WriteBuffered, WriteBlocked, WriteFails, WriteRefused,
       WriteAborted, WriteRolledBack
  <2>2. CASE OpenDatabase(t, c) \/ CloseDatabase(t, c)
    BY <2>2 DEF OpenDatabase, Open, CloseDatabase, Close, engineVars
  <2>3. CASE TransactionStep(t, c)
    BY <2>1, <2>3 DEF TransactionStep, BeginTransaction, BeginExec, BeginSet,
       CommitTransaction, CommitExec, CommitSet, RollbackTransaction, RollbackExec,
       RollbackSet, engineVars
  <2>4. CASE InsertStep(t, c)
    BY <2>1, <2>4 DEF InsertStep, InsertDone, InsertUnbound, InsertBlocked, InsertFails
  <2>5. ASSUME NEW s \in Sql, Exec(t, c, s)
        PROVE  disk \subseteq disk'
    BY <2>1, <2>5 DEF Exec, ExecInsert
  <2>6. CASE QueryStep(t, c)
    BY <2>6 DEF QueryStep, DoQuery, MoveToFirst, MoveToFirstStep, MoveToNext,
       DestroyQuery, PrepareQuery, ResetQuery, StepQuery, FinalizeQuery, HaltQuery
  <2> QED
    BY <2>2, <2>3, <2>4, <2>5, <2>6 DEF ClientStep
<1>5. ASSUME NEW l \in Client, l # k
      PROVE  StoredAt(l)'
  <2>1. l[2] # c /\ l[2] \in Conn
    BY <1>5, ClientPair DEF Sole
  <2>2. /\ pc'[l] = pc[l] /\ autoCommit'[l[2]] = autoCommit[l[2]]
        /\ pending'[l[2]] = pending[l[2]] /\ buffered'[l[2]] = buffered[l[2]]
    BY <2>1, OthersAlone
  <2> QED
    BY <1>4, <2>2 DEF StoredInv, StoredAt
<1> QED
  BY <1>3, <1>5 DEF StoredInv

LEMMA StoredInductive ==
  ASSUME Sole, "bind" \notin Fault
  PROVE  IInv /\ FlagInv /\ UndoInv /\ StoredInv /\ [Next]_vars => StoredInv'
<1> SUFFICES ASSUME IInv, FlagInv, UndoInv, StoredInv, [Next]_vars
             PROVE  StoredInv'
  OBVIOUS
<1>1. ASSUME NEW k \in Client, ClientStep(k[1], k[2])
      PROVE  StoredInv'
  BY <1>1, ClientPair, StoredStep
<1>2. CASE PowerLoss
  BY <1>2, ClientPair DEF PowerLoss, StoredInv, StoredAt
<1>3. CASE UNCHANGED vars
  BY <1>3 DEF vars, dbVars, engineVars, historyVars, StoredInv, StoredAt
<1> QED
  BY <1>1, <1>2, <1>3 DEF Next

LEMMA StoredInit == Init => StoredInv
BY ClientPair DEF Init, StoredInv, StoredAt

\* For connections of one thread each, however many there are: when
\* commitTransaction returns, the rows reported in its transaction are in the
\* file if the transaction is over, and all still in the transaction if COMMIT
\* was refused; none is lost between insert and commitTransaction.
THEOREM CommitsLoseNothing ==
  ASSUME Sole, "bind" \notin Fault
  PROVE  Spec => CommitLosesNothing
<1>1. ASSUME IInv, StoredInv, NEW k \in Client, CommitSet(k[1], k[2])
      PROVE  buffered[k[2]] \subseteq IF autoCommit[k[2]] THEN disk ELSE pending[k[2]]
  <2>1. pc[k] = "commitSet"
    BY <1>1, ClientPair DEF CommitSet
  <2> QED
    BY <1>1, <2>1 DEF StoredInv, StoredAt
<1>2. IInv /\ StoredInv /\ [Next]_vars =>
        [\A k \in Client : CommitSet(k[1], k[2]) =>
           buffered[k[2]] \subseteq IF autoCommit[k[2]] THEN disk ELSE pending[k[2]]]_vars
  BY <1>1
<1> QED
  BY <1>2, IInvInit, IInvInductive, FlagInit, FlagInductive, UndoInit, UndoInductive,
     StoredInit, StoredInductive, PTL DEF Spec, CommitLosesNothing

-----------------------------------------------------------------------------
(* What isInTransaction leaves behind, with any number of connections.     *)

\* The locks of a connection are changed by its own steps alone.
LEMMA OthersLocks ==
  ASSUME IInv, NEW t \in Thread, NEW c \in Conn, <<t, c>> \in Client,
         ClientStep(t, c), NEW d \in Conn \ {c}
  PROVE  lock'[d] = lock[d] /\ stuck'[d] = stuck[d]
<1> USE DEF IInv, EngineInv, EngineTypeOK
<1>1. ASSUME NEW r
      PROVE  /\ ExecBegin(c) \/ ExecCommit(c) \/ ExecRollback(c)
                  => lock'[d] = lock[d] /\ stuck'[d] = stuck[d]
             /\ WriteCommitted(c, r) \/ WriteBuffered(c, r) \/ WriteBlocked(c) \/ WriteFails(c)
                  => lock'[d] = lock[d]
  BY DEF ExecBegin, ExecCommit, ExecRollback, EndFails, EndTransaction, engineVars,
     WriteCommitted, WriteBuffered, WriteBlocked, WriteFails, WriteRefused,
     WriteAborted, WriteRolledBack
<1>2. CASE OpenDatabase(t, c) \/ CloseDatabase(t, c)
  BY <1>2 DEF OpenDatabase, Open, CloseDatabase, Close, engineVars
<1>3. CASE TransactionStep(t, c)
  BY <1>1, <1>3 DEF TransactionStep, BeginTransaction, BeginExec, BeginSet,
     CommitTransaction, CommitExec, CommitSet, RollbackTransaction, RollbackExec,
     RollbackSet, engineVars
<1>4. CASE InsertStep(t, c)
  BY <1>1, <1>4 DEF InsertStep, InsertDone, InsertUnbound, InsertBlocked, InsertFails
<1>5. ASSUME NEW s \in Sql, Exec(t, c, s)
      PROVE  lock'[d] = lock[d] /\ stuck'[d] = stuck[d]
  BY <1>1, <1>5 DEF Exec, ExecInsert
<1>6. CASE QueryStep(t, c)
  BY <1>6 DEF QueryStep, DoQuery, MoveToFirst, MoveToFirstStep, MoveToNext,
     DestroyQuery, PrepareQuery, ResetQuery, StepQuery, FinalizeQuery, HaltQuery
<1> QED
  BY <1>2, <1>3, <1>4, <1>5, <1>6 DEF ClientStep

\* COMMIT was refused on connection c.
Refused(c) == lock[c] = PENDING_LOCK \/ stuck[c]

\* A transaction that the flag does not speak of, or is about to forget, is one
\* whose COMMIT was refused; ROLLBACK has never left one.
OrphanAt(k) ==
  /\ /\ held[k[2]] /\ ~autoCommit[k[2]] /\ pc[k] # "beginSet"
     /\ ~isInTransaction[k[2]] \/ pc[k] = "commitSet"
     => Refused(k[2])
  /\ pc[k] = "rollbackSet" => autoCommit[k[2]]

OrphanInv ==
  /\ \A k \in Client : OrphanAt(k)
  /\ \A c \in Conn : held[c] => \E k \in Client : k[2] = c

\* In a transaction, an INSERT and a query keep the lock a refused COMMIT left.
LEMMA RefusedStays ==
  ASSUME EngineInv, NEW c \in Conn, ~autoCommit[c], Refused(c),
         stuck'[c] = stuck[c] \/ stuck'[c],
         \/ \E r : WriteCommitted(c, r) \/ WriteBuffered(c, r)
         \/ WriteBlocked(c) \/ WriteRefused(c) \/ WriteAborted(c)
         \/ \E q \in Query, p \in Phase, l \in {lock[c], AtLeast(lock[c], SHARED_LOCK)} :
              HaltQuery(c, q, p, l)
         \/ \E q \in Query : PrepareQuery(c, q) \/ StepQuery(c, q)
  PROVE  Refused(c)'
<1> USE DEF EngineInv, EngineTypeOK
<1>1. ~HaltEnds(c)
  BY DEF HaltEnds
<1>2. ASSUME lock[c] = PENDING_LOCK
      PROVE  /\ AtLeast(lock[c], RESERVED_LOCK) = PENDING_LOCK
             /\ AtLeast(lock[c], SHARED_LOCK) = PENDING_LOCK
  BY <1>2 DEF AtLeast, SHARED_LOCK, RESERVED_LOCK, PENDING_LOCK
<1>3. ASSUME lock[c] = PENDING_LOCK, NEW q, NEW p,
             NEW l \in {lock[c], AtLeast(lock[c], SHARED_LOCK)}, HaltQuery(c, q, p, l)
      PROVE  lock'[c] = PENDING_LOCK
  BY <1>1, <1>2, <1>3 DEF HaltQuery
<1>4. ASSUME lock[c] = PENDING_LOCK, NEW q, StepQuery(c, q)
      PROVE  lock'[c] = PENDING_LOCK
  BY <1>2, <1>3, <1>4 DEF StepQuery
<1>5. lock[c] = PENDING_LOCK => lock'[c] = PENDING_LOCK
  BY <1>1, <1>2, <1>3, <1>4 DEF WriteCommitted, WriteBuffered, WriteBlocked, WriteRefused,
     WriteAborted, PrepareQuery
<1> QED
  BY <1>5 DEF Refused

LEMMA OrphanStep ==
  ASSUME IInv, Sole, "BEGIN;" \notin Sql, FlagInv, OrphanInv,
         NEW t \in Thread, NEW c \in Conn, <<t, c>> \in Client, ClientStep(t, c)
  PROVE  OrphanInv'
<1> DEFINE k == <<t, c>>
<1> USE DEF IInv
<1>1. OrphanAt(k) /\ k \in Client /\ k[2] = c
  BY DEF OrphanInv
<1>2. pc[k] \in {"commit", "rollback"} => isInTransaction[c] /\ ~autoCommit[c] /\ held[c]
  BY DEF FlagInv, CallsHold
<1>3. OrphanAt(k)'
  <2>1. ASSUME UNCHANGED <<autoCommit, held, isInTransaction>>,
               pc[k] \notin {"beginSet", "commitSet", "rollbackSet"},
               pc'[k] \notin {"commitSet", "rollbackSet"},
               ~autoCommit[c] /\ Refused(c) => Refused(c)'
        PROVE  OrphanAt(k)'
    BY <1>1, <2>1 DEF OrphanAt
  <2>2. ASSUME pc'[k] # "rollbackSet",
               ~held'[c] \/ autoCommit'[c] \/ pc'[k] = "beginSet"
                 \/ (isInTransaction'[c] /\ pc'[k] # "commitSet")
        PROVE  OrphanAt(k)'
    BY <2>2 DEF OrphanAt
  <2>3. CASE OpenDatabase(t, c)
    <3>1. autoCommit[c]
      BY <2>3, AtConnection DEF OpenDatabase, Open
    <3> QED
      BY <2>2, <2>3, <3>1 DEF OpenDatabase, Open, Idle
  <2>4. CASE CloseDatabase(t, c)
    BY <2>2, <2>4 DEF CloseDatabase, Idle, DbTypeOK
  <2>5. CASE BeginTransaction(t, c) \/ CommitTransaction(t, c) \/ RollbackTransaction(t, c)
    BY <2>1, <2>5 DEF BeginTransaction, CommitTransaction, RollbackTransaction, Idle,
       Goto, engineVars, DbTypeOK, Refused
  <2>6. CASE BeginExec(t, c)
    BY <2>2, <2>6 DEF BeginExec, Goto, DbTypeOK
  <2>7. CASE BeginSet(t, c)
    BY <2>2, <2>7 DEF BeginSet, Goto, DbTypeOK
  <2>8. CASE CommitExec(t, c)
    <3>1. pc[k] = "commit" /\ pc'[k] = "commitSet"
      BY <2>8 DEF CommitExec, Goto, DbTypeOK
    <3>2. \/ autoCommit'[c]
          \/ lock'[c] = PENDING_LOCK
          \/ stuck'[c]
      BY <1>2, <2>8, <3>1 DEF CommitExec, ExecCommit, EndFails, engineVars,
         EngineInv, EngineTypeOK
    <3> QED
      BY <3>1, <3>2 DEF OrphanAt, Refused
  <2>9. CASE RollbackExec(t, c)
    <3>1. pc[k] = "rollback" /\ pc'[k] = "rollbackSet"
      BY <2>9 DEF RollbackExec, Goto, DbTypeOK
    <3>2. autoCommit'[c]
      BY <1>2, <2>9, <3>1 DEF RollbackExec, ExecRollback, EngineInv, EngineTypeOK
    <3> QED
      BY <3>1, <3>2 DEF OrphanAt
  <2>10. CASE CommitSet(t, c) \/ RollbackSet(t, c)
    <3>1. /\ pc[k] \in {"commitSet", "rollbackSet"} /\ pc'[k] = "idle"
          /\ UNCHANGED <<engineVars, held>>
      BY <2>10 DEF CommitSet, RollbackSet, Goto, DbTypeOK
    <3> QED
      BY <1>1, <3>1 DEF OrphanAt, Refused, engineVars
  <2>11. CASE InsertStep(t, c)
    <3>1. UNCHANGED <<held, isInTransaction, pc>> /\ Idle(t, c)
      BY <2>11 DEF InsertStep, InsertDone, InsertUnbound, InsertBlocked, InsertFails,
         Inserting, dbVars
    <3>2. UNCHANGED autoCommit /\ (stuck'[c] = stuck[c] \/ stuck'[c])
      BY <2>11 DEF InsertStep, InsertDone, InsertUnbound, InsertBlocked, InsertFails,
         WriteFails, WriteCommitted, WriteBuffered, WriteBlocked, WriteRefused,
         WriteAborted, Sole, EngineInv, EngineTypeOK
    <3>3. ~autoCommit[c] /\ Refused(c) => Refused(c)'
      <4>1. ASSUME NEW r, InsertUnbound(t, c, r)
            PROVE  Refused(c) => Refused(c)'
        BY <4>1 DEF InsertUnbound, Refused
      <4> QED
        BY <2>11, <3>2, <4>1, RefusedStays DEF InsertStep, InsertDone, InsertBlocked,
           InsertFails, WriteFails, Sole
    <3> QED
      BY <2>1, <3>1, <3>2, <3>3 DEF Idle
  <2>12. ASSUME NEW s \in Sql, Exec(t, c, s)
         PROVE  OrphanAt(k)'
    <3>1. ExecInsert(c) /\ UNCHANGED <<held, isInTransaction, pc>> /\ Idle(t, c)
      BY <2>12 DEF Exec, Sole, dbVars
    <3>2. UNCHANGED <<autoCommit, stuck>>
      BY <3>1 DEF ExecInsert, WriteFails, WriteCommitted, WriteBuffered, WriteBlocked,
         WriteRefused, WriteAborted, Sole
    <3>3. ~autoCommit[c] /\ Refused(c) => Refused(c)'
      BY <3>1, <3>2, RefusedStays DEF ExecInsert, WriteFails, Sole
    <3> QED
      BY <2>1, <3>1, <3>2, <3>3 DEF Idle
  <2>13. CASE QueryStep(t, c)
    <3>1. UNCHANGED <<autoCommit, stuck, held, isInTransaction>>
      BY <2>13 DEF QueryStep, DoQuery, MoveToFirst, MoveToFirstStep, MoveToNext,
         DestroyQuery, PrepareQuery, ResetQuery, StepQuery, FinalizeQuery, HaltQuery, dbVars
    <3>2. pc[k] \in {"idle", "rewound"} /\ pc'[k] \in {"idle", "rewound"}
      BY <2>13 DEF QueryStep, DoQuery, MoveToFirst, MoveToFirstStep, MoveToNext,
         DestroyQuery, Idle, Goto, dbVars, DbTypeOK
    <3>3. ~autoCommit[c] /\ Refused(c) => Refused(c)'
      BY <2>13, <3>1, RefusedStays DEF QueryStep, DoQuery, MoveToFirst, MoveToFirstStep,
         MoveToNext, DestroyQuery, ResetQuery, FinalizeQuery, Phase
    <3> QED
      BY <2>1, <3>1, <3>2, <3>3
  <2> QED
    BY <2>3, <2>4, <2>5, <2>6, <2>7, <2>8, <2>9, <2>10, <2>11, <2>12, <2>13
       DEF ClientStep, TransactionStep
<1>4. ASSUME NEW l \in Client, l # k
      PROVE  OrphanAt(l)'
  <2>1. l[2] # c /\ l[2] \in Conn
    BY <1>4, ClientPair DEF Sole
  <2>2. /\ pc'[l] = pc[l] /\ autoCommit'[l[2]] = autoCommit[l[2]]
        /\ isInTransaction'[l[2]] = isInTransaction[l[2]] /\ held'[l[2]] = held[l[2]]
    <3>1. \A d \in Conn \ {c} : /\ autoCommit'[d] = autoCommit[d]
                                /\ isInTransaction'[d] = isInTransaction[d]
                                /\ held'[d] = held[d]
      BY OthersAlone
    <3> QED
      BY <2>1, <3>1, OthersAlone
  <2>3. lock'[l[2]] = lock[l[2]] /\ stuck'[l[2]] = stuck[l[2]]
    BY <2>1, OthersLocks
  <2> QED
    BY <2>2, <2>3 DEF OrphanInv, OrphanAt, Refused
<1>5. ASSUME NEW d \in Conn, held'[d]
      PROVE  \E l \in Client : l[2] = d
  <2>1. CASE d = c
    BY <1>1, <2>1
  <2>2. CASE d # c
    BY <1>5, <2>2, OthersAlone DEF OrphanInv
  <2> QED
    BY <2>1, <2>2
<1> QED
  BY <1>3, <1>4, <1>5 DEF OrphanInv

LEMMA OrphanInductive ==
  ASSUME Sole, "BEGIN;" \notin Sql
  PROVE  IInv /\ FlagInv /\ OrphanInv /\ [Next]_vars => OrphanInv'
<1> SUFFICES ASSUME IInv, FlagInv, OrphanInv, [Next]_vars
             PROVE  OrphanInv'
  OBVIOUS
<1>1. ASSUME NEW k \in Client, ClientStep(k[1], k[2])
      PROVE  OrphanInv'
  BY <1>1, ClientPair, OrphanStep
<1>2. CASE PowerLoss
  BY <1>2, ClientPair DEF PowerLoss, OrphanInv, OrphanAt
<1>3. CASE UNCHANGED vars
  BY <1>3 DEF vars, dbVars, engineVars, OrphanInv, OrphanAt, Refused
<1> QED
  BY <1>1, <1>2, <1>3 DEF Next

LEMMA OrphanInit == Init => OrphanInv
BY ClientPair DEF Init, OrphanInv, OrphanAt

\* For connections of one thread each, however many there are: a transaction
\* that isInTransaction does not speak of was left by a commitTransaction whose
\* COMMIT met another connection's reader, or an insert of its own abandoned at
\* SQLITE_BUSY; begin, rollback, failing inserts, closing, opening again and a
\* crash never leave one.
THEOREM OrphansAreRefused ==
  ASSUME Sole, "BEGIN;" \notin Sql
  PROVE  Spec => []OrphanIsRefused
<1>1. OrphanInv => OrphanIsRefused
  <2> SUFFICES ASSUME OrphanInv, NEW c \in Conn,
                      held[c], ~isInTransaction[c], ~InCall(c), ~autoCommit[c]
               PROVE  lock[c] = PENDING_LOCK \/ stuck[c]
    BY DEF OrphanIsRefused
  <2>1. PICK k \in Client : k[2] = c
    BY DEF OrphanInv
  <2>2. pc[k] \in {"idle", "rewound"}
    BY <2>1, ClientPair DEF InCall
  <2> QED
    BY <2>1, <2>2 DEF OrphanInv, OrphanAt, Refused
<1> QED
  BY <1>1, IInvInit, IInvInductive, FlagInit, FlagInductive, OrphanInit,
     OrphanInductive, PTL DEF Spec

-----------------------------------------------------------------------------
(* The only connection to its file.                                        *)

\* One connection and one thread, no statement of a transaction in exec, and no
\* failure but a constraint.
Alone ==
  /\ Sole
  /\ \A c, d \in Conn : c = d
  /\ "BEGIN;" \notin Sql
  /\ "bind" \notin Fault

\* Nothing ever meets SQLITE_BUSY; a lock is there for work or for a query.
FreeInv ==
  \A c \in Conn :
    /\ ~stuck[c] /\ lock[c] # PENDING_LOCK
    /\ autoCommit[c] /\ Active(phase[c]) = {} => lock[c] = NO_LOCK

\* The converse of FlagInv, and where the rows that were reported are: in the
\* file, or in the transaction that the flag speaks of.
ReportInv ==
  /\ kept \subseteq disk
  /\ \A c \in Conn : held[c] => \E k \in Client : k[2] = c
  /\ \A k \in Client : held[k[2]] =>
       /\ ~isInTransaction[k[2]] /\ pc[k] # "beginSet" => autoCommit[k[2]]
       /\ pc[k] \in {"commitSet", "rollbackSet"} => autoCommit[k[2]]
       /\ pc[k] \in {"begin", "beginSet"} => ~isInTransaction[k[2]]
       /\ pc[k] = "commitSet" => buffered[k[2]] \subseteq disk
       /\ pc[k] \notin {"commitSet", "rollbackSet"} => buffered[k[2]] \subseteq pending[k[2]]

\* Nobody else can be in the way.
LEMMA AloneIsFree ==
  ASSUME Alone, FreeInv, NEW c \in Conn
  PROVE  CanRead(c) /\ CanWrite(c) /\ CanExclude(c)
BY DEF Alone, CanRead, CanWrite, CanExclude, OtherHolds

\* Changing one query leaves the others active.
LEMMA FreeHalt ==
  ASSUME EngineInv, FreeInv, NEW c \in Conn, \A d \in Conn : d = c,
         NEW q \in Query, NEW p \in Phase, NEW l \in {lock[c], AtLeast(lock[c], SHARED_LOCK)},
         HaltQuery(c, q, p, l)
  PROVE  FreeInv'
<1> DEFINE f == [phase[c] EXCEPT ![q] = p]
<1>1. phase'[c] = f /\ UNCHANGED <<autoCommit, stuck>>
  BY DEF HaltQuery, EngineInv, EngineTypeOK
<1>2. lock'[c] = IF HaltEnds(c) THEN LockAfterEnd(c, l, f) ELSE l
  BY DEF HaltQuery, EngineInv, EngineTypeOK
<1>3. l # PENDING_LOCK /\ lock[c] \in 0 .. 3
  BY AtConnection DEF FreeInv, AtLeast, SHARED_LOCK, PENDING_LOCK
<1>4. LockAfterEnd(c, l, f) \in {NO_LOCK, SHARED_LOCK}
  BY LockAfterEndType
<1>5. ~stuck[c]
  BY DEF FreeInv
<1>6. HaltEnds(c) /\ Active(f) = {} => lock'[c] = NO_LOCK
  BY <1>2, <1>5 DEF LockAfterEnd
<1>7. autoCommit[c] => HaltEnds(c)
  BY <1>5 DEF HaltEnds
<1>8. lock'[c] # PENDING_LOCK
  BY <1>2, <1>3, <1>4 DEF NO_LOCK, SHARED_LOCK, PENDING_LOCK
<1> QED
  BY <1>1, <1>5, <1>6, <1>7, <1>8 DEF FreeInv

\* A transaction that ends leaves the lock to the queries in progress.
LEMMA FreeEnd ==
  ASSUME EngineInv, FreeInv, NEW c \in Conn, \A d \in Conn : d = c,
         NEW l, NEW rows, EndTransaction(c, l, rows), UNCHANGED <<stuck, phase>>
  PROVE  FreeInv'
<1>1. lock'[c] = LockAfterEnd(c, l, phase[c]) /\ ~stuck[c]
  BY DEF EndTransaction, EngineInv, EngineTypeOK, FreeInv
<1>2. lock'[c] \in {NO_LOCK, SHARED_LOCK}
  BY <1>1, LockAfterEndType
<1>3. Active(phase[c]) = {} => lock'[c] = NO_LOCK
  BY <1>1 DEF LockAfterEnd
<1> QED
  BY <1>1, <1>2, <1>3 DEF FreeInv, NO_LOCK, SHARED_LOCK, PENDING_LOCK

\* An INSERT, in a transaction or out of it.
LEMMA FreeWrite ==
  ASSUME EngineInv, FreeInv, Sole, NEW c \in Conn, \A d \in Conn : d = c,
         NEW r, WriteCommitted(c, r) \/ WriteBuffered(c, r) \/ WriteFails(c),
         UNCHANGED <<stuck, phase>>
  PROVE  FreeInv'
<1>1. ASSUME NEW rows, EndTransaction(c, RESERVED_LOCK, rows)
      PROVE  FreeInv'
  BY <1>1, FreeEnd
<1>2. ASSUME ~HaltEnds(c), lock' = [lock EXCEPT ![c] = AtLeast(@, RESERVED_LOCK)],
             UNCHANGED autoCommit
      PROVE  FreeInv'
  <2>1. lock'[c] = AtLeast(lock[c], RESERVED_LOCK) /\ lock[c] \in 0 .. 3
    BY <1>2, AtConnection DEF EngineInv, EngineTypeOK
  <2>2. ~autoCommit[c] /\ ~stuck[c] /\ lock[c] # PENDING_LOCK
    BY <1>2 DEF HaltEnds, FreeInv
  <2> QED
    BY <1>2, <2>1, <2>2 DEF FreeInv, AtLeast, RESERVED_LOCK, PENDING_LOCK
<1> QED
  BY <1>1, <1>2 DEF WriteCommitted, WriteBuffered, WriteFails, WriteRefused,
     WriteAborted, Sole

LEMMA FreeStep ==
  ASSUME IInv, Alone, FreeInv, NEW t \in Thread, NEW c \in Conn, <<t, c>> \in Client,
         ClientStep(t, c)
  PROVE  FreeInv'
<1> USE DEF IInv
<1>0. (\A d \in Conn : d = c) /\ Sole /\ CanWrite(c) /\ CanRead(c) /\ CanExclude(c)
  BY AloneIsFree DEF Alone
<1>1. ASSUME UNCHANGED <<autoCommit, lock, stuck, phase>>
      PROVE  FreeInv'
  BY <1>1 DEF FreeInv, Active
<1>2. CASE OpenDatabase(t, c)
  BY <1>1, <1>2 DEF OpenDatabase, Open
<1>3. CASE CloseDatabase(t, c)
  <2>1. CASE UNCHANGED engineVars
    BY <1>1, <2>1 DEF engineVars
  <2>2. CASE lock' = [lock EXCEPT ![c] = NO_LOCK] /\ UNCHANGED stuck
    BY <1>0, <2>2 DEF FreeInv, EngineInv, EngineTypeOK, NO_LOCK, PENDING_LOCK
  <2> QED
    BY <1>3, <2>1, <2>2 DEF CloseDatabase, Close
<1>4. CASE TransactionStep(t, c)
  <2>1. CASE UNCHANGED engineVars
    BY <1>1, <2>1 DEF engineVars
  <2>2. CASE BeginExec(t, c)
    <3>1. ~autoCommit'[c] /\ UNCHANGED <<lock, stuck>>
      BY <2>2 DEF BeginExec, ExecBegin, EngineInv, EngineTypeOK
    <3> QED
      BY <1>0, <3>1 DEF FreeInv
  <2>3. CASE CommitExec(t, c)
    BY <1>0, <1>1, <2>3, FreeEnd DEF CommitExec, ExecCommit, EndFails, engineVars
  <2>4. CASE RollbackExec(t, c)
    BY <1>0, <1>1, <2>4, FreeEnd DEF RollbackExec, ExecRollback, EndFails, engineVars
  <2> QED
    BY <1>4, <2>1, <2>2, <2>3, <2>4 DEF TransactionStep, BeginTransaction,
       BeginSet, CommitTransaction, CommitSet, RollbackTransaction, RollbackSet
<1>5. CASE InsertStep(t, c)
  <2>1. ASSUME NEW r \in Row, InsertDone(t, c, r)
        PROVE  FreeInv'
    BY <1>0, <2>1, FreeWrite DEF InsertDone, Inserting
  <2>2. CASE InsertFails(t, c)
    BY <1>0, <2>2, FreeWrite DEF InsertFails, Inserting
  <2> QED
    BY <1>0, <1>5, <2>1, <2>2 DEF InsertStep, InsertUnbound, InsertBlocked,
       WriteBlocked, Alone
<1>6. ASSUME NEW s \in Sql, Exec(t, c, s)
      PROVE  FreeInv'
  <2>1. ExecInsert(c)
    BY <1>6 DEF Exec, Alone, Sole
  <2>2. UNCHANGED <<stuck, phase>>
    BY <2>1 DEF ExecInsert
  <2>3. WriteFails(c) \/ \E r \in Row : WriteCommitted(c, r) \/ WriteBuffered(c, r)
    BY <1>0, <2>1 DEF ExecInsert, WriteBlocked
  <2> QED
    BY <1>0, <2>2, <2>3, FreeWrite
<1>7. ASSUME NEW q \in Query,
             \/ DoQuery(t, c, q) \/ MoveToFirst(t, c, q) \/ MoveToFirstStep(t, c, q)
             \/ MoveToNext(t, c, q) \/ DestroyQuery(t, c, q)
      PROVE  FreeInv'
  <2>0. AtLeast(lock[c], SHARED_LOCK) \in {lock[c], SHARED_LOCK} /\ ~stuck[c]
    BY DEF AtLeast, FreeInv
  <2>1. CASE PrepareQuery(c, q)
    <3>1. phase'[c] = [phase[c] EXCEPT ![q] = "ready"] /\ phase[c][q] = "none"
      BY <2>1 DEF PrepareQuery, EngineInv, EngineTypeOK
    <3>2. Active(phase'[c]) = Active(phase[c])
      BY <3>1 DEF Active, EngineInv, EngineTypeOK
    <3> QED
      BY <1>0, <2>1, <3>2 DEF PrepareQuery, FreeInv
  <2>2. ASSUME NEW p \in Phase, HaltQuery(c, q, p, lock[c])
        PROVE  FreeInv'
    BY <1>0, <2>2, FreeHalt
  <2>3. CASE StepQuery(c, q)
    <3>1. CASE HaltQuery(c, q, "halted", AtLeast(lock[c], SHARED_LOCK))
      BY <1>0, <3>1, FreeHalt DEF Phase
    <3>2. CASE /\ phase' = [phase EXCEPT ![c][q] = "running"]
               /\ lock' = [lock EXCEPT ![c] = AtLeast(@, SHARED_LOCK)]
               /\ UNCHANGED <<autoCommit, stuck>>
      <4>1. phase'[c][q] = "running" /\ lock'[c] = AtLeast(lock[c], SHARED_LOCK)
        BY <3>2 DEF EngineInv, EngineTypeOK
      <4>2. q \in Active(phase'[c])
        BY <4>1 DEF Active
      <4>3. lock'[c] # PENDING_LOCK
        BY <2>0, <4>1 DEF FreeInv, SHARED_LOCK, PENDING_LOCK
      <4> QED
        BY <1>0, <2>0, <3>2, <4>2, <4>3 DEF FreeInv
    <3> QED
      BY <1>0, <2>3, <3>1, <3>2 DEF StepQuery
  <2>4. CASE DoQuery(t, c, q)
    BY <2>1, <2>4 DEF DoQuery
  <2>5. CASE MoveToFirst(t, c, q)
    BY <2>2, <2>5 DEF MoveToFirst, ResetQuery, Phase
  <2>6. CASE MoveToFirstStep(t, c, q) \/ MoveToNext(t, c, q)
    BY <2>3, <2>6 DEF MoveToFirstStep, MoveToNext
  <2>7. CASE DestroyQuery(t, c, q)
    BY <2>2, <2>7 DEF DestroyQuery, FinalizeQuery, Phase
  <2> QED
    BY <1>7, <2>4, <2>5, <2>6, <2>7
<1> QED
  BY <1>2, <1>3, <1>4, <1>5, <1>6, <1>7 DEF ClientStep, QueryStep

LEMMA FreeInductive ==
  ASSUME Alone
  PROVE  IInv /\ FreeInv /\ [Next]_vars => FreeInv'
<1> SUFFICES ASSUME IInv, FreeInv, [Next]_vars
             PROVE  FreeInv'
  OBVIOUS
<1>1. ASSUME NEW k \in Client, ClientStep(k[1], k[2])
      PROVE  FreeInv'
  BY <1>1, ClientPair, FreeStep
<1>2. CASE PowerLoss
  BY <1>2 DEF PowerLoss, EngineCrash, FreeInv, NO_LOCK, PENDING_LOCK
<1>3. CASE UNCHANGED vars
  BY <1>3 DEF vars, engineVars, FreeInv
<1> QED
  BY <1>1, <1>2, <1>3 DEF Next

LEMMA FreeInit == Init => FreeInv
<1>1. ASSUME Init, NEW c \in Conn
      PROVE  ~stuck[c] /\ lock[c] = 0
  BY <1>1 DEF Init, EngineInit, NO_LOCK
<1>2. \A c \in Conn : ~stuck[c] /\ lock[c] = 0 => ~stuck[c] /\ lock[c] # 3
  OBVIOUS
<1> QED
  BY <1>1, <1>2 DEF FreeInv, NO_LOCK, PENDING_LOCK

LEMMA ReportStep ==
  ASSUME IInv, Alone, FlagInv, UndoInv, FreeInv, ReportInv,
         NEW t \in Thread, NEW c \in Conn, <<t, c>> \in Client, ClientStep(t, c)
  PROVE  ReportInv'
<1> USE DEF IInv
<1> DEFINE k == <<t, c>>
<1>0. /\ (\A d \in Conn : d = c) /\ (\A l \in Client : l = k)
      /\ Sole /\ CanWrite(c) /\ CanRead(c) /\ CanExclude(c) /\ ~stuck[c]
  BY AloneIsFree, ClientPair DEF Alone, Sole, FreeInv
<1>1. ASSUME kept' \subseteq disk',
             held'[c] =>
               /\ ~isInTransaction'[c] /\ pc'[k] # "beginSet" => autoCommit'[c]
               /\ pc'[k] \in {"commitSet", "rollbackSet"} => autoCommit'[c]
               /\ pc'[k] \in {"begin", "beginSet"} => ~isInTransaction'[c]
               /\ pc'[k] = "commitSet" => buffered'[c] \subseteq disk'
               /\ pc'[k] \notin {"commitSet", "rollbackSet"} => buffered'[c] \subseteq pending'[c]
      PROVE  ReportInv'
  <2>1. k \in Client /\ k[2] = c
    OBVIOUS
  <2> QED
    BY <1>0, <1>1, <2>1 DEF ReportInv
<1>2. /\ kept \subseteq disk
      /\ held[c] =>
           /\ ~isInTransaction[c] /\ pc[k] # "beginSet" => autoCommit[c]
           /\ pc[k] \in {"commitSet", "rollbackSet"} => autoCommit[c]
           /\ pc[k] \in {"begin", "beginSet"} => ~isInTransaction[c]
           /\ pc[k] = "commitSet" => buffered[c] \subseteq disk
           /\ pc[k] \notin {"commitSet", "rollbackSet"} => buffered[c] \subseteq pending[c]
  BY DEF ReportInv
<1>3. /\ ~isInTransaction[c] => buffered[c] = {}
      /\ pc[k] \in {"commit", "commitSet", "rollback", "rollbackSet"} => isInTransaction[c]
      /\ pc[k] = "beginSet" => ~autoCommit[c]
      /\ isInTransaction[c] /\ pc[k] \notin {"commitSet", "rollbackSet"} => ~autoCommit[c]
      /\ pc[k] \notin {"idle", "rewound"} => held[c]
  BY DEF UndoInv, FlagInv, CallsHold
<1>4. CASE OpenDatabase(t, c)
  <2>1. autoCommit[c]
    BY <1>4, AtConnection DEF OpenDatabase, Open
  <2>2. pc[k] = "idle" /\ buffered[c] \subseteq pending[c]
    <3>1. isInTransaction[c] => ~autoCommit[c]
      BY <1>3, <1>4 DEF OpenDatabase, Idle
    <3> QED
      BY <1>3, <1>4, <2>1, <3>1 DEF OpenDatabase, Idle
  <2> QED
    BY <1>1, <1>2, <1>4, <2>1, <2>2 DEF OpenDatabase, Open, historyVars
<1>5. CASE CloseDatabase(t, c)
  <2>1. ~held'[c] /\ disk' = disk /\ kept' = kept
    BY <1>5 DEF CloseDatabase, Close, engineVars, DbTypeOK
  <2> QED
    BY <1>1, <1>2, <2>1
<1>6. CASE BeginTransaction(t, c) \/ CommitTransaction(t, c) \/ RollbackTransaction(t, c)
  <2>1. /\ held[c] /\ pc[k] = "idle" /\ UNCHANGED <<engineVars, held, isInTransaction, historyVars>>
        /\ pc'[k] \in {"begin", "commit", "rollback"}
        /\ pc'[k] = "begin" => ~isInTransaction[c]
    BY <1>6 DEF BeginTransaction, CommitTransaction, RollbackTransaction, Idle, Goto, DbTypeOK
  <2> QED
    BY <1>1, <1>2, <2>1 DEF engineVars, historyVars
<1>7. CASE BeginExec(t, c)
  <2>1. pc[k] = "begin" /\ pc'[k] = "beginSet" /\ held[c]
    BY <1>3, <1>7 DEF BeginExec, Goto, DbTypeOK
  <2> QED
    BY <1>1, <1>2, <1>7, <2>1 DEF BeginExec, ExecBegin, historyVars
<1>8. CASE BeginSet(t, c)
  <2>1. /\ pc[k] = "beginSet" /\ pc'[k] = "idle" /\ held[c] /\ isInTransaction'[c]
    BY <1>3, <1>8 DEF BeginSet, Goto, DbTypeOK
  <2> QED
    BY <1>1, <1>2, <1>8, <2>1 DEF BeginSet, engineVars, historyVars
<1>9. CASE CommitExec(t, c)
  <2>1. pc[k] = "commit" /\ pc'[k] = "commitSet" /\ held[c] /\ ~autoCommit[c]
        /\ isInTransaction[c] /\ UNCHANGED <<held, isInTransaction, historyVars>>
    BY <1>3, <1>9 DEF CommitExec, Goto, DbTypeOK
  <2>2. disk' = disk \cup pending[c] /\ autoCommit'[c]
    BY <1>0, <1>9, <2>1 DEF CommitExec, ExecCommit, EndFails, EndTransaction, EngineInv,
       EngineTypeOK
  <2> QED
    BY <1>1, <1>2, <2>1, <2>2 DEF historyVars
<1>10. CASE RollbackExec(t, c)
  <2>1. pc[k] = "rollback" /\ pc'[k] = "rollbackSet" /\ held[c] /\ ~autoCommit[c]
        /\ isInTransaction[c] /\ UNCHANGED <<held, isInTransaction, historyVars>>
    BY <1>3, <1>10 DEF RollbackExec, Goto, DbTypeOK
  <2>2. disk' = disk \cup {} /\ autoCommit'[c]
    BY <1>0, <1>10, <2>1 DEF RollbackExec, ExecRollback, EndFails, EndTransaction,
       EngineInv, EngineTypeOK
  <2> QED
    BY <1>1, <1>2, <2>1, <2>2 DEF historyVars
<1>11. CASE CommitSet(t, c) \/ RollbackSet(t, c)
  <2>1. /\ pc[k] \in {"commitSet", "rollbackSet"} /\ pc'[k] = "idle" /\ held[c]
        /\ buffered'[c] = {} /\ ~isInTransaction'[c] /\ UNCHANGED engineVars
    BY <1>3, <1>11 DEF CommitSet, RollbackSet, Goto, DbTypeOK
  <2>2. kept' = kept \/ (pc[k] = "commitSet" /\ kept' = kept \cup buffered[c])
    BY <1>11 DEF CommitSet, RollbackSet
  <2> QED
    BY <1>1, <1>2, <2>1, <2>2 DEF engineVars
\* Inserting, by insert or by exec.
<1>12. ASSUME Idle(t, c), held[c], UNCHANGED dbVars, NEW r \in Row,
              WriteCommitted(c, r) \/ WriteBuffered(c, r), Report(c, r)
       PROVE  ReportInv'
  <2>1. pc[k] = "idle" /\ (isInTransaction[c] <=> ~autoCommit[c])
    BY <1>2, <1>3, <1>12 DEF Idle
  <2>2. autoCommit' = autoCommit
    BY <1>12 DEF WriteCommitted, WriteBuffered
  <2>3. CASE isInTransaction[c]
    <3>1. pending'[c] = pending[c] \cup {r} /\ disk' = disk
      BY <1>12, <2>1, <2>3 DEF WriteCommitted, WriteBuffered, HaltEnds, EngineInv, EngineTypeOK
    <3>2. buffered'[c] = buffered[c] \cup {r} /\ kept' = kept
      BY <1>12, <2>3 DEF Report, DbTypeOK
    <3> QED
      BY <1>1, <1>2, <1>12, <2>1, <2>2, <2>3, <3>1, <3>2 DEF dbVars
  <2>4. CASE ~isInTransaction[c]
    <3>1. disk' = disk \cup (pending[c] \cup {r})
      BY <1>0, <1>12, <2>1, <2>4 DEF WriteCommitted, WriteBuffered, HaltEnds, EndTransaction
    <3>2. buffered'[c] = {} /\ kept' = kept \cup {r}
      BY <1>3, <1>12, <2>4 DEF Report
    <3> QED
      BY <1>1, <1>2, <1>12, <2>1, <2>2, <2>4, <3>1, <3>2 DEF dbVars
  <2> QED
    BY <2>3, <2>4
<1>13. ASSUME Idle(t, c), held[c], UNCHANGED <<dbVars, historyVars>>, WriteFails(c)
       PROVE  ReportInv'
  <2>1. pc[k] = "idle" /\ (isInTransaction[c] <=> ~autoCommit[c])
    BY <1>2, <1>3, <1>13 DEF Idle
  <2>2. autoCommit' = autoCommit /\ disk' = disk /\ (~autoCommit[c] => pending' = pending)
    BY <1>0, <1>13, <2>1 DEF WriteFails, WriteRefused, WriteAborted, HaltEnds, EndTransaction, Sole
  <2> QED
    BY <1>1, <1>2, <1>3, <1>13, <2>1, <2>2 DEF dbVars, historyVars
<1>14. CASE InsertStep(t, c)
  BY <1>0, <1>12, <1>13, <1>14 DEF InsertStep, InsertDone, InsertUnbound, InsertBlocked,
     InsertFails, Inserting, WriteBlocked, Alone
<1>15. ASSUME NEW s \in Sql, Exec(t, c, s)
       PROVE  ReportInv'
  <2>1. ExecInsert(c)
    BY <1>15 DEF Exec, Alone, Sole
  <2> QED
    BY <1>0, <1>12, <1>13, <1>15, <2>1 DEF Exec, ExecInsert, WriteBlocked
<1>16. CASE QueryStep(t, c)
  <2>1. UNCHANGED <<disk, pending, autoCommit, held, isInTransaction, historyVars>>
    BY <1>16 DEF QueryStep, DoQuery, MoveToFirst, MoveToFirstStep, MoveToNext,
       DestroyQuery, PrepareQuery, ResetQuery, StepQuery, FinalizeQuery, HaltQuery, dbVars
  <2>2. pc[k] \in {"idle", "rewound"} /\ pc'[k] \in {"idle", "rewound"}
    BY <1>16 DEF QueryStep, DoQuery, MoveToFirst, MoveToFirstStep, MoveToNext,
       DestroyQuery, Idle, Goto, dbVars, DbTypeOK
  <2> QED
    BY <1>1, <1>2, <2>1, <2>2 DEF historyVars
<1> QED
  BY <1>4, <1>5, <1>6, <1>7, <1>8, <1>9, <1>10, <1>11, <1>14, <1>15, <1>16
     DEF ClientStep, TransactionStep

LEMMA ReportInductive ==
  ASSUME Alone
  PROVE  IInv /\ FlagInv /\ UndoInv /\ FreeInv /\ ReportInv /\ [Next]_vars => ReportInv'
<1> SUFFICES ASSUME IInv, FlagInv, UndoInv, FreeInv, ReportInv, [Next]_vars
             PROVE  ReportInv'
  OBVIOUS
<1>1. ASSUME NEW k \in Client, ClientStep(k[1], k[2])
      PROVE  ReportInv'
  BY <1>1, ClientPair, ReportStep
<1>2. CASE PowerLoss
  BY <1>2, ClientPair DEF PowerLoss, EngineCrash, ReportInv
<1>3. CASE UNCHANGED vars
  BY <1>3 DEF vars, dbVars, engineVars, historyVars, ReportInv
<1> QED
  BY <1>1, <1>2, <1>3 DEF Next

LEMMA ReportInit == Init => ReportInv
BY ClientPair DEF Init, EngineInit, ReportInv

LEMMA AloneAlways ==
  ASSUME Alone
  PROVE  Spec => [](IInv /\ FlagInv /\ FreeInv /\ ReportInv)
<1>1. Sole
  BY DEF Alone
<1> QED
  BY <1>1, IInvInit, IInvInductive, FlagInit, FlagInductive, UndoInit, UndoInductive,
     FreeInit, FreeInductive, ReportInit, ReportInductive, PTL DEF Spec

\* For the only connection to its file, used by one thread: what insert reports
\* outside a transaction, and all of a transaction that commitTransaction was
\* called for, is in the file, through failed inserts, closing, opening again
\* and power loss.
THEOREM ReportsAreDurable ==
  ASSUME Alone
  PROVE  Spec => []KeptIsDurable
<1>1. ReportInv => KeptIsDurable
  BY DEF ReportInv, KeptIsDurable
<1> QED
  BY <1>1, AloneAlways, PTL

\* In the same use no transaction and no lock is left behind: when
\* isInTransaction is false, no call is in progress and no cursor is being read,
\* the engine is in no transaction and holds no lock.
THEOREM NothingIsOrphaned ==
  ASSUME Alone
  PROVE  Spec => []NoOrphanTransaction
<1>1. IInv /\ FreeInv /\ ReportInv => NoOrphanTransaction
  <2> SUFFICES ASSUME IInv, FreeInv, ReportInv, NEW c \in Conn,
                      held[c], ~isInTransaction[c], ~InCall(c), Active(phase[c]) = {}
               PROVE  autoCommit[c] /\ lock[c] = NO_LOCK
    BY DEF NoOrphanTransaction
  <2>1. PICK k \in Client : k[2] = c
    BY DEF ReportInv
  <2>2. pc[k] \in {"idle", "rewound"}
    BY <2>1, ClientPair DEF InCall
  <2>3. autoCommit[c]
    BY <2>1, <2>2 DEF ReportInv
  <2> QED
    BY <2>3 DEF FreeInv
<1> QED
  BY <1>1, AloneAlways, PTL

\* In the same use commitTransaction does end the transaction.
THEOREM CommitsAreFinal ==
  ASSUME Alone
  PROVE  Spec => CommitIsFinal
<1>1. ASSUME IInv, ReportInv, NEW k \in Client, CommitSet(k[1], k[2])
      PROVE  autoCommit[k[2]]
  <2>1. pc[k] = "commitSet" /\ held[k[2]]
    BY <1>1, ClientPair DEF CommitSet, IInv, CallsHold
  <2> QED
    BY <1>1, <2>1 DEF ReportInv
<1>2. IInv /\ ReportInv /\ [Next]_vars =>
        [\A k \in Client : CommitSet(k[1], k[2]) => autoCommit[k[2]]]_vars
  BY <1>1
<1> QED
  BY <1>2, AloneAlways, PTL DEF Spec, CommitIsFinal
=============================================================================
