-------------------------- MODULE JniBridgeProofs --------------------------
(***************************************************************************)
(* What holds of JniBridge for every set of callers, addresses,            *)
(* connections and statements: what dbPtrs keeps, what closing leaves      *)
(* behind, and, when no path is opened twice, that no address dangles.     *)
(***************************************************************************)
EXTENDS JniBridge, SqliteConnectionProofs

BridgeTypeOK ==
  /\ dbPtrs \in [Object -> Nat]
  /\ db \in [Object -> Conn \cup {None}]
  /\ isInTransaction \in [Object -> BOOLEAN]
  /\ nativePtr \in [Caller -> Object \cup {None}]
  /\ queries \in [Caller -> SUBSET (Conn \X Query)]

\* A database of the file is alive, its connection open, and there is only one.
Connected ==
  /\ \A o \in Object : db[o] # None => Alive(o) /\ open[db[o]]
  /\ \A o, p \in Object : db[o] # None /\ db[p] # None => o = p

Kept == Connected /\ NoDatabaseLeaks /\ LeaksAreBusy /\ QueriesAreLive

IInv == EngineInv /\ BridgeTypeOK /\ Kept

\* A call through a Java object is one on an open connection.
LEMMA CallIsOpen ==
  ASSUME IInv, NEW j \in Caller, NEW c \in Conn, Calls(j, c)
  PROVE  open[c] /\ nativePtr[j] \in Object
BY NoneAssumption DEF IInv, BridgeTypeOK, Kept, Connected, Calls

\* A statement that Java has is one of an open connection.
LEMMA QueryIsOpen ==
  ASSUME IInv, NEW j \in Caller, NEW c \in Conn, NEW q \in Query, <<c, q>> \in queries[j]
  PROVE  open[c]
BY DEF IInv, Kept, QueriesAreLive

-----------------------------------------------------------------------------
(* Calls on a database or a query. *)

\* A write, whichever way it goes.
WriteStep(c) == WriteDone(c) \/ WriteFails(c) \/ WriteBlocked(c)

\* What SQL does to a connection besides its rows, its locks and its mode.
LEMMA SqlLeaves ==
  ASSUME NEW c \in Conn, ExecBegin(c) \/ ExecCommit(c) \/ ExecRollback(c)
  PROVE  UNCHANGED <<open, unfinalized, phase>>
BY DEF ExecBegin, ExecCommit, ExecRollback, EndFails, engineVars

LEMMA DatabaseStepEngine ==
  ASSUME IInv, NEW j \in Caller, NEW c \in Conn, DatabaseStep(j, c)
  PROVE  EngineInv'
<1>1. open[c]
  BY CallIsOpen DEF DatabaseStep, BeginTransaction, CommitTransaction,
     RollbackTransaction, Insert, Exec
<1>2. EngineInv
  BY DEF IInv
<1>3. ASSUME WriteStep(c), UNCHANGED <<open, phase, stuck>>,
             unfinalized' \in {unfinalized, [unfinalized EXCEPT ![c] = TRUE]}
      PROVE  EngineInv'
  BY <1>1, <1>2, <1>3, WriteInv DEF WriteStep, WriteDone, WriteFails
<1>4. CASE Insert(j, c)
  BY <1>1, <1>2, <1>3, <1>4, AbandonInv DEF Insert, WriteStep
<1>5. CASE Exec(j, c)
  BY <1>1, <1>2, <1>3, <1>5, ExecBeginInv, ExecCommitInv, ExecRollbackInv
     DEF Exec, WriteStep
<1> QED
  BY <1>1, <1>2, <1>4, <1>5, ExecBeginInv, ExecCommitInv, ExecRollbackInv
     DEF DatabaseStep, BeginTransaction, CommitTransaction, RollbackTransaction

\* No call takes a statement or a pointer away.
LEMMA Quiet ==
  ASSUME Kept, UNCHANGED <<open, dbPtrs, db, nativePtr, queries>>,
         \A c \in Conn : unfinalized[c] => unfinalized'[c],
         \A c \in Conn, q \in Query : phase[c][q] # "none" => phase'[c][q] # "none",
         BridgeTypeOK
  PROVE  Kept'
<1>1. \A c \in Conn : IsBusy(c) => IsBusy(c)'
  BY DEF IsBusy
<1>2. Connected' /\ NoDatabaseLeaks'
  BY DEF Kept, Connected, NoDatabaseLeaks, Alive
<1>3. LeaksAreBusy'
  BY <1>1 DEF Kept, LeaksAreBusy, Alive
<1>4. QueriesAreLive'
  <2> SUFFICES ASSUME NEW j \in Caller, NEW k \in queries[j]
               PROVE  /\ open[k[1]] /\ phase'[k[1]][k[2]] # "none"
                      /\ \A i \in Caller \ {j} : k \notin queries[i]
    BY DEF QueriesAreLive
  <2>1. k[1] \in Conn /\ k[2] \in Query
    BY DEF BridgeTypeOK
  <2> QED
    BY <2>1 DEF Kept, QueriesAreLive
<1> QED
  BY <1>2, <1>3, <1>4 DEF Kept

LEMMA DatabaseStepInv ==
  ASSUME IInv, NEW j \in Caller, NEW c \in Conn, DatabaseStep(j, c)
  PROVE  IInv'
<1>1. UNCHANGED <<open, phase, dbPtrs, db, nativePtr, queries>>
  BY SqlLeaves DEF DatabaseStep, BeginTransaction, CommitTransaction,
     RollbackTransaction, Insert, Exec, bridgeVars
<1>2. \A d \in Conn : unfinalized[d] => unfinalized'[d]
  BY SqlLeaves DEF DatabaseStep, BeginTransaction, CommitTransaction,
     RollbackTransaction, Insert, Exec, IInv, EngineInv, EngineTypeOK
<1>3. BridgeTypeOK'
  BY <1>1 DEF IInv, BridgeTypeOK, DatabaseStep, BeginTransaction, CommitTransaction,
     RollbackTransaction, SetFlag, Insert, Exec, bridgeVars
<1>4. Kept'
  BY <1>1, <1>2, Quiet DEF IInv
<1> QED
  BY <1>3, <1>4, DatabaseStepEngine DEF IInv

LEMMA QueryStepEngine ==
  ASSUME IInv, NEW j \in Caller, NEW c \in Conn, NEW q \in Query, QueryStep(j, c, q)
  PROVE  EngineInv'
<1>1. EngineInv
  BY DEF IInv
<1>2. CASE NewQuery(j, c, q)
  BY <1>1, <1>2, PrepareQueryInv DEF NewQuery
<1>3. CASE MoveToFirst(j, c, q)
  BY <1>1, <1>3, ResetQueryInv DEF MoveToFirst
<1>4. CASE MoveToFirstStep(j, c, q)
  BY <1>1, <1>4, QueryIsOpen, StepQueryInv DEF MoveToFirstStep
<1>5. CASE MoveToNext(j, c, q)
  BY <1>1, <1>5, QueryIsOpen, StepQueryInv DEF MoveToNext
<1>6. CASE CloseQuery(j, c, q)
  BY <1>1, <1>6, EngineStutter DEF CloseQuery
<1> QED
  BY <1>2, <1>3, <1>4, <1>5, <1>6 DEF QueryStep

LEMMA QueryStepInv ==
  ASSUME IInv, NEW j \in Caller, NEW c \in Conn, NEW q \in Query, QueryStep(j, c, q)
  PROVE  IInv'
<1> USE DEF IInv, EngineInv, EngineTypeOK, BridgeTypeOK
<1>1. CASE NewQuery(j, c, q)
  <2>1. /\ UNCHANGED <<open, unfinalized, dbPtrs, db, nativePtr, isInTransaction>>
        /\ phase' = [phase EXCEPT ![c][q] = "ready"]
        /\ queries' = [queries EXCEPT ![j] = @ \cup {<<c, q>>}]
        /\ open[c] /\ phase[c][q] = "none"
    BY <1>1 DEF NewQuery, PrepareQuery
  <2>2. BridgeTypeOK'
    BY <2>1
  <2>3. \A d \in Conn : IsBusy(d) => IsBusy(d)'
    BY <2>1 DEF IsBusy
  <2>4. Connected' /\ NoDatabaseLeaks' /\ LeaksAreBusy'
    BY <2>1, <2>3 DEF Kept, Connected, NoDatabaseLeaks, LeaksAreBusy, Alive
  <2>5. QueriesAreLive'
    <3> SUFFICES ASSUME NEW i \in Caller, NEW k \in queries'[i]
                 PROVE  /\ open[k[1]] /\ phase'[k[1]][k[2]] # "none"
                        /\ \A h \in Caller \ {i} : k \notin queries'[h]
      BY <2>1 DEF QueriesAreLive
    <3>1. \A h \in Caller : <<c, q>> \notin queries[h]
      BY <2>1 DEF Kept, QueriesAreLive
    <3>2. CASE k = <<c, q>>
      <4>1. i = j
        BY <2>1, <3>1, <3>2
      <4> QED
        BY <2>1, <3>1, <3>2, <4>1
    <3>3. CASE k # <<c, q>>
      <4>1. k \in queries[i] /\ k[1] \in Conn /\ k[2] \in Query
        BY <2>1, <3>3
      <4>2. open[k[1]] /\ phase[k[1]][k[2]] # "none"
        BY <4>1 DEF Kept, QueriesAreLive
      <4>3. phase'[k[1]][k[2]] # "none"
        BY <2>1, <4>1, <4>2
      <4>4. \A h \in Caller \ {i} : k \notin queries'[h]
        BY <2>1, <3>3, <4>1 DEF Kept, QueriesAreLive
      <4> QED
        BY <4>2, <4>3, <4>4
    <3> QED
      BY <3>2, <3>3
  <2> QED
    BY <2>2, <2>4, <2>5, QueryStepEngine DEF Kept
<1>2. CASE MoveToFirst(j, c, q) \/ MoveToFirstStep(j, c, q) \/ MoveToNext(j, c, q)
  <2>1. UNCHANGED <<open, unfinalized, bridgeVars>>
    BY <1>2 DEF MoveToFirst, MoveToFirstStep, MoveToNext, ResetQuery, StepQuery, HaltQuery
  <2>2. \E p \in Phase \ {"none"} : phase' = [phase EXCEPT ![c][q] = p]
    BY <1>2 DEF MoveToFirst, MoveToFirstStep, MoveToNext, ResetQuery, StepQuery,
       HaltQuery, Phase
  <2>3. \A d \in Conn, r \in Query : phase[d][r] # "none" => phase'[d][r] # "none"
    BY <2>2
  <2>4. Kept'
    BY <2>1, <2>3, Quiet DEF bridgeVars
  <2> QED
    BY <2>1, <2>4, QueryStepEngine DEF bridgeVars
<1>3. CASE CloseQuery(j, c, q)
  <2>1. /\ UNCHANGED <<engineVars, dbPtrs, db, isInTransaction, nativePtr>>
        /\ \A i \in Caller : queries'[i] \subseteq queries[i]
        /\ queries' \in [Caller -> SUBSET (Conn \X Query)]
    BY <1>3 DEF CloseQuery
  <2>2. Kept'
    BY <2>1 DEF Kept, Connected, NoDatabaseLeaks, LeaksAreBusy, QueriesAreLive, Alive,
       IsBusy, engineVars
  <2> QED
    BY <2>1, <2>2, QueryStepEngine
<1> QED
  BY <1>1, <1>2, <1>3 DEF QueryStep

-----------------------------------------------------------------------------
(* openDatabase, closeDatabase, and the end of the process. *)

\* One more pointer to o, which j has from now on.
LEMMA PushType ==
  ASSUME BridgeTypeOK, NEW j \in Caller, NEW o \in Object, Push(j, o)
  PROVE  /\ dbPtrs' \in [Object -> Nat] /\ nativePtr' \in [Caller -> Object \cup {None}]
         /\ Alive(o)' /\ nativePtr'[j] = o
         /\ \A p \in Object \ {o} : Alive(p)' = Alive(p)
         /\ \A i \in Caller \ {j} : nativePtr'[i] = nativePtr[i]
BY DEF BridgeTypeOK, Push, Alive

LEMMA OpenDatabaseInv ==
  ASSUME IInv, NEW j \in Caller, OpenShared(j) \/ OpenNew(j) \/ OpenInMemory(j)
  PROVE  IInv'
<1> USE DEF IInv, Kept
<1>1. nativePtr[j] = None
  BY DEF OpenShared, OpenNew, OpenInMemory
<1>2. ASSUME NEW o \in Object, Push(j, o),
             UNCHANGED <<engineVars, db, isInTransaction, queries>>
      PROVE  IInv'
  <2>1. BridgeTypeOK' /\ EngineInv'
    BY <1>2, PushType, EngineStutter DEF BridgeTypeOK
  <2>2. Connected' /\ LeaksAreBusy' /\ QueriesAreLive'
    <3>1. \A p \in Object : Alive(p) => Alive(p)'
      BY <1>2, PushType
    <3> QED
      BY <1>2, <3>1 DEF engineVars, Connected, LeaksAreBusy, IsBusy, QueriesAreLive
  <2>3. NoDatabaseLeaks'
    BY <1>1, <1>2, PushType, NoneAssumption DEF NoDatabaseLeaks
  <2> QED
    BY <2>1, <2>2, <2>3
<1>3. CASE OpenNew(j)
  <2>1. PICK o \in Object, c \in Conn :
          ~Alive(o) /\ Push(j, o) /\ Open(c) /\ db' = [db EXCEPT ![o] = c]
    BY <1>3 DEF OpenNew
  <2>2. UNCHANGED <<isInTransaction, queries>> /\ \A p \in Object : ~Alive(p) \/ db[p] = None
    BY <1>3 DEF OpenNew
  <2>3. c # None
    BY NoneAssumption
  <2>4. \A p \in Object : db[p] = None
    BY <2>2 DEF Connected
  <2>5. BridgeTypeOK' /\ EngineInv'
    BY <2>1, <2>2, PushType, OpenInv DEF BridgeTypeOK
  <2>6. open'[c] /\ \A d \in Conn : open[d] => open'[d]
    BY <2>1 DEF Open, EngineInv, EngineTypeOK
  <2>7. db'[o] = c /\ \A p \in Object \ {o} : db'[p] = None
    BY <2>1, <2>4 DEF BridgeTypeOK
  <2>8. Connected'
    BY <2>1, <2>6, <2>7, PushType DEF Connected
  <2>9. NoDatabaseLeaks'
    BY <1>1, <2>1, PushType, NoneAssumption DEF NoDatabaseLeaks
  <2>10. LeaksAreBusy'
    <3> SUFFICES ASSUME NEW d \in Conn, open'[d]
                 PROVE  IsBusy(d)' \/ \E p \in Object : Alive(p)' /\ db'[p] = d
      BY DEF LeaksAreBusy
    <3>1. CASE d = c
      BY <2>1, <2>7, <3>1, PushType
    <3>2. CASE d # c
      <4>1. open[d]
        BY <2>1, <3>2 DEF Open, EngineInv, EngineTypeOK
      <4>2. IsBusy(d)
        BY <2>4, <4>1, NoneAssumption DEF LeaksAreBusy
      <4> QED
        BY <2>1, <4>2 DEF Open, IsBusy
    <3> QED
      BY <3>1, <3>2
  <2>11. QueriesAreLive'
    <3>1. queries' = queries /\ phase' = phase
      BY <2>1, <2>2 DEF Open
    <3>2. \A i \in Caller : \A k \in queries[i] : k[1] \in Conn
      BY DEF BridgeTypeOK
    <3> QED
      BY <2>6, <3>1, <3>2 DEF QueriesAreLive
  <2> QED
    BY <2>5, <2>8, <2>9, <2>10, <2>11
<1> QED
  BY <1>2, <1>3 DEF OpenShared, OpenInMemory

\* The database of j goes, with every pointer to it; the connection may stay.
LEMMA CloseDatabaseInv ==
  ASSUME IInv, NEW j \in Caller, CloseDatabase(j)
  PROVE  IInv'
<1> USE DEF IInv, Kept
<1>0. PICK o \in Object : nativePtr[j] = o
  BY DEF CloseDatabase, BridgeTypeOK
<1>1. /\ Erase(o) /\ queries' = queries
      /\ \/ db[o] # None /\ Close(db[o])
         \/ db[o] = None /\ UNCHANGED engineVars
      /\ db' = [db EXCEPT ![o] = None]
      /\ isInTransaction' = [isInTransaction EXCEPT ![o] = FALSE]
      /\ nativePtr' = [nativePtr EXCEPT ![j] = None]
  BY <1>0 DEF CloseDatabase
<1>2. BridgeTypeOK'
  BY <1>1 DEF BridgeTypeOK, Erase
<1>3. EngineInv'
  BY <1>1, CloseInv, EngineStutter DEF BridgeTypeOK
<1>4. ~Alive(o)' /\ \A p \in Object \ {o} : Alive(p)' = Alive(p) /\ db'[p] = db[p]
  BY <1>1 DEF Alive, Erase, BridgeTypeOK
<1>5. db'[o] = None
  BY <1>1 DEF BridgeTypeOK
<1>6. /\ UNCHANGED <<unfinalized, phase>>
      /\ \A d \in Conn : open'[d] # open[d] => d = db[o] /\ ~IsBusy(d) /\ ~open'[d]
  BY <1>1 DEF Close, engineVars, EngineInv, EngineTypeOK, BridgeTypeOK
<1>7. Connected'
  <2> SUFFICES ASSUME NEW p \in Object, db'[p] # None
               PROVE  /\ Alive(p)' /\ open'[db'[p]]
                      /\ \A r \in Object : db'[r] # None => p = r
    BY DEF Connected
  <2>1. p # o /\ db[p] # None /\ Alive(p)
    BY <1>4, <1>5 DEF Connected
  <2>2. db[o] = None
    BY <1>1, <2>1 DEF Connected
  <2>3. db[p] \in Conn /\ open[db[p]]
    BY <2>1 DEF BridgeTypeOK, Connected
  <2> QED
    BY <1>1, <1>4, <1>5, <1>6, <2>1, <2>2, <2>3 DEF Connected
<1>8. NoDatabaseLeaks'
  BY <1>0, <1>1, <1>4 DEF NoDatabaseLeaks, BridgeTypeOK
<1>9. LeaksAreBusy'
  <2> SUFFICES ASSUME NEW d \in Conn, open'[d], ~IsBusy(d)'
               PROVE  \E p \in Object : Alive(p)' /\ db'[p] = d
    BY DEF LeaksAreBusy
  <2>1. open[d] /\ ~IsBusy(d)
    BY <1>6 DEF IsBusy
  <2>2. PICK p \in Object : Alive(p) /\ db[p] = d
    BY <2>1 DEF LeaksAreBusy
  <2>3. p # o
    <3>1. SUFFICES ASSUME p = o
                   PROVE  FALSE
      OBVIOUS
    <3>2. Close(d) /\ d # None
      BY <1>1, <2>2, <3>1, NoneAssumption
    <3>3. open' = [open EXCEPT ![d] = FALSE]
      BY <2>1, <3>2 DEF Close
    <3> QED
      BY <3>3 DEF EngineInv, EngineTypeOK
  <2> QED
    BY <1>4, <2>2, <2>3
<1>10. QueriesAreLive'
  <2> SUFFICES ASSUME NEW i \in Caller, NEW k \in queries[i]
               PROVE  /\ open'[k[1]] /\ phase'[k[1]][k[2]] # "none"
                      /\ \A h \in Caller \ {i} : k \notin queries[h]
    BY <1>1 DEF QueriesAreLive
  <2>1. k[1] \in Conn /\ k[2] \in Query
    BY DEF BridgeTypeOK
  <2>2. open[k[1]] /\ phase[k[1]][k[2]] # "none" /\ \A h \in Caller \ {i} : k \notin queries[h]
    BY DEF QueriesAreLive
  <2>3. IsBusy(k[1])
    BY <2>1, <2>2 DEF IsBusy
  <2> QED
    BY <1>6, <2>1, <2>2, <2>3
<1> QED
  BY <1>2, <1>3, <1>7, <1>8, <1>9, <1>10

LEMMA KilledInv ==
  ASSUME IInv, Killed
  PROVE  IInv'
<1>1. EngineInv'
  BY EngineCrashInv DEF IInv, Killed
<1>2. BridgeTypeOK'
  BY DEF Killed, BridgeTypeOK
<1>3. Kept'
  BY DEF Killed, EngineCrash, Kept, Connected, NoDatabaseLeaks, LeaksAreBusy,
     QueriesAreLive, Alive
<1> QED
  BY <1>1, <1>2, <1>3 DEF IInv

LEMMA IInvInit == Init => IInv
<1> SUFFICES ASSUME Init
             PROVE  IInv
  OBVIOUS
<1>1. EngineInv
  BY EngineInitInv DEF Init
<1>2. BridgeTypeOK
  BY DEF Init, BridgeTypeOK
<1>3. Kept
  BY DEF Init, EngineInit, Kept, Connected, NoDatabaseLeaks, LeaksAreBusy,
     QueriesAreLive, Alive
<1> QED
  BY <1>1, <1>2, <1>3 DEF IInv

LEMMA IInvStutter ==
  ASSUME IInv, UNCHANGED vars
  PROVE  IInv'
<1>1. EngineInv'
  BY EngineStutter DEF IInv, vars
<1>2. BridgeTypeOK' /\ Kept'
  BY DEF vars, engineVars, bridgeVars, IInv, BridgeTypeOK, Kept, Connected,
     NoDatabaseLeaks, LeaksAreBusy, QueriesAreLive, Alive, IsBusy
<1> QED
  BY <1>1, <1>2 DEF IInv

LEMMA IInvInductive == IInv /\ [Next]_vars => IInv'
BY DatabaseStepInv, QueryStepInv, OpenDatabaseInv, CloseDatabaseInv, KilledInv,
   IInvStutter DEF Next, HandleStep

-----------------------------------------------------------------------------
(* What follows. *)

\* Every variable of the bridge and of its connections keeps its type.
THEOREM TypeCorrect == Spec => []TypeOK
<1>1. IInv => TypeOK
  BY DEF IInv, EngineInv, BridgeTypeOK, TypeOK
<1> QED
  BY <1>1, IInvInit, IInvInductive, PTL DEF Spec

\* However often databases are opened, closed and opened again: one that no Java
\* object can reach is destroyed.
THEOREM NothingElseLeaks == Spec => []NoDatabaseLeaks
<1>1. IInv => NoDatabaseLeaks
  BY DEF IInv, Kept
<1> QED
  BY <1>1, IInvInit, IInvInductive, PTL DEF Spec

\* closeDatabase leaves a connection open only under a statement that nobody
\* finalized, whatever queries came and went before.
THEOREM LeaksStayBusy == Spec => []LeaksAreBusy
<1>1. IInv => LeaksAreBusy
  BY DEF IInv, Kept
<1> QED
  BY <1>1, IInvInit, IInvInductive, PTL DEF Spec

\* A query that Java has not closed has a statement of its own on an open
\* connection, even when closeDatabase was called for its database.
THEOREM QueriesStayLive == Spec => []QueriesAreLive
<1>1. IInv => QueriesAreLive
  BY DEF IInv, Kept
<1> QED
  BY <1>1, IInvInit, IInvInductive, PTL DEF Spec

-----------------------------------------------------------------------------
(* Addresses. *)

\* An address belongs to one Java object.
OneHandle ==
  /\ HandlesAreLive
  /\ \A i, j \in Caller : nativePtr[i] # None /\ nativePtr[i] = nativePtr[j] => i = j

LEMMA OneHandleStep ==
  ASSUME ~Sharing
  PROVE  IInv /\ OneHandle /\ [Next]_vars => OneHandle'
<1> SUFFICES ASSUME IInv, OneHandle, [Next]_vars
             PROVE  OneHandle'
  OBVIOUS
<1> USE DEF IInv, OneHandle, HandlesAreLive
<1>1. CASE UNCHANGED <<dbPtrs, nativePtr>>
  BY <1>1 DEF Alive
<1>2. ASSUME NEW j \in Caller, NEW o \in Object, ~Alive(o), nativePtr[j] = None, Push(j, o)
      PROVE  OneHandle'
  <2>1. \A i \in Caller : nativePtr[i] # o
    BY <1>2, NoneAssumption
  <2>2. nativePtr'[j] = o /\ Alive(o)'
    BY <1>2, PushType
  <2>3. \A i \in Caller \ {j} : /\ nativePtr'[i] = nativePtr[i] /\ nativePtr'[i] # o
                                /\ nativePtr[i] # None => Alive(nativePtr[i])
    BY <1>2, <2>1, PushType
  <2>4. dbPtrs'[o] > 0 /\ \A p \in Object : Alive(p) => dbPtrs'[p] > 0
    BY <1>2 DEF Push, BridgeTypeOK, Alive
  <2>5. ASSUME NEW i \in Caller, nativePtr'[i] # None
        PROVE  dbPtrs'[nativePtr'[i]] > 0
    <3>1. CASE i = j
      BY <2>2, <2>4, <3>1
    <3>2. CASE i # j
      <4>1. nativePtr[i] \in Object /\ Alive(nativePtr[i])
        BY <2>3, <2>5, <3>2 DEF BridgeTypeOK
      <4> QED
        BY <2>3, <2>4, <3>2, <4>1
    <3> QED
      BY <3>1, <3>2
  <2>6. \A i, h \in Caller : nativePtr'[i] # None /\ nativePtr'[i] = nativePtr'[h] => i = h
    BY <2>2, <2>3
  <2> QED
    BY <2>5, <2>6 DEF Alive
<1>3. ASSUME NEW j \in Caller, CloseDatabase(j)
      PROVE  OneHandle'
  <2>1. PICK o \in Object : nativePtr[j] = o
    BY <1>3 DEF CloseDatabase, BridgeTypeOK
  <2>2. /\ dbPtrs' = [dbPtrs EXCEPT ![o] = 0]
        /\ nativePtr' = [nativePtr EXCEPT ![j] = None]
    BY <1>3, <2>1 DEF CloseDatabase, Erase
  <2>3. nativePtr'[j] = None /\ \A i \in Caller \ {j} : nativePtr'[i] = nativePtr[i]
    BY <2>2 DEF BridgeTypeOK
  <2>4. \A i \in Caller \ {j} : nativePtr[i] # o
    BY <2>1, NoneAssumption
  <2>5. \A p \in Object \ {o} : Alive(p) => dbPtrs'[p] > 0
    BY <2>2 DEF BridgeTypeOK, Alive
  <2>6. ASSUME NEW i \in Caller, nativePtr'[i] # None
        PROVE  dbPtrs'[nativePtr'[i]] > 0
    <3>1. i # j /\ nativePtr'[i] = nativePtr[i]
      BY <2>3, <2>6
    <3>2. nativePtr[i] \in Object \ {o} /\ Alive(nativePtr[i])
      BY <2>4, <2>6, <3>1 DEF BridgeTypeOK
    <3> QED
      BY <2>5, <3>1, <3>2
  <2>7. \A i, h \in Caller : nativePtr'[i] # None /\ nativePtr'[i] = nativePtr'[h] => i = h
    BY <2>3
  <2> QED
    BY <2>6, <2>7 DEF Alive
<1>4. CASE Killed
  BY <1>4 DEF Killed
<1>5. ASSUME NEW j \in Caller, HandleStep(j)
      PROVE  OneHandle'
  <2>1. CASE OpenNew(j) \/ OpenInMemory(j)
    BY <1>2, <2>1 DEF OpenNew, OpenInMemory
  <2> QED
    BY <1>3, <1>5, <2>1 DEF HandleStep, OpenShared
<1>6. ASSUME NEW j \in Caller, NEW c \in Conn, DatabaseStep(j, c)
      PROVE  UNCHANGED <<dbPtrs, nativePtr>>
  BY <1>6 DEF DatabaseStep, BeginTransaction, CommitTransaction,
     RollbackTransaction, Insert, Exec, bridgeVars
<1>7. ASSUME NEW j \in Caller, NEW c \in Conn, NEW q \in Query, QueryStep(j, c, q)
      PROVE  UNCHANGED <<dbPtrs, nativePtr>>
  BY <1>7 DEF QueryStep, NewQuery, MoveToFirst, MoveToFirstStep, MoveToNext,
     CloseQuery, bridgeVars
<1> QED
  BY <1>1, <1>4, <1>5, <1>6, <1>7 DEF Next, vars, bridgeVars

\* When no path is opened again before it is closed, every address that a Java
\* object has is that of a database that exists, addresses used again included.
THEOREM SoleHandlesAreLive ==
  ASSUME ~Sharing
  PROVE  Spec => []HandlesAreLive
<1>1. Init => OneHandle
  BY DEF Init, OneHandle, HandlesAreLive
<1>2. OneHandle => HandlesAreLive
  BY DEF OneHandle
<1> QED
  BY <1>1, <1>2, IInvInit, IInvInductive, OneHandleStep, PTL DEF Spec

-----------------------------------------------------------------------------
(* Rows that wait for a commit. *)

\* No row that waits for a commit is in the file.
Waiting == \A c \in Conn : pending[c] \cap disk = {}

\* What c does brings no row into the file that another connection wrote, and
\* none that c still calls uncommitted.
Apart(c) ==
  /\ \A d \in Conn \ {c} : pending'[d] = pending[d] /\ pending[d] \cap disk' = {}
  /\ pending'[c] \cap disk' = {}

\* A transaction ends, its rows committed or not.
LEMMA EndApart ==
  ASSUME EngineInv, Waiting, NEW c \in Conn, NEW l, NEW rows,
         EndTransaction(c, l, rows),
         \A r \in rows \ pending[c] : Fresh(r)
  PROVE  Apart(c)
<1>1. disk' = disk \cup rows /\ pending' = [pending EXCEPT ![c] = {}]
  BY DEF EndTransaction
<1>2. pending \in [Conn -> SUBSET Row]
  BY DEF EngineInv, EngineTypeOK
<1>3. ASSUME NEW d \in Conn \ {c}
      PROVE  pending[d] \cap disk' = {}
  <2>1. pending[c] # {} => pending[d] = {}
    BY DEF EngineInv, LockInv, OneWriter, WorkIsLocked, EngineTypeOK, NO_LOCK,
       RESERVED_LOCK, PENDING_LOCK
  <2>2. \A r \in rows : r \in pending[d] => r \in pending[c]
    BY DEF Fresh
  <2> QED
    BY <1>1, <2>1, <2>2 DEF Waiting
<1> QED
  BY <1>1, <1>2, <1>3 DEF Apart

\* The file stays as it is, with at most a new row written and not committed.
LEMMA SameFileApart ==
  ASSUME EngineInv, Waiting, NEW c \in Conn, disk' = disk,
         \/ pending' = pending
         \/ \E r \in Row : Fresh(r) /\ pending' = [pending EXCEPT ![c] = @ \cup {r}]
  PROVE  Apart(c)
<1>1. CASE pending' = pending
  BY <1>1 DEF Apart, Waiting
<1>2. ASSUME NEW r \in Row, Fresh(r), pending' = [pending EXCEPT ![c] = @ \cup {r}]
      PROVE  Apart(c)
  <2>1. pending'[c] = pending[c] \cup {r} /\ \A d \in Conn \ {c} : pending'[d] = pending[d]
    BY <1>2 DEF EngineInv, EngineTypeOK
  <2> QED
    BY <1>2, <2>1 DEF Apart, Waiting, Fresh
<1> QED
  BY <1>1, <1>2

LEMMA SqlApart ==
  ASSUME EngineInv, Waiting, NEW c \in Conn,
         ExecBegin(c) \/ ExecCommit(c) \/ ExecRollback(c)
  PROVE  Apart(c)
<1>1. ASSUME NEW l, EndTransaction(c, l, {}) \/ EndTransaction(c, l, pending[c])
      PROVE  Apart(c)
  BY <1>1, EndApart
<1>2. ASSUME UNCHANGED <<disk, pending>>
      PROVE  Apart(c)
  BY <1>2, SameFileApart
<1> QED
  BY <1>1, <1>2 DEF ExecBegin, ExecCommit, ExecRollback, EndFails, engineVars

LEMMA WriteApart ==
  ASSUME EngineInv, Waiting, NEW c \in Conn, WriteStep(c)
  PROVE  Apart(c)
<1>1. CASE WriteDone(c)
  <2>1. PICK r \in Row : Fresh(r) /\ (WriteCommitted(c, r) \/ WriteBuffered(c, r))
    BY <1>1 DEF WriteDone
  <2>2. CASE WriteCommitted(c, r)
    <3>1. EndTransaction(c, RESERVED_LOCK, pending[c] \cup {r})
      BY <2>2 DEF WriteCommitted
    <3> QED
      BY <2>1, <3>1, EndApart
  <2>3. CASE WriteBuffered(c, r)
    BY <2>1, <2>3, SameFileApart DEF WriteBuffered
  <2> QED
    BY <2>1, <2>2, <2>3
<1>2. CASE WriteFails(c) \/ WriteBlocked(c)
  <2>1. EndTransaction(c, RESERVED_LOCK, {}) \/ UNCHANGED <<disk, pending>>
    BY <1>2 DEF WriteFails, WriteRefused, WriteAborted, WriteRolledBack, WriteBlocked
  <2> QED
    BY <2>1, EndApart, SameFileApart
<1> QED
  BY <1>1, <1>2 DEF WriteStep

\* A database's calls write through its own connection.
LEMMA DatabaseStepApart ==
  ASSUME IInv, Waiting, NEW j \in Caller, NEW c \in Conn, DatabaseStep(j, c)
  PROVE  /\ Apart(c)
         /\ \E o \in Object : dbPtrs'[o] > 0 /\ db'[o] = c
<1>1. Apart(c)
  BY SqlApart, WriteApart DEF IInv, DatabaseStep, BeginTransaction, CommitTransaction,
     RollbackTransaction, Insert, Exec, WriteStep
<1>2. UNCHANGED <<dbPtrs, db>> /\ Calls(j, c)
  BY DEF DatabaseStep, BeginTransaction, CommitTransaction, RollbackTransaction,
     Insert, Exec, bridgeVars
<1> QED
  BY <1>1, <1>2, CallIsOpen DEF Calls, Alive

\* Queries, and opening and closing, commit nothing.
LEMMA OtherStepsApart ==
  ASSUME IInv, Waiting, [Next]_vars,
         ~ \E j \in Caller, c \in Conn : DatabaseStep(j, c)
  PROVE  disk' = disk /\ \A c \in Conn : pending'[c] \subseteq pending[c]
<1>1. ASSUME NEW j \in Caller, NEW c \in Conn, NEW q \in Query, QueryStep(j, c, q)
      PROVE  UNCHANGED <<disk, pending>>
  BY <1>1 DEF QueryStep, NewQuery, PrepareQuery, MoveToFirst, ResetQuery, HaltQuery,
     MoveToFirstStep, MoveToNext, StepQuery, CloseQuery, engineVars
<1>2. ASSUME NEW c \in Conn, Open(c) \/ Close(c)
      PROVE  disk' = disk /\ \A d \in Conn : pending'[d] \subseteq pending[d]
  BY <1>2 DEF Open, Close, engineVars, IInv, EngineInv, EngineTypeOK
<1>3. ASSUME NEW j \in Caller, HandleStep(j)
      PROVE  disk' = disk /\ \A d \in Conn : pending'[d] \subseteq pending[d]
  <2>1. CASE CloseDatabase(j)
    <3>1. PICK o \in Object : nativePtr[j] = o
      BY <2>1 DEF CloseDatabase, IInv, BridgeTypeOK
    <3>2. (db[o] # None /\ Close(db[o])) \/ UNCHANGED engineVars
      BY <2>1, <3>1 DEF CloseDatabase
    <3>3. db[o] # None => db[o] \in Conn
      BY DEF IInv, BridgeTypeOK
    <3> QED
      BY <1>2, <3>2, <3>3 DEF engineVars
  <2> QED
    BY <1>2, <1>3, <2>1 DEF HandleStep, OpenShared, OpenNew, OpenInMemory, engineVars
<1>4. CASE Killed
  BY <1>4 DEF Killed, EngineCrash
<1>5. CASE UNCHANGED vars
  BY <1>5 DEF vars, engineVars
<1> QED
  BY <1>1, <1>3, <1>4, <1>5 DEF Next

LEMMA WaitingStep ==
  ASSUME IInv, Waiting, [Next]_vars
  PROVE  /\ Waiting'
         /\ \A c \in Conn :
              (\A o \in Object : dbPtrs'[o] = 0 \/ db'[o] # c) => pending[c] \cap disk' = {}
<1>1. ASSUME NEW j \in Caller, NEW c \in Conn, DatabaseStep(j, c)
      PROVE  /\ Waiting'
             /\ \A d \in Conn :
                  (\A o \in Object : dbPtrs'[o] = 0 \/ db'[o] # d) => pending[d] \cap disk' = {}
  BY <1>1, DatabaseStepApart DEF Apart, Waiting
<1>2. CASE ~ \E j \in Caller, c \in Conn : DatabaseStep(j, c)
  BY <1>2, OtherStepsApart DEF Waiting
<1> QED
  BY <1>1, <1>2

\* For any callers, addresses and connections: when a database is closed, what it
\* had not committed is not in the file and never comes there, although the
\* connection may stay open, in its transaction, under a statement.
THEOREM ClosedStaysUndone == Spec => ClosedIsUndone
<1>1. Init => Waiting
  BY DEF Init, EngineInit, Waiting
<1>2. IInv /\ Waiting /\ [Next]_vars =>
        /\ Waiting'
        /\ [\A c \in Conn : (\A o \in Object : dbPtrs'[o] = 0 \/ db'[o] # c) =>
              pending[c] \cap disk' = {}]_vars
  BY WaitingStep
<1> QED
  BY <1>1, <1>2, IInvInit, IInvInductive, PTL DEF Spec, ClosedIsUndone
=============================================================================
