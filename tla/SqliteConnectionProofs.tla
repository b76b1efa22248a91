----------------------- MODULE SqliteConnectionProofs -----------------------
(***************************************************************************)
(* Every engine call keeps the types and LockInv, and a call that changes  *)
(* the file has every other connection off it.                             *)
(***************************************************************************)
EXTENDS SqliteConnection, TLAPS

EngineInv == EngineTypeOK /\ LockInv

\* What a call on c may do to the locks: it touches those of c alone, takes
\* RESERVED only where nobody else has it, and leaves c consistent.
Local(c) ==
  /\ \A d \in Conn \ {c} :
       /\ open'[d] = open[d] /\ autoCommit'[d] = autoCommit[d]
       /\ lock'[d] = lock[d] /\ pending'[d] = pending[d]
       /\ stuck'[d] = stuck[d] /\ unfinalized'[d] = unfinalized[d]
       /\ phase'[d] = phase[d]
  /\ lock'[c] >= RESERVED_LOCK =>
       lock[c] >= RESERVED_LOCK \/ ~OtherHolds(c, RESERVED_LOCK)
  /\ pending'[c] # {} => lock'[c] >= RESERVED_LOCK
  /\ \A q \in Query : phase'[c][q] = "running" => lock'[c] >= SHARED_LOCK
  /\ autoCommit'[c] /\ ~stuck'[c] => lock'[c] < RESERVED_LOCK
  /\ ~open'[c] => /\ autoCommit'[c] /\ lock'[c] = NO_LOCK /\ ~unfinalized'[c]
                  /\ \A q \in Query : phase'[c][q] = "none"
  /\ stuck'[c] => unfinalized'[c]

LEMMA LocalInv ==
  ASSUME EngineInv, EngineTypeOK', NEW c \in Conn, Local(c)
  PROVE  EngineInv'
<1>0. \A d \in Conn : lock[d] \in 0 .. 3 /\ lock'[d] \in 0 .. 3
  <2>1. lock \in [Conn -> 0 .. 3]
    BY DEF EngineInv, EngineTypeOK, NO_LOCK, PENDING_LOCK
  <2>2. lock' \in [Conn -> 0 .. 3]
    BY DEF EngineTypeOK, NO_LOCK, PENDING_LOCK
  <2> QED
    BY <2>1, <2>2
<1>1. OneWriter'
  <2> SUFFICES ASSUME NEW a \in Conn, NEW b \in Conn, a # b,
                      lock'[a] >= RESERVED_LOCK
               PROVE  lock'[b] < RESERVED_LOCK
    BY DEF OneWriter
  <2>1. lock[a] >= RESERVED_LOCK => lock[b] < RESERVED_LOCK
    BY DEF EngineInv, LockInv, OneWriter
  <2>2. CASE a = c
    <3>1. lock'[b] = lock[b]
      BY <2>2 DEF Local
    <3>2. lock[a] >= RESERVED_LOCK \/ ~(lock[b] >= RESERVED_LOCK)
      BY <2>2 DEF Local, OtherHolds
    <3> QED
      BY <1>0, <2>1, <3>1, <3>2 DEF RESERVED_LOCK
  <2>3. CASE a # c
    <3>1. lock'[a] = lock[a] /\ lock[b] < RESERVED_LOCK
      BY <2>1, <2>3 DEF Local
    <3>2. CASE b # c
      BY <3>1, <3>2 DEF Local
    <3>3. CASE b = c
      <4>1. OtherHolds(c, RESERVED_LOCK)
        BY <2>3, <3>1 DEF OtherHolds
      <4> QED
        BY <1>0, <3>1, <3>3, <4>1 DEF Local, RESERVED_LOCK
    <3> QED
      BY <3>2, <3>3
  <2> QED
    BY <2>2, <2>3
<1>2. WorkIsLocked' /\ AutoCommitIsSettled' /\ StuckIsUnfinalized'
  BY DEF EngineInv, EngineTypeOK, LockInv, WorkIsLocked, AutoCommitIsSettled,
         StuckIsUnfinalized, Local
<1>3. ReadersHoldShared'
  <2> SUFFICES ASSUME NEW d \in Conn, NEW q \in Query, phase'[d][q] = "running"
               PROVE  lock'[d] >= SHARED_LOCK
    BY DEF ReadersHoldShared
  <2>1. CASE d = c
    BY <2>1 DEF Local
  <2>2. CASE d # c
    BY <2>2 DEF EngineInv, LockInv, ReadersHoldShared, Local
  <2> QED
    BY <2>1, <2>2
<1>4. ClosedIsFree'
  BY DEF EngineInv, EngineTypeOK, LockInv, ClosedIsFree, IsBusy, Local
<1> QED
  BY <1>1, <1>2, <1>3, <1>4 DEF EngineInv, LockInv

-----------------------------------------------------------------------------
(* The locks a call computes. *)

LEMMA LockAfterEndType ==
  ASSUME NEW c, NEW l, NEW f
  PROVE  LockAfterEnd(c, l, f) \in {NO_LOCK, SHARED_LOCK}
BY DEF LockAfterEnd

LEMMA LockAfterEndHolds ==
  ASSUME NEW c, NEW l, l # NO_LOCK, NEW f, NEW q \in Query, f[q] = "running"
  PROVE  LockAfterEnd(c, l, f) = SHARED_LOCK
<1>1. q \in Active(f)
  BY DEF Active
<1> QED
  BY <1>1 DEF LockAfterEnd

\* The types and the parts of the invariant, for one connection.
LEMMA AtConnection ==
  ASSUME EngineInv, NEW c \in Conn
  PROVE  /\ lock[c] \in 0 .. 3
         /\ pending[c] \subseteq Row
         /\ pending[c] # {} => lock[c] >= RESERVED_LOCK
         /\ \A q \in Query : phase[c][q] = "running" => lock[c] >= SHARED_LOCK
         /\ autoCommit[c] /\ ~stuck[c] => lock[c] < RESERVED_LOCK
         /\ ~open[c] => /\ autoCommit[c] /\ lock[c] = NO_LOCK /\ ~unfinalized[c]
                        /\ \A q \in Query : phase[c][q] = "none"
         /\ stuck[c] => unfinalized[c]
<1>1. lock[c] \in 0 .. 3
  BY DEF EngineInv, EngineTypeOK, NO_LOCK, PENDING_LOCK
<1>2. pending[c] \subseteq Row
  BY DEF EngineInv, EngineTypeOK
<1>3. pending[c] # {} => lock[c] >= RESERVED_LOCK
  BY DEF EngineInv, LockInv, WorkIsLocked
<1>4. \A q \in Query : phase[c][q] = "running" => lock[c] >= SHARED_LOCK
  BY DEF EngineInv, LockInv, ReadersHoldShared
<1>5. autoCommit[c] /\ ~stuck[c] => lock[c] < RESERVED_LOCK
  BY DEF EngineInv, LockInv, AutoCommitIsSettled
<1>6. ~open[c] => /\ autoCommit[c] /\ lock[c] = NO_LOCK /\ ~unfinalized[c]
                  /\ \A q \in Query : phase[c][q] = "none"
  BY DEF EngineInv, LockInv, ClosedIsFree, IsBusy
<1>7. stuck[c] => unfinalized[c]
  BY DEF EngineInv, LockInv, StuckIsUnfinalized
<1> QED
  BY <1>1, <1>2, <1>3, <1>4, <1>5, <1>6, <1>7

-----------------------------------------------------------------------------
(* BEGIN, ROLLBACK and COMMIT. *)

\* Ending a transaction leaves c with at most SHARED and nothing to commit.
LEMMA EndTransactionInv ==
  ASSUME EngineInv, NEW c \in Conn, open[c],
         NEW l, l = NO_LOCK => lock[c] = NO_LOCK, NEW rows \in SUBSET Row,
         EndTransaction(c, l, rows),
         autoCommit' \in {autoCommit, [autoCommit EXCEPT ![c] = TRUE]},
         UNCHANGED <<open, stuck, phase>>,
         unfinalized' \in {unfinalized, [unfinalized EXCEPT ![c] = TRUE]}
  PROVE  EngineInv'
<1>1. /\ lock' = [lock EXCEPT ![c] = LockAfterEnd(c, l, phase[c])]
      /\ pending' = [pending EXCEPT ![c] = {}]
      /\ disk' = disk \cup rows
  BY DEF EndTransaction
<1>2. LockAfterEnd(c, l, phase[c]) \in {NO_LOCK, SHARED_LOCK}
  BY LockAfterEndType
<1>3. EngineTypeOK'
  <2>1. LockAfterEnd(c, l, phase[c]) \in NO_LOCK .. PENDING_LOCK
    BY <1>2 DEF NO_LOCK, SHARED_LOCK, PENDING_LOCK
  <2>2. lock' \in [Conn -> NO_LOCK .. PENDING_LOCK]
    BY <1>1, <2>1 DEF EngineInv, EngineTypeOK
  <2>3. pending' \in [Conn -> SUBSET Row] /\ disk' \subseteq Row
    BY <1>1 DEF EngineInv, EngineTypeOK
  <2>4. unfinalized' \in [Conn -> BOOLEAN] /\ autoCommit' \in [Conn -> BOOLEAN]
    BY DEF EngineInv, EngineTypeOK
  <2> QED
    BY <2>2, <2>3, <2>4 DEF EngineInv, EngineTypeOK
<1>4. lock'[c] = LockAfterEnd(c, l, phase[c]) /\ pending'[c] = {}
  BY <1>1 DEF EngineInv, EngineTypeOK
<1>5. \A q \in Query : phase'[c][q] = "running" => lock'[c] >= SHARED_LOCK
  <2> SUFFICES ASSUME NEW q \in Query, phase[c][q] = "running"
               PROVE  lock'[c] >= SHARED_LOCK
    OBVIOUS
  <2>1. l # NO_LOCK
    BY AtConnection DEF NO_LOCK, SHARED_LOCK
  <2>2. lock'[c] = SHARED_LOCK
    BY <1>4, <2>1, LockAfterEndHolds
  <2> QED
    BY <2>2 DEF SHARED_LOCK
<1>6. lock'[c] < RESERVED_LOCK
  BY <1>2, <1>4 DEF NO_LOCK, SHARED_LOCK, RESERVED_LOCK
<1>7. Local(c)
  <2>1. \A d \in Conn \ {c} :
          /\ open'[d] = open[d] /\ autoCommit'[d] = autoCommit[d]
          /\ lock'[d] = lock[d] /\ pending'[d] = pending[d]
          /\ stuck'[d] = stuck[d] /\ unfinalized'[d] = unfinalized[d]
          /\ phase'[d] = phase[d]
    BY <1>1 DEF EngineInv, EngineTypeOK
  <2>2. stuck'[c] => unfinalized'[c]
    BY AtConnection DEF EngineInv, EngineTypeOK
  <2>3. ~(lock'[c] >= RESERVED_LOCK)
    BY <1>2, <1>4 DEF NO_LOCK, SHARED_LOCK, RESERVED_LOCK
  <2> QED
    BY <1>4, <1>5, <1>6, <2>1, <2>2, <2>3 DEF Local
<1> QED
  BY <1>3, <1>7, LocalInv

\* Raising the lock of c to m, for more work or for a query on a row.
LEMMA RaiseLockInv ==
  ASSUME EngineInv, NEW c \in Conn, open[c],
         NEW m \in 0 .. 3, m >= lock[c],
         m >= RESERVED_LOCK =>
           lock[c] >= RESERVED_LOCK \/ ~OtherHolds(c, RESERVED_LOCK),
         autoCommit[c] /\ ~stuck[c] => m < RESERVED_LOCK,
         lock' = [lock EXCEPT ![c] = m],
         NEW rows \in SUBSET Row, rows # {} => m >= RESERVED_LOCK,
         pending' = [pending EXCEPT ![c] = @ \cup rows],
         NEW f \in [Query -> Phase],
         \A q \in Query : f[q] = "running" => m >= SHARED_LOCK,
         phase' = [phase EXCEPT ![c] = f],
         unfinalized' \in {unfinalized, [unfinalized EXCEPT ![c] = TRUE]},
         UNCHANGED <<disk, open, autoCommit, stuck>>
  PROVE  EngineInv'
<1>1. EngineTypeOK'
  <2>1. lock' \in [Conn -> NO_LOCK .. PENDING_LOCK]
    BY DEF EngineInv, EngineTypeOK, NO_LOCK, PENDING_LOCK
  <2>2. pending' \in [Conn -> SUBSET Row] /\ unfinalized' \in [Conn -> BOOLEAN]
    BY DEF EngineInv, EngineTypeOK
  <2>3. phase' \in [Conn -> [Query -> Phase]]
    BY DEF EngineInv, EngineTypeOK
  <2> QED
    BY <2>1, <2>2, <2>3 DEF EngineInv, EngineTypeOK
<1>2. lock'[c] = m /\ pending'[c] = pending[c] \cup rows /\ phase'[c] = f
  BY DEF EngineInv, EngineTypeOK
<1>3. Local(c)
  <2>1. \A d \in Conn \ {c} :
          /\ open'[d] = open[d] /\ autoCommit'[d] = autoCommit[d]
          /\ lock'[d] = lock[d] /\ pending'[d] = pending[d]
          /\ stuck'[d] = stuck[d] /\ unfinalized'[d] = unfinalized[d]
          /\ phase'[d] = phase[d]
    BY DEF EngineInv, EngineTypeOK
  <2>2. stuck'[c] => unfinalized'[c]
    BY AtConnection DEF EngineInv, EngineTypeOK
  <2>3. pending'[c] # {} => lock'[c] >= RESERVED_LOCK
    BY <1>2, AtConnection DEF RESERVED_LOCK
  <2> QED
    BY <1>2, <2>1, <2>2, <2>3 DEF Local
<1> QED
  BY <1>1, <1>3, LocalInv

LEMMA ExecBeginInv ==
  ASSUME EngineInv, NEW c \in Conn, open[c], ExecBegin(c)
  PROVE  EngineInv'
<1>1. EngineTypeOK'
  BY DEF EngineInv, EngineTypeOK, ExecBegin
<1>2. Local(c)
  BY AtConnection DEF EngineInv, EngineTypeOK, ExecBegin, Local
<1> QED
  BY <1>1, <1>2, LocalInv

\* Nothing of the engine changes.
LEMMA EngineStutter ==
  ASSUME EngineInv, UNCHANGED engineVars
  PROVE  EngineInv'
BY DEF engineVars, EngineInv, EngineTypeOK, LockInv, OneWriter, WorkIsLocked,
       ReadersHoldShared, AutoCommitIsSettled, ClosedIsFree, IsBusy,
       StuckIsUnfinalized

LEMMA ExecRollbackInv ==
  ASSUME EngineInv, NEW c \in Conn, open[c], ExecRollback(c)
  PROVE  EngineInv'
<1>1. CASE autoCommit[c] /\ EndFails(c)
  BY <1>1, EngineStutter DEF EndFails
<1>2. CASE /\ EndTransaction(c, lock[c], {})
           /\ autoCommit' = [autoCommit EXCEPT ![c] = TRUE]
           /\ UNCHANGED <<open, stuck, unfinalized, phase>>
  <2>1. {} \in SUBSET Row
    OBVIOUS
  <2> QED
    BY <1>2, <2>1, EndTransactionInv
<1> QED
  BY <1>1, <1>2 DEF ExecRollback

LEMMA ExecCommitInv ==
  ASSUME EngineInv, NEW c \in Conn, open[c], ExecCommit(c)
  PROVE  EngineInv'
<1>1. CASE EndFails(c)
  BY <1>1, EngineStutter DEF EndFails
<1>2. CASE /\ ~autoCommit[c] /\ ~stuck[c]
           /\ lock[c] >= RESERVED_LOCK /\ ~CanExclude(c)
           /\ lock' = [lock EXCEPT ![c] = PENDING_LOCK]
           /\ UNCHANGED <<disk, open, autoCommit, pending, stuck, unfinalized, phase>>
  <2>1. pending' = [pending EXCEPT ![c] = @ \cup {}]
    BY <1>2 DEF EngineInv, EngineTypeOK
  <2>2. phase' = [phase EXCEPT ![c] = phase[c]] /\ phase[c] \in [Query -> Phase]
    BY <1>2 DEF EngineInv, EngineTypeOK
  <2>3. PENDING_LOCK \in 0 .. 3 /\ PENDING_LOCK >= lock[c] /\ PENDING_LOCK >= SHARED_LOCK
    BY AtConnection DEF PENDING_LOCK, SHARED_LOCK
  <2>4. {} \in SUBSET Row
    OBVIOUS
  <2> QED
    BY <1>2, <2>1, <2>2, <2>3, <2>4, RaiseLockInv
<1>3. CASE /\ EndTransaction(c, lock[c], pending[c])
           /\ autoCommit' = [autoCommit EXCEPT ![c] = TRUE]
           /\ UNCHANGED <<open, stuck, unfinalized, phase>>
  BY <1>3, EndTransactionInv, AtConnection
<1> QED
  BY <1>1, <1>2, <1>3 DEF ExecCommit

-----------------------------------------------------------------------------
(* INSERT. *)

LEMMA WriteInv ==
  ASSUME EngineInv, NEW c \in Conn, open[c], NEW r,
         \/ r \in Row /\ (WriteCommitted(c, r) \/ WriteBuffered(c, r))
         \/ WriteBlocked(c) \/ WriteRefused(c) \/ WriteAborted(c) \/ WriteRolledBack(c),
         UNCHANGED <<open, stuck, phase>>,
         unfinalized' \in {unfinalized, [unfinalized EXCEPT ![c] = TRUE]}
  PROVE  EngineInv'
<1>1. ASSUME NEW rows \in SUBSET Row, EndTransaction(c, RESERVED_LOCK, rows),
             autoCommit' \in {autoCommit, [autoCommit EXCEPT ![c] = TRUE]}
      PROVE  EngineInv'
  BY <1>1, EndTransactionInv DEF RESERVED_LOCK, NO_LOCK
<1>2. ASSUME NEW rows \in SUBSET Row, CanWrite(c), ~HaltEnds(c),
             pending' = [pending EXCEPT ![c] = @ \cup rows],
             lock' = [lock EXCEPT ![c] = AtLeast(@, RESERVED_LOCK)],
             UNCHANGED <<disk, autoCommit>>
      PROVE  EngineInv'
  <2> DEFINE m == AtLeast(lock[c], RESERVED_LOCK)
  <2>1. m \in 0 .. 3 /\ m >= lock[c] /\ m >= RESERVED_LOCK /\ m >= SHARED_LOCK
    BY AtConnection DEF AtLeast, RESERVED_LOCK, SHARED_LOCK
  <2>2. lock' = [lock EXCEPT ![c] = m]
    BY <1>2 DEF EngineInv, EngineTypeOK
  <2>3. lock[c] >= RESERVED_LOCK \/ ~OtherHolds(c, RESERVED_LOCK)
    BY <1>2 DEF CanWrite
  <2>4. phase' = [phase EXCEPT ![c] = phase[c]] /\ phase[c] \in [Query -> Phase]
    BY DEF EngineInv, EngineTypeOK
  <2> HIDE DEF m
  <2> QED
    BY <1>2, <2>1, <2>2, <2>3, <2>4, RaiseLockInv DEF HaltEnds
<1>3. CASE r \in Row /\ WriteCommitted(c, r)
  BY <1>1, <1>3, AtConnection DEF WriteCommitted
<1>4. CASE r \in Row /\ WriteBuffered(c, r)
  <2>1. {r} \in SUBSET Row
    BY <1>4
  <2> QED
    BY <1>2, <1>4, <2>1 DEF WriteBuffered
<1>5. CASE WriteBlocked(c)
  <2>1. CASE unfinalized' = unfinalized
    BY <1>5, <2>1, EngineStutter DEF WriteBlocked, engineVars
  <2>2. CASE unfinalized' = [unfinalized EXCEPT ![c] = TRUE]
    <3>1. EngineTypeOK'
      BY <1>5, <2>2 DEF EngineInv, EngineTypeOK, WriteBlocked
    <3>2. Local(c)
      BY <1>5, <2>2, AtConnection DEF EngineInv, EngineTypeOK, WriteBlocked, Local
    <3> QED
      BY <3>1, <3>2, LocalInv
  <2> QED
    BY <2>1, <2>2
<1>6. CASE WriteRefused(c)
  BY <1>1, <1>6 DEF WriteRefused
<1>7. CASE WriteAborted(c)
  <2>1. CASE EndTransaction(c, RESERVED_LOCK, {})
    BY <1>1, <1>7, <2>1 DEF WriteAborted
  <2>2. CASE /\ ~HaltEnds(c)
             /\ lock' = [lock EXCEPT ![c] = AtLeast(@, RESERVED_LOCK)]
             /\ UNCHANGED <<disk, pending>>
    <3>1. pending' = [pending EXCEPT ![c] = @ \cup {}]
      BY <2>2 DEF EngineInv, EngineTypeOK
    <3>2. {} \in SUBSET Row
      OBVIOUS
    <3> QED
      BY <1>2, <1>7, <2>2, <3>1, <3>2 DEF WriteAborted
  <2> QED
    BY <1>7, <2>1, <2>2 DEF WriteAborted
<1>8. CASE WriteRolledBack(c)
  BY <1>1, <1>8 DEF WriteRolledBack
<1> QED
  BY <1>3, <1>4, <1>5, <1>6, <1>7, <1>8

\* An insert abandoned at SQLITE_BUSY.
LEMMA AbandonInv ==
  ASSUME EngineInv, NEW c \in Conn, open[c], WriteBlocked(c),
         stuck' = [stuck EXCEPT ![c] = TRUE],
         unfinalized' = [unfinalized EXCEPT ![c] = TRUE],
         UNCHANGED <<open, phase>>
  PROVE  EngineInv'
<1>1. EngineTypeOK'
  BY DEF EngineInv, EngineTypeOK, WriteBlocked
<1>2. Local(c)
  BY AtConnection DEF EngineInv, EngineTypeOK, WriteBlocked, Local
<1> QED
  BY <1>1, <1>2, LocalInv

-----------------------------------------------------------------------------
(* SELECT. *)

LEMMA PrepareQueryInv ==
  ASSUME EngineInv, NEW c \in Conn, NEW q \in Query, PrepareQuery(c, q)
  PROVE  EngineInv'
<1>1. EngineTypeOK'
  BY DEF EngineInv, EngineTypeOK, PrepareQuery, Phase
<1>2. Local(c)
  BY AtConnection DEF EngineInv, EngineTypeOK, PrepareQuery, Local
<1> QED
  BY <1>1, <1>2, LocalInv

\* A query that halts, resets or goes leaves the lock to the others.
LEMMA HaltQueryInv ==
  ASSUME EngineInv, NEW c \in Conn, open[c], NEW q \in Query,
         NEW p \in Phase \ {"running"},
         NEW l \in {lock[c], AtLeast(lock[c], SHARED_LOCK)},
         HaltQuery(c, q, p, l)
  PROVE  EngineInv'
<1> DEFINE f == [phase[c] EXCEPT ![q] = p]
           m == IF HaltEnds(c) THEN LockAfterEnd(c, l, f) ELSE l
<1>1. /\ phase' = [phase EXCEPT ![c] = f] /\ lock' = [lock EXCEPT ![c] = m]
      /\ UNCHANGED <<disk, open, autoCommit, pending, stuck, unfinalized>>
  BY DEF HaltQuery
<1>2. /\ l \in 0 .. 3 /\ l >= lock[c]
      /\ l >= RESERVED_LOCK <=> lock[c] >= RESERVED_LOCK
  BY AtConnection DEF AtLeast, SHARED_LOCK, RESERVED_LOCK
<1>3. LockAfterEnd(c, l, f) \in {NO_LOCK, SHARED_LOCK}
  BY LockAfterEndType
<1>4. f \in [Query -> Phase] /\ \A s \in Query : f[s] = "running" => phase[c][s] = "running"
  BY DEF EngineInv, EngineTypeOK
<1>5. m \in 0 .. 3
  BY <1>2, <1>3 DEF NO_LOCK, SHARED_LOCK
<1>6. \A s \in Query : f[s] = "running" => m >= SHARED_LOCK
  <2> SUFFICES ASSUME NEW s \in Query, f[s] = "running"
               PROVE  m >= SHARED_LOCK
    OBVIOUS
  <2>1. l >= SHARED_LOCK
    BY <1>2, <1>4, AtConnection DEF SHARED_LOCK
  <2>2. l # NO_LOCK
    BY <1>2, <2>1 DEF NO_LOCK, SHARED_LOCK
  <2>3. LockAfterEnd(c, l, f) = SHARED_LOCK
    <3> HIDE DEF f
    <3> QED
      BY <2>2, LockAfterEndHolds
  <2> QED
    BY <2>1, <2>3 DEF SHARED_LOCK
<1>7. /\ HaltEnds(c) => m < RESERVED_LOCK /\ pending[c] = {}
      /\ ~HaltEnds(c) => m = l
  BY <1>3, AtConnection DEF HaltEnds, NO_LOCK, SHARED_LOCK, RESERVED_LOCK
<1> HIDE DEF f, m
<1>8. EngineTypeOK'
  <2>1. lock' \in [Conn -> NO_LOCK .. PENDING_LOCK]
    BY <1>1, <1>5 DEF EngineInv, EngineTypeOK, NO_LOCK, PENDING_LOCK
  <2>2. phase' \in [Conn -> [Query -> Phase]]
    BY <1>1, <1>4 DEF EngineInv, EngineTypeOK
  <2> QED
    BY <1>1, <2>1, <2>2 DEF EngineInv, EngineTypeOK
<1>9. Local(c)
  <2>1. \A d \in Conn \ {c} :
          /\ open'[d] = open[d] /\ autoCommit'[d] = autoCommit[d]
          /\ lock'[d] = lock[d] /\ pending'[d] = pending[d]
          /\ stuck'[d] = stuck[d] /\ unfinalized'[d] = unfinalized[d]
          /\ phase'[d] = phase[d]
    BY <1>1 DEF EngineInv, EngineTypeOK
  <2>2. lock'[c] = m /\ phase'[c] = f /\ pending'[c] = pending[c]
    BY <1>1 DEF EngineInv, EngineTypeOK
  <2>3. lock'[c] >= RESERVED_LOCK => lock[c] >= RESERVED_LOCK
    BY <1>2, <1>5, <1>7, <2>2 DEF RESERVED_LOCK
  <2>4. pending'[c] # {} => lock'[c] >= RESERVED_LOCK
    BY <1>2, <1>7, <2>2, AtConnection
  <2>5. autoCommit'[c] /\ ~stuck'[c] => lock'[c] < RESERVED_LOCK
    BY <1>1, <1>7, <2>2 DEF HaltEnds
  <2>6. stuck'[c] => unfinalized'[c]
    BY <1>1, AtConnection
  <2> QED
    BY <1>1, <1>6, <2>1, <2>2, <2>3, <2>4, <2>5, <2>6 DEF Local
<1> QED
  BY <1>8, <1>9, LocalInv

LEMMA StepQueryInv ==
  ASSUME EngineInv, NEW c \in Conn, open[c], NEW q \in Query, StepQuery(c, q)
  PROVE  EngineInv'
<1>1. CASE /\ phase' = [phase EXCEPT ![c][q] = "running"]
           /\ lock' = [lock EXCEPT ![c] = AtLeast(@, SHARED_LOCK)]
           /\ UNCHANGED <<disk, open, autoCommit, pending, stuck, unfinalized>>
  <2> DEFINE m == AtLeast(lock[c], SHARED_LOCK)
             f == [phase[c] EXCEPT ![q] = "running"]
  <2>1. /\ m \in 0 .. 3 /\ m >= lock[c] /\ m >= SHARED_LOCK
        /\ m >= RESERVED_LOCK => lock[c] >= RESERVED_LOCK
        /\ autoCommit[c] /\ ~stuck[c] => m < RESERVED_LOCK
    BY AtConnection DEF AtLeast, RESERVED_LOCK, SHARED_LOCK
  <2>2. lock' = [lock EXCEPT ![c] = m] /\ pending' = [pending EXCEPT ![c] = @ \cup {}]
    BY <1>1 DEF EngineInv, EngineTypeOK
  <2>3. phase' = [phase EXCEPT ![c] = f] /\ f \in [Query -> Phase]
    BY <1>1 DEF EngineInv, EngineTypeOK, Phase
  <2>4. {} \in SUBSET Row
    OBVIOUS
  <2> HIDE DEF m, f
  <2> QED
    BY <1>1, <2>1, <2>2, <2>3, <2>4, RaiseLockInv
<1>2. CASE HaltQuery(c, q, "halted", AtLeast(lock[c], SHARED_LOCK))
  BY <1>2, HaltQueryInv DEF Phase
<1>3. CASE /\ phase' = [phase EXCEPT ![c][q] = "blocked"]
           /\ UNCHANGED <<disk, open, autoCommit, lock, pending, stuck, unfinalized>>
  <2>1. EngineTypeOK'
    BY <1>3 DEF EngineInv, EngineTypeOK, Phase
  <2>2. Local(c)
    BY <1>3, AtConnection DEF EngineInv, EngineTypeOK, Local
  <2> QED
    BY <2>1, <2>2, LocalInv
<1> QED
  BY <1>1, <1>2, <1>3 DEF StepQuery

\* A statement that is there is on an open connection.
LEMMA PreparedIsOpen ==
  ASSUME EngineInv, NEW c \in Conn, NEW q \in Query, phase[c][q] # "none"
  PROVE  open[c]
BY AtConnection

LEMMA ResetQueryInv ==
  ASSUME EngineInv, NEW c \in Conn, NEW q \in Query,
         NEW p \in {"rewound", "halted"}, ResetQuery(c, q, p)
  PROVE  EngineInv'
BY PreparedIsOpen, HaltQueryInv DEF ResetQuery, Phase

LEMMA FinalizeQueryInv ==
  ASSUME EngineInv, NEW c \in Conn, NEW q \in Query, FinalizeQuery(c, q)
  PROVE  EngineInv'
BY PreparedIsOpen, HaltQueryInv DEF FinalizeQuery, Phase

-----------------------------------------------------------------------------
(* Opening, closing and a crash. *)

LEMMA EngineInitInv == EngineInit => EngineInv
<1> SUFFICES ASSUME EngineInit PROVE EngineInv
  OBVIOUS
<1>1. EngineTypeOK
  BY DEF EngineInit, EngineTypeOK, NO_LOCK, PENDING_LOCK, Phase
<1>2. LockInv
  BY DEF EngineInit, LockInv, OneWriter, WorkIsLocked, ReadersHoldShared,
         AutoCommitIsSettled, ClosedIsFree, IsBusy, StuckIsUnfinalized,
         NO_LOCK, RESERVED_LOCK
<1> QED
  BY <1>1, <1>2 DEF EngineInv

LEMMA OpenInv ==
  ASSUME EngineInv, NEW c \in Conn, Open(c)
  PROVE  EngineInv'
<1>1. EngineTypeOK'
  BY DEF EngineInv, EngineTypeOK, Open
<1>2. Local(c)
  BY AtConnection DEF EngineInv, EngineTypeOK, Open, Local
<1> QED
  BY <1>1, <1>2, LocalInv

LEMMA CloseInv ==
  ASSUME EngineInv, NEW c \in Conn, Close(c)
  PROVE  EngineInv'
<1>1. CASE UNCHANGED engineVars
  BY <1>1, EngineStutter
<1>2. CASE /\ ~IsBusy(c)
           /\ open' = [open EXCEPT ![c] = FALSE]
           /\ autoCommit' = [autoCommit EXCEPT ![c] = TRUE]
           /\ lock' = [lock EXCEPT ![c] = NO_LOCK]
           /\ pending' = [pending EXCEPT ![c] = {}]
           /\ UNCHANGED <<disk, stuck, unfinalized, phase>>
  <2>1. EngineTypeOK'
    <3>1. lock' \in [Conn -> NO_LOCK .. PENDING_LOCK]
      BY <1>2 DEF EngineInv, EngineTypeOK, NO_LOCK, PENDING_LOCK
    <3> QED
      BY <1>2, <3>1 DEF EngineInv, EngineTypeOK
  <2>2. Local(c)
    BY <1>2, AtConnection DEF EngineInv, EngineTypeOK, IsBusy, Local,
         NO_LOCK, SHARED_LOCK, RESERVED_LOCK
  <2> QED
    BY <2>1, <2>2, LocalInv
<1> QED
  BY <1>1, <1>2 DEF Close

LEMMA EngineCrashInv ==
  ASSUME EngineInv, EngineCrash
  PROVE  EngineInv'
<1>1. EngineTypeOK'
  BY DEF EngineInv, EngineTypeOK, EngineCrash, NO_LOCK, PENDING_LOCK, Phase
<1>2. LockInv'
  BY DEF EngineCrash, LockInv, OneWriter, WorkIsLocked, ReadersHoldShared,
         AutoCommitIsSettled, ClosedIsFree, IsBusy, StuckIsUnfinalized,
         NO_LOCK, RESERVED_LOCK
<1> QED
  BY <1>1, <1>2 DEF EngineInv

-----------------------------------------------------------------------------
(* Changing the file. *)

\* Only an exclusive lock lets a call change the file.
LEMMA FileChange ==
  ASSUME EngineInv, NEW c \in Conn, NEW r,
         \/ ExecBegin(c) \/ ExecRollback(c) \/ ExecCommit(c)
         \/ WriteCommitted(c, r) \/ WriteBuffered(c, r) \/ WriteBlocked(c)
         \/ WriteRefused(c) \/ WriteAborted(c) \/ WriteRolledBack(c),
         disk' # disk
  PROVE  CanExclude(c)
<1>1. ASSUME NEW l, EndTransaction(c, l, {})
      PROVE  FALSE
  BY <1>1 DEF EndTransaction
<1>2. CASE ExecCommit(c)
  <2>1. CASE /\ lock[c] < RESERVED_LOCK \/ CanExclude(c)
             /\ EndTransaction(c, lock[c], pending[c])
    <3>1. lock[c] < RESERVED_LOCK => pending[c] = {}
      BY AtConnection DEF RESERVED_LOCK
    <3> QED
      BY <1>1, <2>1, <3>1
  <2>2. CASE disk' = disk
    BY <2>2
  <2> QED
    BY <1>2, <2>1, <2>2 DEF ExecCommit, EndFails, engineVars
<1>3. CASE WriteCommitted(c, r)
  BY <1>3 DEF WriteCommitted
<1> QED
  BY <1>1, <1>2, <1>3 DEF ExecBegin, ExecRollback, EndFails, engineVars,
     WriteBuffered, WriteBlocked, WriteRefused, WriteAborted, WriteRolledBack

\* Under an exclusive lock no other connection stands on a row.
LEMMA ExcludedReaders ==
  ASSUME EngineInv, NEW c \in Conn, CanExclude(c)
  PROVE  \A d \in Conn \ {c} : \A q \in Query : phase[d][q] # "running"
BY AtConnection DEF CanExclude, OtherHolds
=============================================================================
