--------------------------- MODULE MadQueryProofs ---------------------------
(***************************************************************************)
(* A cursor of MadQuery: the types, and that a scan which ends reads the   *)
(* rows that were there, whatever the connections do in between.           *)
(***************************************************************************)
EXTENDS MadQuery, SqliteConnectionProofs

\* The cursor stands on a row, and the rows before it were read.
OnRow(q) ==
  /\ phase[Reader][q] = "running"
  /\ at[q] \in Row
  /\ since[q] \subseteq Visible(Reader)
  /\ \A r \in since[q] : r < at[q] => r \in seen[q]
  /\ pc[q] = "next" => at[q] \in seen[q]
  /\ \A r \in seen[q] : r < at[q] \/ (pc[q] = "next" /\ r = at[q])
  /\ quiet[q] => /\ since[q] = Visible(Reader)
                 /\ seen[q] \subseteq since[q]
                 /\ at[q] \in since[q]

\* The scan ended, and every row was read.
AtEnd(q) ==
  /\ phase[Reader][q] # "running"
  /\ since[q] \subseteq seen[q]
  /\ quiet[q] => seen[q] = since[q]

\* What the thread of q relies on, where it is.
CursorInv(q) ==
  /\ pc[q] = "idle" => phase[Reader][q] = "none"
  /\ phase[Reader][q] = "blocked" => stepResult[q] = "BUSY"
  /\ pc[q] \in {"unread", "rewound"} => at[q] = 0
  /\ pc[q] = "test" => stepResult[q] # "UNKNOWN"
  /\ pc[q] = "next" => stepResult[q] = "ROW"
  /\ pc[q] \in {"test", "next"} /\ stepResult[q] = "ROW" => OnRow(q)
  /\ pc[q] = "test" /\ stepResult[q] = "DONE" => AtEnd(q)

CursorTypeOK ==
  /\ at \in [Query -> Row \cup {0}]
  /\ stepResult \in [Query -> Result]
  /\ pc \in [Query -> Place]
  /\ since \in [Query -> SUBSET Row]
  /\ seen \in [Query -> SUBSET Row]
  /\ quiet \in [Query -> BOOLEAN]

QInv ==
  /\ EngineInv
  /\ CursorTypeOK
  /\ \A q \in Query : CursorInv(q)

-----------------------------------------------------------------------------
(* What a step of one cursor leaves alone. *)

FileStays == disk' = disk /\ pending' = pending

CursorStays(q) ==
  /\ phase'[Reader][q] = phase[Reader][q]
  /\ at'[q] = at[q] /\ stepResult'[q] = stepResult[q] /\ pc'[q] = pc[q]
  /\ since'[q] = since[q] /\ seen'[q] = seen[q] /\ quiet'[q] = quiet[q]

OthersStay(q) == \A p \in Query \ {q} : CursorStays(p)

LEMMA StaysInv ==
  ASSUME NEW q \in Query, CursorInv(q), FileStays, CursorStays(q)
  PROVE  CursorInv(q)'
BY DEF CursorInv, OnRow, AtEnd, Visible, FileStays, CursorStays

\* A step of the cursor q has to be looked at for q alone.
LEMMA OneCursor ==
  ASSUME QInv, NEW q \in Query, EngineInv', CursorTypeOK',
         FileStays, OthersStay(q), CursorInv(q)'
  PROVE  QInv'
<1>1. ASSUME NEW p \in Query, p # q
      PROVE  CursorInv(p)'
  BY <1>1, StaysInv DEF QInv, OthersStay
<1> QED
  BY <1>1 DEF QInv

\* What the engine calls of a cursor do, apart from the lock.
LEMMA QueryEffect ==
  ASSUME EngineInv, NEW q \in Query, NEW x \in Phase,
         \/ PrepareQuery(Reader, q) /\ x = "ready"
         \/ ResetQuery(Reader, q, x)
         \/ StepQuery(Reader, q) /\ phase'[Reader][q] = x
         \/ FinalizeQuery(Reader, q) /\ x = "none"
  PROVE  /\ FileStays
         /\ phase'[Reader][q] = x
         /\ \A p \in Query \ {q} : phase'[Reader][p] = phase[Reader][p]
<1>1. FileStays
  BY DEF PrepareQuery, ResetQuery, StepQuery, FinalizeQuery, HaltQuery, FileStays
<1>2. PICK y \in Phase : phase' = [phase EXCEPT ![Reader][q] = y]
  BY ReaderAssumption DEF EngineInv, EngineTypeOK, PrepareQuery, ResetQuery,
     StepQuery, FinalizeQuery, HaltQuery, Phase
<1>3. phase'[Reader][q] = x
  BY ReaderAssumption DEF EngineInv, EngineTypeOK, PrepareQuery, ResetQuery,
     FinalizeQuery, HaltQuery, Phase
<1> QED
  BY <1>1, <1>2, <1>3, ReaderAssumption DEF EngineInv, EngineTypeOK

-----------------------------------------------------------------------------
(* sqlite3_step. *)

\* Every row of a scan so far is below what is left.
LEMMA ScanSoFar ==
  ASSUME QInv, NEW q \in Query,
         pc[q] \in {"unread", "rewound"} \/ pc[q] = "next",
         NEW before, NEW read,
         IF pc[q] = "next" THEN before = since[q] /\ read = seen[q]
                           ELSE before = Visible(Reader) /\ read = {}
  PROVE  /\ before \subseteq Visible(Reader)
         /\ \A r \in before : r \in Rest(q) \/ r \in read
         /\ \A r \in read, s \in Rest(q) : r < s
<1>1. CASE pc[q] = "next"
  <2>1. OnRow(q)
    BY <1>1 DEF QInv, CursorInv
  <2>1a. ASSUME NEW r \in read, NEW s \in Rest(q)
         PROVE  r < s
    <3>1. r \in Nat /\ at[q] \in Nat /\ s \in Nat /\ s > at[q]
      BY <1>1, <2>1, RowAssumption, ReaderAssumption
         DEF OnRow, Rest, Visible, QInv, CursorTypeOK, EngineInv, EngineTypeOK
    <3>2. r < at[q] \/ r = at[q]
      BY <1>1, <2>1 DEF OnRow
    <3> QED
      BY <3>1, <3>2
  <2>2. ASSUME NEW r \in before, ~(r > at[q])
        PROVE  r \in read
    <3>1. r \in Nat /\ at[q] \in Nat
      BY <1>1, <2>1, <2>2, RowAssumption DEF OnRow, QInv, CursorTypeOK
    <3>2. r < at[q] \/ r = at[q]
      BY <2>2, <3>1
    <3> QED
      BY <1>1, <2>1, <2>2, <3>2 DEF OnRow
  <2> QED
    BY <1>1, <2>1, <2>1a, <2>2 DEF OnRow, Rest
<1>2. CASE pc[q] \in {"unread", "rewound"}
  <2>1. at[q] = 0
    BY <1>2 DEF QInv, CursorInv
  <2>2. \A r \in Visible(Reader) : r \in Nat \ {0}
    BY RowAssumption, ReaderAssumption DEF QInv, EngineInv, EngineTypeOK, Visible
  <2> QED
    BY <1>2, <2>1, <2>2 DEF Rest
<1> QED
  BY <1>1, <1>2

LEMMA StepInv ==
  ASSUME QInv, NEW q \in Query, Step(q),
         \/ pc[q] \in {"unread", "rewound"} /\ ScanBegins(q)
         \/ pc[q] = "next" /\ UNCHANGED <<since, seen, quiet>>,
         Goto(q, "test")
  PROVE  QInv'
<1> DEFINE before == since'[q]
           read == seen'[q]
<1>1. IF pc[q] = "next" THEN before = since[q] /\ read = seen[q]
                        ELSE before = Visible(Reader) /\ read = {}
  BY DEF ScanBegins, QInv, CursorTypeOK
<1>2. /\ before \subseteq Visible(Reader)
      /\ \A r \in before : r \in Rest(q) \/ r \in read
      /\ \A r \in read, s \in Rest(q) : r < s
  <2> HIDE DEF before, read
  <2> QED
    BY <1>1, ScanSoFar
<1>3. quiet'[q] => before = Visible(Reader) /\ read \subseteq before
  <2>1. CASE pc[q] = "next"
    BY <2>1 DEF QInv, CursorInv, OnRow
  <2>2. CASE pc[q] # "next"
    BY <1>1, <2>2
  <2> QED
    BY <2>1, <2>2
<1>4. /\ pc'[q] = "test"
      /\ \A p \in Query \ {q} :
           pc'[p] = pc[p] /\ since'[p] = since[p] /\ seen'[p] = seen[p] /\ quiet'[p] = quiet[p]
  BY DEF Goto, ScanBegins, QInv, CursorTypeOK
<1>5. /\ pc' \in [Query -> Place] /\ since' \in [Query -> SUBSET Row]
      /\ seen' \in [Query -> SUBSET Row] /\ quiet' \in [Query -> BOOLEAN]
  <2>1. Visible(Reader) \subseteq Row
    BY ReaderAssumption DEF QInv, EngineInv, EngineTypeOK, Visible
  <2>2. "test" \in Place
    BY DEF Place
  <2> QED
    BY <2>1, <2>2 DEF Goto, ScanBegins, QInv, CursorTypeOK
<1>6. CASE StepNull(q)
  <2>1. EngineInv'
    BY <1>6, EngineStutter DEF QInv, StepNull
  <2>2. stepResult'[q] = "MISUSE" /\ CursorTypeOK'
    BY <1>5, <1>6 DEF StepNull, QInv, CursorTypeOK, Result
  <2>3. FileStays /\ OthersStay(q) /\ phase'[Reader][q] = "none"
    BY <1>4, <1>6 DEF StepNull, QInv, CursorTypeOK, FileStays, OthersStay,
       CursorStays, engineVars
  <2>4. CursorInv(q)'
    BY <1>4, <2>2, <2>3 DEF CursorInv
  <2> QED
    BY <2>1, <2>2, <2>3, <2>4, OneCursor
<1>7. ASSUME NEW x \in {"running", "halted", "blocked"},
             StepQuery(Reader, q), phase[Reader][q] # "none", phase'[Reader][q] = x
      PROVE  /\ EngineInv' /\ FileStays
             /\ \A p \in Query \ {q} : phase'[Reader][p] = phase[Reader][p]
             /\ Visible(Reader)' = Visible(Reader)
  <2>1. open[Reader]
    BY <1>7, PreparedIsOpen, ReaderAssumption DEF QInv
  <2>2. EngineInv'
    BY <1>7, <2>1, StepQueryInv, ReaderAssumption DEF QInv
  <2>3. x \in Phase
    BY DEF Phase
  <2>4. FileStays /\ \A p \in Query \ {q} : phase'[Reader][p] = phase[Reader][p]
    BY <1>7, <2>3, QueryEffect DEF QInv
  <2> QED
    BY <2>2, <2>4 DEF FileStays, Visible
<1>8. CASE phase[Reader][q] # "none" /\ StepRow(q)
  <2>1. PICK r \in Rest(q) :
          (\A s \in Rest(q) : r <= s) /\ at' = [at EXCEPT ![q] = r]
    BY <1>8 DEF StepRow
  <2>2. /\ EngineInv' /\ FileStays /\ phase'[Reader][q] = "running"
        /\ \A p \in Query \ {q} : phase'[Reader][p] = phase[Reader][p]
        /\ Visible(Reader)' = Visible(Reader)
    BY <1>7, <1>8 DEF StepRow
  <2>3. r \in Row /\ r \in Visible(Reader) /\ at'[q] = r
    BY <2>1, ReaderAssumption DEF Rest, Visible, QInv, EngineInv, EngineTypeOK, CursorTypeOK
  <2>4. stepResult'[q] = "ROW" /\ CursorTypeOK' /\ OthersStay(q)
    BY <1>4, <1>5, <1>8, <2>1, <2>2, <2>3
       DEF StepRow, QInv, CursorTypeOK, Result, OthersStay, CursorStays
  <2>5. \A s \in before : s < r => s \in read
    <3> SUFFICES ASSUME NEW s \in before, s < r, s \notin read PROVE FALSE
      OBVIOUS
    <3>1. s \in Rest(q) /\ s \in Nat /\ r \in Nat
      BY <1>2, <1>5, <2>3, RowAssumption
    <3> QED
      BY <2>1, <3>1
  <2>6. OnRow(q)'
    BY <1>2, <1>3, <1>4, <2>1, <2>2, <2>3, <2>5 DEF OnRow
  <2>7. CursorInv(q)'
    BY <1>4, <2>2, <2>4, <2>6 DEF CursorInv
  <2> QED
    BY <2>2, <2>4, <2>7, OneCursor
<1>9. CASE phase[Reader][q] # "none" /\ StepDone(q)
  <2>1. /\ EngineInv' /\ FileStays /\ phase'[Reader][q] = "halted"
        /\ \A p \in Query \ {q} : phase'[Reader][p] = phase[Reader][p]
    BY <1>7, <1>9 DEF StepDone
  <2>2. stepResult'[q] = "DONE" /\ CursorTypeOK' /\ OthersStay(q)
    BY <1>4, <1>5, <1>9, <2>1
       DEF StepDone, QInv, CursorTypeOK, Result, OthersStay, CursorStays
  <2>3. AtEnd(q)'
    BY <1>2, <1>3, <1>9, <2>1 DEF AtEnd, StepDone
  <2>4. CursorInv(q)'
    BY <1>4, <2>1, <2>2, <2>3 DEF CursorInv
  <2> QED
    BY <2>1, <2>2, <2>4, OneCursor
<1>10. CASE phase[Reader][q] # "none" /\ StepBusy(q)
  <2>1. /\ EngineInv' /\ FileStays
        /\ \A p \in Query \ {q} : phase'[Reader][p] = phase[Reader][p]
    BY <1>7, <1>10 DEF StepBusy
  <2>2. stepResult'[q] = "BUSY" /\ CursorTypeOK' /\ OthersStay(q)
    BY <1>4, <1>5, <1>10, <2>1
       DEF StepBusy, QInv, CursorTypeOK, Result, OthersStay, CursorStays
  <2>3. CursorInv(q)'
    BY <1>4, <2>2 DEF CursorInv
  <2> QED
    BY <2>1, <2>2, <2>3, OneCursor
<1> QED
  BY <1>6, <1>8, <1>9, <1>10 DEF Step

-----------------------------------------------------------------------------
(* The cursor's other steps. *)

LEMMA DoQueryInv ==
  ASSUME QInv, NEW q \in Query, DoQuery(q)
  PROVE  QInv'
<1>1. phase[Reader][q] = "none"
  BY DEF DoQuery, QInv, CursorInv
<1>2. /\ at'[q] = 0 /\ pc'[q] = "unread" /\ CursorTypeOK'
      /\ \A p \in Query \ {q} :
           /\ at'[p] = at[p] /\ stepResult'[p] = stepResult[p] /\ pc'[p] = pc[p]
           /\ since'[p] = since[p] /\ seen'[p] = seen[p] /\ quiet'[p] = quiet[p]
  BY DEF DoQuery, Goto, QInv, CursorTypeOK, Place, Result
<1>3. /\ EngineInv' /\ FileStays /\ phase'[Reader][q] \in {"none", "ready"}
      /\ \A p \in Query \ {q} : phase'[Reader][p] = phase[Reader][p]
  <2>1. CASE PrepareQuery(Reader, q)
    BY <2>1, PrepareQueryInv, QueryEffect, ReaderAssumption DEF QInv, Phase
  <2>2. CASE UNCHANGED engineVars
    BY <1>1, <2>2, EngineStutter DEF QInv, engineVars, FileStays
  <2> QED
    BY <2>1, <2>2 DEF DoQuery
<1>4. OthersStay(q)
  BY <1>2, <1>3 DEF OthersStay, CursorStays
<1>5. CursorInv(q)'
  BY <1>2, <1>3 DEF CursorInv
<1> QED
  BY <1>2, <1>3, <1>4, <1>5, OneCursor

LEMMA MoveToFirstInv ==
  ASSUME QInv, NEW q \in Query, MoveToFirst(q)
  PROVE  QInv'
<1>1. /\ at'[q] = 0 /\ stepResult'[q] = stepResult[q] /\ CursorTypeOK'
      /\ \A p \in Query \ {q} :
           /\ at'[p] = at[p] /\ stepResult'[p] = stepResult[p] /\ pc'[p] = pc[p]
           /\ since'[p] = since[p] /\ seen'[p] = seen[p] /\ quiet'[p] = quiet[p]
  BY DEF MoveToFirst, Goto, QInv, CursorTypeOK, Place
<1>2. /\ EngineInv' /\ FileStays /\ phase'[Reader][q] # "blocked"
      /\ \A p \in Query \ {q} : phase'[Reader][p] = phase[Reader][p]
      /\ \/ pc'[q] = "rewound"
         \/ pc'[q] = "test" /\ phase[Reader][q] = "blocked"
  <2>1. CASE ResetQuery(Reader, q, "rewound") /\ Goto(q, "rewound")
    BY <2>1, ResetQueryInv, QueryEffect, ReaderAssumption
       DEF QInv, CursorTypeOK, Phase, Goto
  <2>2. CASE ResetQuery(Reader, q, "halted") /\ Goto(q, "test")
    BY <2>2, ResetQueryInv, QueryEffect, ReaderAssumption
       DEF QInv, CursorTypeOK, Phase, Goto, ResetQuery
  <2>3. CASE phase[Reader][q] = "none" /\ UNCHANGED engineVars /\ Goto(q, "rewound")
    BY <2>3, EngineStutter DEF QInv, CursorTypeOK, engineVars, FileStays, Goto
  <2> QED
    BY <2>1, <2>2, <2>3 DEF MoveToFirst
<1>3. OthersStay(q)
  BY <1>1, <1>2 DEF OthersStay, CursorStays
<1>4. CursorInv(q)'
  BY <1>1, <1>2 DEF CursorInv, QInv
<1> QED
  BY <1>1, <1>2, <1>3, <1>4, OneCursor

LEMMA ReadInv ==
  ASSUME QInv, NEW q \in Query, Read(q)
  PROVE  QInv'
<1>1. EngineInv' /\ FileStays
  BY EngineStutter DEF Read, QInv, engineVars, FileStays
<1>2. stepResult[q] = "ROW" /\ OnRow(q)
  BY DEF Read, IsAfterLast, QInv, CursorInv
<1>3. /\ pc'[q] = "next" /\ seen'[q] = seen[q] \cup {at[q]} /\ CursorTypeOK'
      /\ OthersStay(q)
  BY <1>2 DEF Read, Goto, OnRow, QInv, CursorTypeOK, Place, OthersStay,
     CursorStays, engineVars
<1>4. OnRow(q)' /\ stepResult'[q] = "ROW"
  BY <1>2, <1>3 DEF Read, OnRow, Visible, engineVars
<1>5. CursorInv(q)'
  BY <1>3, <1>4 DEF CursorInv, OnRow
<1> QED
  BY <1>1, <1>3, <1>5, OneCursor

\* Leaving the loop, at its end or before.
LEMMA LeaveInv ==
  ASSUME QInv, NEW q \in Query, LoopEnds(q) \/ Break(q)
  PROVE  QInv'
<1>1. EngineInv' /\ FileStays
  BY EngineStutter DEF LoopEnds, Break, QInv, engineVars, FileStays
<1>2. pc'[q] = "left" /\ CursorTypeOK' /\ OthersStay(q)
  BY DEF LoopEnds, Break, Goto, QInv, CursorTypeOK, Place, OthersStay,
     CursorStays, engineVars
<1>3. CursorInv(q)'
  BY <1>2 DEF LoopEnds, Break, CursorInv, QInv, engineVars
<1> QED
  BY <1>1, <1>2, <1>3, OneCursor

LEMMA DestroyInv ==
  ASSUME QInv, NEW q \in Query, Destroy(q)
  PROVE  QInv'
<1>1. pc'[q] = "idle" /\ CursorTypeOK'
      /\ \A p \in Query \ {q} :
           /\ at'[p] = at[p] /\ stepResult'[p] = stepResult[p] /\ pc'[p] = pc[p]
           /\ since'[p] = since[p] /\ seen'[p] = seen[p] /\ quiet'[p] = quiet[p]
  BY DEF Destroy, Goto, QInv, CursorTypeOK, Place
<1>2. /\ EngineInv' /\ FileStays /\ phase'[Reader][q] = "none"
      /\ \A p \in Query \ {q} : phase'[Reader][p] = phase[Reader][p]
  <2>1. CASE FinalizeQuery(Reader, q)
    BY <2>1, FinalizeQueryInv, QueryEffect, ReaderAssumption DEF QInv, Phase
  <2>2. CASE phase[Reader][q] = "none" /\ UNCHANGED engineVars
    BY <2>2, EngineStutter DEF QInv, engineVars, FileStays
  <2> QED
    BY <2>1, <2>2 DEF Destroy
<1>3. OthersStay(q)
  BY <1>1, <1>2 DEF OthersStay, CursorStays
<1>4. CursorInv(q)'
  BY <1>1, <1>2 DEF CursorInv
<1> QED
  BY <1>1, <1>2, <1>3, <1>4, OneCursor

-----------------------------------------------------------------------------
(* The connections. *)

\* Under a cursor on a row, another connection changes nothing Reader sees.
LEMMA ReaderUndisturbed ==
  ASSUME EngineInv, NEW c \in Conn \ {Reader}, Execute(c),
         NEW q \in Query, phase[Reader][q] = "running"
  PROVE  Visible(Reader)' = Visible(Reader)
<1>1. PICK r : \/ ExecBegin(c) \/ ExecRollback(c) \/ ExecCommit(c)
               \/ WriteCommitted(c, r) \/ WriteBuffered(c, r) \/ WriteBlocked(c)
               \/ WriteRefused(c) \/ WriteAborted(c) \/ WriteRolledBack(c)
  BY DEF Execute, Insert
<1>2. disk' = disk
  BY <1>1, FileChange, ExcludedReaders, ReaderAssumption
<1>3. pending'[Reader] = pending[Reader]
  BY <1>1, ReaderAssumption DEF EngineInv, EngineTypeOK, ExecBegin, ExecRollback,
     ExecCommit, EndFails, EndTransaction, WriteCommitted, WriteBuffered,
     WriteBlocked, WriteRefused, WriteAborted, WriteRolledBack, engineVars
<1> QED
  BY <1>2, <1>3 DEF Visible

LEMMA ExecuteInv ==
  ASSUME QInv, NEW c \in Conn, Execute(c)
  PROVE  QInv'
<1>1. phase' = phase /\ EngineInv'
  <2>1. CASE ExecBegin(c)
    BY <2>1, ExecBeginInv DEF QInv, Execute, ExecBegin
  <2>2. CASE ExecCommit(c)
    BY <2>2, ExecCommitInv DEF QInv, Execute, ExecCommit, EndFails, engineVars
  <2>3. CASE ExecRollback(c)
    BY <2>3, ExecRollbackInv DEF QInv, Execute, ExecRollback, EndFails, engineVars
  <2>4. CASE Insert(c)
    BY <2>4, WriteInv DEF QInv, Execute, Insert
  <2> QED
    BY <2>1, <2>2, <2>3, <2>4 DEF Execute
<1> DEFINE stays == disk' \cup pending'[Reader]
<1>2. \A q \in Query :
        /\ at'[q] = at[q] /\ stepResult'[q] = stepResult[q] /\ pc'[q] = pc[q]
        /\ seen'[q] = seen[q]
        /\ since'[q] = IF phase[Reader][q] = "running" THEN since[q] \cap stays
                                                     ELSE since[q]
        /\ quiet'[q] = (quiet[q] /\ (c = Reader => stays = Visible(Reader)))
  BY DEF Execute
<1>3. CursorTypeOK'
  BY DEF Execute, QInv, CursorTypeOK
<1>4. stays = Visible(Reader)'
  BY DEF Visible
<1>5. ASSUME NEW q \in Query
      PROVE  CursorInv(q)'
  <2>1. ASSUME OnRow(q) PROVE OnRow(q)'
    <3>1. quiet'[q] => stays = Visible(Reader)
      <4>1. CASE c = Reader
        BY <1>2, <4>1
      <4>2. CASE c # Reader
        BY <1>4, <2>1, <4>2, ReaderUndisturbed DEF QInv, OnRow
      <4> QED
        BY <4>1, <4>2
    <3>2. since'[q] = since[q] \cap stays
      BY <1>2, <2>1 DEF OnRow
    <3> HIDE DEF stays
    <3>3. quiet'[q] => quiet[q]
      BY <1>2 DEF QInv, CursorTypeOK
    <3>4. quiet'[q] => /\ since'[q] = Visible(Reader)' /\ seen'[q] \subseteq since'[q]
                       /\ at'[q] \in since'[q]
      BY <1>2, <1>4, <2>1, <3>1, <3>2, <3>3 DEF OnRow
    <3> QED
      BY <1>1, <1>2, <1>4, <2>1, <3>2, <3>4 DEF OnRow
  <2>2. ASSUME AtEnd(q) PROVE AtEnd(q)'
    BY <1>1, <1>2, <2>2 DEF AtEnd, QInv, CursorTypeOK
  <2>3. CursorInv(q)
    BY DEF QInv
  <2> QED
    BY <1>1, <1>2, <2>1, <2>2, <2>3 DEF CursorInv
<1> QED
  BY <1>1, <1>3, <1>5 DEF QInv

LEMMA OpenConnInv ==
  ASSUME QInv, NEW c \in Conn, OpenConn(c)
  PROVE  QInv'
<1>1. EngineInv'
  BY OpenInv DEF OpenConn, QInv
<1>2. CursorTypeOK' /\ \A q \in Query : CursorStays(q) /\ FileStays
  BY DEF OpenConn, Open, QInv, CursorTypeOK, CursorStays, FileStays, cursorVars
<1> QED
  BY <1>1, <1>2, StaysInv DEF QInv

LEMMA CloseConnInv ==
  ASSUME QInv, NEW c \in Conn, CloseConn(c)
  PROVE  QInv'
<1>1. EngineInv'
  BY CloseInv DEF CloseConn, QInv
<1>2. CursorTypeOK' /\ phase' = phase /\ UNCHANGED cursorVars
  BY DEF CloseConn, Close, QInv, CursorTypeOK, cursorVars, engineVars
<1>3. ASSUME NEW q \in Query
      PROVE  CursorInv(q)'
  <2>1. CASE phase[Reader][q] = "running"
    <3>1. Visible(Reader)' = Visible(Reader)
      BY <2>1, ReaderAssumption DEF CloseConn, Close, IsBusy, engineVars, Visible,
         QInv, EngineInv, EngineTypeOK
    <3> QED
      BY <1>2, <3>1 DEF QInv, CursorInv, OnRow, AtEnd, cursorVars
  <2>2. CASE phase[Reader][q] # "running"
    BY <1>2, <2>2 DEF QInv, CursorInv, OnRow, AtEnd, cursorVars
  <2> QED
    BY <2>1, <2>2
<1> QED
  BY <1>1, <1>2, <1>3 DEF QInv

-----------------------------------------------------------------------------
(* The theorems. *)

LEMMA QInit == Init => QInv
<1> SUFFICES ASSUME Init PROVE QInv
  OBVIOUS
<1>1. EngineInv
  BY EngineInitInv DEF Init
<1>2. CursorTypeOK
  BY DEF Init, CursorTypeOK, Result, Place
<1>3. \A q \in Query : CursorInv(q)
  BY ReaderAssumption DEF Init, EngineInit, CursorInv
<1> QED
  BY <1>1, <1>2, <1>3 DEF QInv

LEMMA QStep == QInv /\ [Next]_vars => QInv'
<1> SUFFICES ASSUME QInv, [Next]_vars PROVE QInv'
  OBVIOUS
<1>1. ASSUME NEW q \in Query, DoQuery(q) PROVE QInv'
  BY <1>1, DoQueryInv
<1>2. ASSUME NEW q \in Query, MoveToFirst(q) PROVE QInv'
  BY <1>2, MoveToFirstInv
<1>3. ASSUME NEW q \in Query, LoopStep(q) PROVE QInv'
  <2>1. CASE MoveToFirstStep(q)
    BY <2>1, StepInv DEF MoveToFirstStep
  <2>2. CASE Read(q)
    BY <2>2, ReadInv
  <2>3. CASE MoveToNext(q)
    BY <2>3, StepInv DEF MoveToNext
  <2>4. CASE LoopEnds(q)
    BY <2>4, LeaveInv
  <2> QED
    BY <1>3, <2>1, <2>2, <2>3, <2>4 DEF LoopStep
<1>4. ASSUME NEW q \in Query, Break(q) PROVE QInv'
  BY <1>4, LeaveInv
<1>5. ASSUME NEW q \in Query, Destroy(q) PROVE QInv'
  BY <1>5, DestroyInv
<1>6. ASSUME NEW c \in Conn, OpenConn(c) PROVE QInv'
  BY <1>6, OpenConnInv
<1>7. ASSUME NEW c \in Conn, CloseConn(c) PROVE QInv'
  BY <1>7, CloseConnInv
<1>8. ASSUME NEW c \in Conn, Execute(c) PROVE QInv'
  BY <1>8, ExecuteInv
<1>9. CASE UNCHANGED vars
  <2>1. EngineInv'
    BY <1>9, EngineStutter DEF QInv, vars
  <2>2. CursorTypeOK' /\ \A q \in Query : CursorStays(q) /\ FileStays
    BY <1>9 DEF vars, cursorVars, engineVars, QInv, CursorTypeOK, CursorStays, FileStays
  <2> QED
    BY <2>1, <2>2, StaysInv DEF QInv
<1> QED
  BY <1>1, <1>2, <1>3, <1>4, <1>5, <1>6, <1>7, <1>8, <1>9 DEF Next

\* Every variable of the cursors and of the engine keeps its type.
THEOREM CursorTypeCorrect == Spec => []TypeOK
<1>1. QInv => TypeOK
  BY DEF QInv, EngineInv, CursorTypeOK, TypeOK
<1> QED
  BY <1>1, QInit, QStep, PTL DEF Spec

\* For any cursors, connections and rows: a scan that reaches SQLITE_DONE has
\* read each row that was there all along, and if its own connection changed
\* nothing it has read these alone, whatever others commit meanwhile.
THEOREM ScansAreExact == Spec => []ScanIsExact
<1>1. QInv => ScanIsExact
  BY DEF QInv, CursorInv, AtEnd, ScanIsExact
<1> QED
  BY <1>1, QInit, QStep, PTL DEF Spec

\* For any cursors, connections and rows: what a scan reads next is after all
\* that it has read, whatever is inserted, committed and rolled back under it.
THEOREM ScansAscend == Spec => RowsAscend
<1>1. ASSUME QInv, NEW q \in Query, Read(q)
      PROVE  \A r \in seen[q] : r < at[q]
  <2>1. pc[q] = "test" /\ stepResult[q] = "ROW"
    BY <1>1 DEF Read, IsAfterLast, QInv, CursorInv
  <2> QED
    BY <1>1, <2>1 DEF QInv, CursorInv, OnRow
<1>2. QInv /\ [Next]_vars => [\A q \in Query : Read(q) => \A r \in seen[q] : r < at[q]]_vars
  BY <1>1
<1> QED
  BY <1>2, QInit, QStep, PTL DEF Spec, RowsAscend

-----------------------------------------------------------------------------
(* Errors and the end of the loop. *)

\* A scan that met an error has read nothing, from the step that met it to the
\* next scan, a reset that is refused because of it included.
CutInv ==
  \A q \in Query :
    /\ phase[Reader][q] = "blocked" => stepResult[q] = "BUSY" /\ seen[q] = {}
    /\ pc[q] = "test" /\ stepResult[q] \in {"BUSY", "MISUSE"} => seen[q] = {}

\* The thread of a cursor does not see the steps of the connections and of the
\* other cursors.
Untouched(q) ==
  /\ phase'[Reader][q] = phase[Reader][q]
  /\ pc'[q] = pc[q] /\ stepResult'[q] = stepResult[q] /\ seen'[q] = seen[q]

LEMMA OneCut ==
  ASSUME CutInv, NEW q \in Query, \A p \in Query \ {q} : Untouched(p),
         /\ phase'[Reader][q] = "blocked" => stepResult'[q] = "BUSY" /\ seen'[q] = {}
         /\ pc'[q] = "test" /\ stepResult'[q] \in {"BUSY", "MISUSE"} => seen'[q] = {}
  PROVE  CutInv'
<1>1. ASSUME NEW p \in Query, p # q
      PROVE  /\ phase'[Reader][p] = "blocked" => stepResult'[p] = "BUSY" /\ seen'[p] = {}
             /\ pc'[p] = "test" /\ stepResult'[p] \in {"BUSY", "MISUSE"} => seen'[p] = {}
  BY <1>1 DEF CutInv, Untouched
<1> QED
  BY <1>1 DEF CutInv

\* A cursor on a row has the SHARED lock: no step of it can be refused.
LEMMA RowIsNotRefused ==
  ASSUME QInv, NEW q \in Query, pc[q] = "next", Step(q)
  PROVE  stepResult'[q] \in {"ROW", "DONE"} /\ phase'[Reader][q] # "blocked"
<1>1. phase[Reader][q] = "running" /\ lock[Reader] >= SHARED_LOCK
  BY ReaderAssumption DEF QInv, CursorInv, OnRow, EngineInv, LockInv, ReadersHoldShared
<1>2. CanRead(Reader)
  BY <1>1 DEF CanRead
<1>3. phase \in [Conn -> [Query -> Phase]] /\ stepResult \in [Query -> Result]
  BY DEF QInv, EngineInv, EngineTypeOK, CursorTypeOK
<1>4. ~StepBusy(q)
  BY <1>2, <1>3, ReaderAssumption DEF StepBusy, StepQuery, HaltQuery
<1>5. StepRow(q) \/ StepDone(q)
  BY <1>1, <1>4 DEF Step, StepNull
<1> QED
  BY <1>3, <1>5 DEF StepRow, StepDone

\* A step that begins a scan has read nothing, and one in a scan is not refused.
LEMMA CutStep ==
  ASSUME QInv, CutInv, NEW q \in Query, MoveToFirstStep(q) \/ MoveToNext(q)
  PROVE  CutInv'
<1>1. /\ phase \in [Conn -> [Query -> Phase]]
      /\ stepResult \in [Query -> Result]
      /\ pc \in [Query -> Place]
      /\ seen \in [Query -> SUBSET Row]
  BY DEF QInv, EngineInv, EngineTypeOK, CursorTypeOK
<1>2. Step(q) /\ Goto(q, "test")
  BY DEF MoveToFirstStep, MoveToNext
<1>3. stepResult'[q] \in {"ROW", "DONE", "BUSY", "MISUSE"}
      /\ \A p \in Query \ {q} : stepResult'[p] = stepResult[p]
  BY <1>1, <1>2 DEF Step, StepRow, StepDone, StepBusy, StepNull
<1>4. \A p \in Query \ {q} : phase'[Reader][p] = phase[Reader][p]
  BY <1>1, <1>2, ReaderAssumption DEF Step, StepRow, StepDone, StepBusy, StepNull,
     StepQuery, HaltQuery, engineVars
<1>5. \A p \in Query \ {q} : Untouched(p)
  BY <1>1, <1>2, <1>3, <1>4 DEF MoveToFirstStep, MoveToNext, ScanBegins, Goto, Untouched
<1>6. phase'[Reader][q] = "blocked" => stepResult'[q] = "BUSY"
  <2>1. StepRow(q) \/ StepDone(q) => phase'[Reader][q] # "blocked"
    BY DEF StepRow, StepDone
  <2>2. StepBusy(q) => stepResult'[q] = "BUSY"
    BY <1>1 DEF StepBusy
  <2>3. StepNull(q) => phase'[Reader][q] = "none"
    BY DEF StepNull, engineVars
  <2> QED
    BY <1>2, <2>1, <2>2, <2>3 DEF Step
<1>7. CASE pc[q] = "next"
  <2>1. stepResult'[q] \in {"ROW", "DONE"} /\ phase'[Reader][q] # "blocked"
    BY <1>2, <1>7, RowIsNotRefused
  <2> QED
    BY <1>5, <2>1, OneCut
<1>8. CASE pc[q] # "next"
  <2>1. ScanBegins(q)
    BY <1>8 DEF MoveToFirstStep, MoveToNext
  <2>2. seen'[q] = {}
    BY <1>1, <2>1 DEF ScanBegins
  <2> QED
    BY <1>5, <1>6, <2>2, OneCut
<1> QED
  BY <1>7, <1>8

\* A reset that is refused leaves the result of a scan that read nothing.
LEMMA CutFirst ==
  ASSUME QInv, CutInv, NEW q \in Query, MoveToFirst(q)
  PROVE  CutInv'
<1>1. /\ phase \in [Conn -> [Query -> Phase]]
      /\ pc \in [Query -> Place]
      /\ UNCHANGED <<stepResult, seen>>
  BY DEF QInv, EngineInv, EngineTypeOK, CursorTypeOK, MoveToFirst
<1>2. CASE ResetQuery(Reader, q, "rewound") /\ Goto(q, "rewound")
  <2>1. /\ phase'[Reader][q] = "rewound" /\ pc'[q] = "rewound"
        /\ \A p \in Query \ {q} : Untouched(p)
    BY <1>1, <1>2, ReaderAssumption DEF ResetQuery, HaltQuery, Goto, Untouched
  <2> QED
    BY <2>1, OneCut
<1>3. CASE ResetQuery(Reader, q, "halted") /\ Goto(q, "test")
  <2>1. phase[Reader][q] = "blocked"
    BY <1>3 DEF ResetQuery
  <2>2. phase'[Reader][q] = "halted" /\ \A p \in Query \ {q} : Untouched(p)
    BY <1>1, <1>3, ReaderAssumption DEF ResetQuery, HaltQuery, Goto, Untouched
  <2>3. seen'[q] = {}
    BY <1>1, <2>1 DEF CutInv
  <2> QED
    BY <2>2, <2>3, OneCut
<1>4. CASE phase[Reader][q] = "none" /\ UNCHANGED engineVars /\ Goto(q, "rewound")
  <2>1. /\ phase'[Reader][q] = "none" /\ pc'[q] = "rewound"
        /\ \A p \in Query \ {q} : Untouched(p)
    BY <1>1, <1>4 DEF engineVars, Goto, Untouched
  <2> QED
    BY <2>1, OneCut
<1> QED
  BY <1>2, <1>3, <1>4 DEF MoveToFirst

LEMMA CutInductive == QInv /\ CutInv /\ [Next]_vars => CutInv'
<1> SUFFICES ASSUME QInv, CutInv, [Next]_vars PROVE CutInv'
  OBVIOUS
<1>0. /\ phase \in [Conn -> [Query -> Phase]]
      /\ stepResult \in [Query -> Result]
      /\ pc \in [Query -> Place]
      /\ seen \in [Query -> SUBSET Row]
  BY DEF QInv, EngineInv, EngineTypeOK, CursorTypeOK
<1>1. ASSUME NEW q \in Query, DoQuery(q) PROVE CutInv'
  <2>1. phase[Reader][q] = "none"
    BY <1>1 DEF DoQuery, QInv, CursorInv
  <2>2. phase'[Reader][q] # "blocked" /\ \A p \in Query \ {q} : phase'[Reader][p] = phase[Reader][p]
    BY <1>0, <1>1, <2>1, ReaderAssumption DEF DoQuery, PrepareQuery, engineVars
  <2>3. pc'[q] = "unread" /\ \A p \in Query \ {q} : Untouched(p)
    BY <1>0, <1>1, <2>2 DEF DoQuery, Goto, Untouched
  <2> QED
    BY <2>2, <2>3, OneCut
<1>2. ASSUME NEW q \in Query, MoveToFirst(q) PROVE CutInv'
  BY <1>2, CutFirst
<1>3. ASSUME NEW q \in Query, MoveToFirstStep(q) \/ MoveToNext(q) PROVE CutInv'
  BY <1>3, CutStep
<1>4. ASSUME NEW q \in Query, Read(q) PROVE CutInv'
  <2>1. stepResult[q] = "ROW"
    BY <1>4 DEF Read, IsAfterLast, QInv, CursorInv
  <2>2. phase'[Reader][q] # "blocked"
    BY <1>4, <2>1 DEF Read, CutInv, engineVars
  <2>3. pc'[q] = "next" /\ \A p \in Query \ {q} : Untouched(p)
    BY <1>0, <1>4 DEF Read, Goto, Untouched, engineVars
  <2> QED
    BY <2>2, <2>3, OneCut
<1>5. ASSUME NEW q \in Query, LoopEnds(q) \/ Break(q) PROVE CutInv'
  <2>1. UNCHANGED <<phase, stepResult, seen>>
    BY <1>5 DEF LoopEnds, Break, engineVars
  <2>2. pc'[q] = "left" /\ \A p \in Query \ {q} : Untouched(p)
    BY <1>0, <1>5, <2>1 DEF LoopEnds, Break, Goto, Untouched
  <2> QED
    BY <2>1, <2>2, OneCut DEF CutInv
<1>6. ASSUME NEW q \in Query, Destroy(q) PROVE CutInv'
  <2>1. phase'[Reader][q] = "none" /\ \A p \in Query \ {q} : phase'[Reader][p] = phase[Reader][p]
    BY <1>0, <1>6, ReaderAssumption DEF Destroy, FinalizeQuery, HaltQuery, engineVars
  <2>2. pc'[q] = "idle" /\ \A p \in Query \ {q} : Untouched(p)
    BY <1>0, <1>6, <2>1 DEF Destroy, Goto, Untouched
  <2> QED
    BY <2>1, <2>2, OneCut
<1>7. ASSUME NEW c \in Conn, OpenConn(c) \/ CloseConn(c) \/ Execute(c) PROVE CutInv'
  <2>1. UNCHANGED <<stepResult, pc, seen>>
    BY <1>7 DEF OpenConn, CloseConn, Execute, cursorVars
  <2>2. UNCHANGED phase
    BY <1>7 DEF OpenConn, CloseConn, Execute, Open, Close, ExecBegin, ExecCommit,
       ExecRollback, EndFails, Insert, engineVars
  <2> QED
    BY <2>1, <2>2 DEF CutInv
<1>8. CASE UNCHANGED vars
  BY <1>8 DEF vars, engineVars, cursorVars, CutInv
<1> QED
  BY <1>1, <1>2, <1>3, <1>4, <1>5, <1>6, <1>7, <1>8 DEF Next, LoopStep

\* For any cursors, connections and rows: isAfterLast ends a read loop that has
\* read a row only at the end of the rows, never at an error.
THEOREM LoopsAreNotCutShort == Spec => []NotCutShort
<1>1. Init => CutInv
  BY ReaderAssumption DEF Init, EngineInit, CutInv
<1>2. QInv /\ CutInv => NotCutShort
  BY DEF QInv, CursorTypeOK, CutInv, NotCutShort, IsAfterLast, Result
<1> QED
  BY <1>1, <1>2, QInit, QStep, CutInductive, PTL DEF Spec
=============================================================================
