-------------------------- MODULE CallResultsProofs --------------------------
(***************************************************************************)
(* What exec and getError tell is true for any threads, cursors, rows and  *)
(* other processes, by the mutex for the number and by the order of the    *)
(* engine's calls for the message.                                         *)
(***************************************************************************)
EXTENDS CallResults, SqliteConnectionProofs, FiniteSetTheorems

AnswerTypeOK ==
  /\ databaseMutex \in Thread \cup {None}
  /\ isInTransaction \in BOOLEAN
  /\ pc \in [Thread -> Place]
  /\ text \in [Thread -> Text]
  /\ errMsg \in Message
  /\ nChange \in {0, 1}
  /\ pointer \in [Thread -> Message \cup {"freed"}]
  /\ wrote \in [Thread -> SUBSET Row]
  /\ lastCall \in
       [thread : Thread \cup {None}, text : {"INSERT", "COMMIT", "other"}, wrote : SUBSET Row]
  /\ reported \subseteq Row

\* A call is between two engine calls only on an open connection, and insert
\* with its statement prepared.
CallsOpen ==
  \A t \in Thread :
    /\ pc[t] # "idle" => open[Shared]
    /\ pc[t] = "step" => unfinalized[Shared]

IInv == EngineInv /\ AnswerTypeOK /\ CallsOpen

\* Every call but getError and a cursor's.
OwnStep(t) ==
  \/ Exec(t) \/ \E s \in transactionKeyWords : Transaction(t, s)
  \/ ExecInternal(t) \/ Changes(t) \/ SetFlag(t)
  \/ InsertPrepare(t) \/ InsertUnprepared(t) \/ InsertStep(t)

ErrorStep(t) == GetError(t) \/ Errmsg(t) \/ Copy(t)

-----------------------------------------------------------------------------
(* The engine under the calls. *)

LEMMA WrittenEngine ==
  ASSUME EngineInv, open[Shared], NEW t \in Thread,
         Written(t) \/ NotWritten(t) \/ WriteBlocked(Shared),
         UNCHANGED <<open, stuck, unfinalized, phase>>
  PROVE  EngineInv'
BY SharedAssumption, WriteInv DEF Written, WriteDone, NotWritten

LEMMA DatabaseEngine ==
  ASSUME IInv, NEW t \in Thread, DatabaseStep(t)
  PROVE  EngineInv'
<1> USE SharedAssumption DEF IInv
<1>1. pc[t] # "idle" \/ Idle(t) => open[Shared]
  BY DEF CallsOpen, Idle
<1>2. CASE UNCHANGED engineVars
  BY <1>2, EngineStutter
<1>3. CASE ExecInternal(t)
  <2>1. open[Shared]
    BY <1>1, <1>3 DEF ExecInternal
  <2>2. CASE ExecInsert(t)
    BY <1>2, <2>1, <2>2, WrittenEngine DEF ExecInsert, Unprepared
  <2>3. CASE \E s \in Text : ExecKeyword(t, s)
    BY <2>1, <2>3, ExecBeginInv, ExecRollbackInv, ExecCommitInv DEF ExecKeyword, Commit
  <2> QED
    BY <1>3, <2>2, <2>3 DEF ExecInternal, AnswerTypeOK
<1>4. CASE InsertPrepare(t)
  <2>1. EngineTypeOK'
    BY <1>4 DEF InsertPrepare, EngineInv, EngineTypeOK
  <2>2. Local(Shared)
    BY <1>1, <1>4, AtConnection DEF InsertPrepare, EngineInv, EngineTypeOK, Local
  <2> QED
    BY <2>1, <2>2, LocalInv
<1>5. CASE InsertStep(t)
  <2>1. open[Shared]
    BY <1>1, <1>5 DEF InsertStep
  <2>2. CASE (Written(t) \/ NotWritten(t)) /\ UNCHANGED stuck
    BY <1>5, <2>1, <2>2, WrittenEngine DEF InsertStep
  <2>3. CASE WriteBlocked(Shared) /\ stuck' = [stuck EXCEPT ![Shared] = TRUE]
    <3>1. unfinalized' = [unfinalized EXCEPT ![Shared] = TRUE]
      BY <1>5 DEF InsertStep, CallsOpen, EngineInv, EngineTypeOK
    <3> QED
      BY <1>5, <2>1, <2>3, <3>1, AbandonInv DEF InsertStep
  <2> QED
    BY <1>5, <2>2, <2>3 DEF InsertStep
<1> QED
  BY <1>2, <1>3, <1>4, <1>5 DEF DatabaseStep, Exec, Transaction, Changes, SetFlag,
     InsertUnprepared, Unprepared, GetError, Errmsg, Copy

LEMMA QueryEngine ==
  ASSUME IInv, NEW t \in Thread, NEW q \in Query, QueryStep(t, q)
  PROVE  EngineInv'
<1> USE SharedAssumption DEF IInv
<1>1. pc[t] # "idle" \/ Idle(t) => open[Shared]
  BY DEF CallsOpen, Idle
<1>2. CASE NewQuery(t, q)
  BY <1>2, PrepareQueryInv, EngineStutter DEF NewQuery, Unprepared
<1>3. CASE MoveToFirst(t, q)
  BY <1>3, ResetQueryInv DEF MoveToFirst
<1>4. CASE MoveToFirstStep(t, q) \/ MoveToNext(t, q)
  BY <1>1, <1>4, StepQueryInv DEF MoveToFirstStep, MoveToNext
<1>5. CASE DestroyQuery(t, q)
  BY <1>5, FinalizeQueryInv DEF DestroyQuery
<1> QED
  BY <1>2, <1>3, <1>4, <1>5 DEF QueryStep

LEMMA OtherEngine ==
  ASSUME IInv, NEW d \in Conn, OtherProcess(d)
  PROVE  EngineInv'
<1> USE DEF IInv
<1>1. CASE Open(d)
  BY <1>1, OpenInv
<1>2. CASE open[d] /\ (ExecBegin(d) \/ ExecCommit(d) \/ ExecRollback(d))
  BY <1>2, ExecBeginInv, ExecCommitInv, ExecRollbackInv
<1>3. CASE open[d] /\ OtherWrites(d)
  BY <1>3, WriteInv DEF OtherWrites, WriteDone
<1>4. ASSUME NEW q \in Query, OtherReads(d, q) \/ FinalizeQuery(d, q)
      PROVE  EngineInv'
  BY <1>4, StepQueryInv, FinalizeQueryInv DEF OtherReads
<1> QED
  BY <1>1, <1>2, <1>3, <1>4 DEF OtherProcess

-----------------------------------------------------------------------------
(* Types. *)

LEMMA SetMessageType ==
  ASSUME AnswerTypeOK, NEW e \in Message, SetMessage(e)
  PROVE  errMsg' \in Message /\ pointer' \in [Thread -> Message \cup {"freed"}]
BY DEF AnswerTypeOK, SetMessage

LEMMA AnswerType ==
  ASSUME AnswerTypeOK, EngineTypeOK', NEW t \in Thread, NEW s \in {"INSERT", "COMMIT"},
         NEW e \in Message, NEW n \in {0, 1}, Answer(t, s, e, n)
  PROVE  /\ errMsg' \in Message /\ pointer' \in [Thread -> Message \cup {"freed"}]
         /\ nChange' \in {0, 1}
         /\ lastCall' \in [thread : Thread \cup {None},
                           text : {"INSERT", "COMMIT", "other"}, wrote : SUBSET Row]
<1>1. (disk' \cup pending'[Shared]) \ Visible \in SUBSET Row
  BY SharedAssumption DEF EngineTypeOK
<1> QED
  BY <1>1, SetMessageType DEF Answer

LEMMA AnswerOtherType ==
  ASSUME AnswerTypeOK, NEW e \in Message, AnswerOther(e)
  PROVE  /\ errMsg' \in Message /\ pointer' \in [Thread -> Message \cup {"freed"}]
         /\ nChange' \in {0, 1}
         /\ lastCall' \in [thread : Thread \cup {None},
                           text : {"INSERT", "COMMIT", "other"}, wrote : SUBSET Row]
BY SetMessageType DEF AnswerOther, AnswerTypeOK

\* What an engine call leaves of the message, the count and the rows.
Answers ==
  /\ errMsg' \in Message /\ pointer' \in [Thread -> Message \cup {"freed"}]
  /\ nChange' \in {0, 1}
  /\ lastCall' \in [thread : Thread \cup {None},
                    text : {"INSERT", "COMMIT", "other"}, wrote : SUBSET Row]
  /\ reported' \subseteq Row

LEMMA EngineCallType ==
  ASSUME AnswerTypeOK, EngineTypeOK', NEW t \in Thread,
         \/ Written(t) \/ NotWritten(t) \/ Unprepared
         \/ ExecInsert(t) \/ \E s \in Text : ExecKeyword(t, s)
         \/ \E n \in {0, 1} : Answer(t, "INSERT", "code", n) /\ UNCHANGED reported
         \/ \E e \in Message : AnswerOther(e) /\ UNCHANGED reported
  PROVE  Answers
<1> USE DEF Message
<1>1. reported \subseteq Row /\ nChange \in {0, 1}
  BY DEF AnswerTypeOK
<1>2. CASE Written(t)
  <2>1. Answer(t, "INSERT", "", 1) /\ reported' = reported \cup lastCall'.wrote
    BY <1>2 DEF Written
  <2> QED
    BY <1>1, <2>1, AnswerType DEF Answers
<1>3. CASE NotWritten(t)
  BY <1>1, <1>3, AnswerType DEF NotWritten, Answers
<1>4. ASSUME NEW e \in Message, AnswerOther(e), UNCHANGED reported
      PROVE  Answers
  BY <1>1, <1>4, AnswerOtherType DEF Answers
<1>5. CASE Unprepared
  BY <1>4, <1>5 DEF Unprepared
<1>6. ASSUME NEW n \in {0, 1}, Answer(t, "INSERT", "code", n), UNCHANGED reported
      PROVE  Answers
  BY <1>1, <1>6, AnswerType DEF Answers
<1>7. CASE ExecInsert(t)
  BY <1>2, <1>3, <1>5, <1>6, <1>7 DEF ExecInsert
<1>8. ASSUME NEW s \in Text, ExecKeyword(t, s)
      PROVE  Answers
  <2>1. reported' \subseteq Row
    BY <1>1, <1>8 DEF ExecKeyword
  <2>2. ASSUME NEW e \in Message, AnswerOther(e)
        PROVE  Answers
    BY <2>1, <2>2, AnswerOtherType DEF Answers
  <2>3. ASSUME NEW e \in Message, Answer(t, "COMMIT", e, nChange)
        PROVE  Answers
    BY <1>1, <2>1, <2>3, AnswerType DEF Answers
  <2> QED
    BY <1>8, <2>2, <2>3 DEF ExecKeyword, Commit
<1> QED
  BY <1>2, <1>3, <1>4, <1>5, <1>6, <1>7, <1>8

LEMMA DatabaseTypes ==
  ASSUME IInv, NEW t \in Thread, DatabaseStep(t)
  PROVE  AnswerTypeOK'
<1> USE DEF IInv, AnswerTypeOK
<1>1. EngineTypeOK'
  BY DatabaseEngine DEF EngineInv
<1>2. CASE ExecInternal(t)
  <2>1. Answers
    BY <1>1, <1>2, EngineCallType DEF ExecInternal
  <2> QED
    BY <1>2, <2>1 DEF ExecInternal, Answers, Goto, Place, Text
<1>3. CASE InsertPrepare(t) \/ InsertUnprepared(t) \/ InsertStep(t)
  <2>1. Answers
    BY <1>1, <1>3, EngineCallType DEF InsertPrepare, InsertUnprepared, InsertStep, Message
  <2> QED
    BY <1>3, <2>1 DEF InsertPrepare, InsertUnprepared, InsertStep, Answers, Goto, Place
<1>4. CASE Exec(t) \/ Changes(t) \/ SetFlag(t) \/ ErrorStep(t)
  <2>1. CASE Exec(t)
    BY <2>1 DEF Exec, Goto, Place, Text, answerVars, historyVars
  <2>2. CASE Changes(t)
    BY <2>2 DEF Changes, Goto, Return, Place, Text, answerVars
  <2>3. CASE SetFlag(t)
    BY <2>3 DEF SetFlag, Goto, Return, Place, Text, answerVars, historyVars
  <2>4. CASE ErrorStep(t)
    BY <2>4 DEF ErrorStep, GetError, Errmsg, Copy, Goto, Place, Message, answerVars,
       historyVars
  <2> QED
    BY <1>4, <2>1, <2>2, <2>3, <2>4
<1>5. ASSUME NEW s \in transactionKeyWords, Transaction(t, s)
      PROVE  AnswerTypeOK'
  BY <1>5 DEF Transaction, Goto, Place, Text, answerVars, historyVars
<1> QED
  BY <1>2, <1>3, <1>4, <1>5 DEF DatabaseStep, ErrorStep

LEMMA QueryTypes ==
  ASSUME IInv, NEW t \in Thread, NEW q \in Query, QueryStep(t, q)
  PROVE  AnswerTypeOK'
<1> USE DEF IInv, AnswerTypeOK
<1>1. EngineTypeOK'
  BY QueryEngine DEF EngineInv
<1>2. CASE NewQuery(t, q)
  <2>1. Answers
    BY <1>1, <1>2, EngineCallType DEF NewQuery, Message
  <2> QED
    BY <1>2, <2>1 DEF NewQuery, Answers
<1>3. CASE ~NewQuery(t, q)
  <2>1. \E e \in Message : CursorCall(e)
    BY <1>3 DEF QueryStep, MoveToFirst, MoveToFirstStep, MoveToNext, DestroyQuery,
       Stepped, Message
  <2>2. Answers /\ UNCHANGED <<databaseMutex, isInTransaction, text, wrote>>
    BY <1>1, <2>1, EngineCallType DEF CursorCall
  <2>3. pc' \in [Thread -> Place]
    BY <1>3 DEF QueryStep, MoveToFirst, MoveToFirstStep, MoveToNext, DestroyQuery,
       Goto, Place
  <2> QED
    BY <2>2, <2>3 DEF Answers
<1> QED
  BY <1>2, <1>3

\* Nothing closes the connection of the MadDatabase or finalizes an insert.
LEMMA CallsStayOpen ==
  ASSUME IInv, [Next]_vars
  PROVE  CallsOpen'
<1> USE SharedAssumption DEF IInv, EngineInv, EngineTypeOK, AnswerTypeOK
<1>1. (open[Shared] => open'[Shared]) /\ (unfinalized[Shared] => unfinalized'[Shared])
  <2>1. ASSUME NEW c \in Conn,
               \/ ExecBegin(c) \/ ExecRollback(c) \/ ExecCommit(c) \/ Open(c)
               \/ UNCHANGED <<open, unfinalized>>
               \/ \E q \in Query : \/ PrepareQuery(c, q) \/ StepQuery(c, q)
                                   \/ FinalizeQuery(c, q)
                                   \/ \E p \in Phase : ResetQuery(c, q, p)
        PROVE  (open[Shared] => open'[Shared]) /\ (unfinalized[Shared] => unfinalized'[Shared])
    BY <2>1 DEF ExecBegin, ExecRollback, ExecCommit, EndFails, engineVars, Open, PrepareQuery,
       StepQuery, FinalizeQuery, ResetQuery, HaltQuery
  <2>2. CASE OpenShared \/ \E d \in Conn : OtherProcess(d)
    BY <2>1, <2>2 DEF OpenShared, OtherProcess, OtherWrites, OtherReads
  <2>3. ASSUME NEW t \in Thread, DatabaseStep(t)
        PROVE  (open[Shared] => open'[Shared]) /\ (unfinalized[Shared] => unfinalized'[Shared])
    <3>1. CASE ExecInternal(t)
      BY <2>1, <3>1 DEF ExecInternal, ExecInsert, ExecKeyword, Commit, Unprepared, engineVars
    <3>2. CASE InsertPrepare(t) \/ InsertUnprepared(t) \/ InsertStep(t)
      BY <3>2 DEF InsertPrepare, InsertUnprepared, InsertStep, Unprepared, engineVars
    <3> QED
      BY <2>3, <3>1, <3>2 DEF DatabaseStep, Exec, Transaction, Changes, SetFlag, GetError,
         Errmsg, Copy, engineVars
  <2>4. ASSUME NEW t \in Thread, NEW q \in Query, QueryStep(t, q)
        PROVE  (open[Shared] => open'[Shared]) /\ (unfinalized[Shared] => unfinalized'[Shared])
    BY <2>1, <2>4 DEF QueryStep, NewQuery, Unprepared, engineVars, MoveToFirst,
       MoveToFirstStep, MoveToNext, DestroyQuery, Phase
  <2> QED
    BY <2>2, <2>3, <2>4 DEF Next, vars, engineVars
<1>2. ASSUME NEW t \in Thread, pc'[t] # "idle", pc[t] = "idle"
      PROVE  open[Shared] /\ (pc'[t] = "step" => unfinalized'[Shared])
  <2>1. ASSUME NEW s \in Thread, NEW place, Goto(s, place)
        PROVE  t = s /\ pc'[t] = place
    BY <1>2, <2>1 DEF Goto
  <2>2. CASE UNCHANGED pc
    BY <1>2, <2>2
  <2>3. ASSUME NEW s \in Thread, DatabaseStep(s)
        PROVE  open[Shared] /\ (pc'[t] = "step" => unfinalized'[Shared])
    BY <1>2, <2>1, <2>2, <2>3 DEF DatabaseStep, Exec, Transaction, ExecInternal, Changes,
       SetFlag, Return, InsertPrepare, InsertUnprepared, InsertStep, GetError, Errmsg, Copy,
       Idle
  <2>4. ASSUME NEW s \in Thread, NEW q \in Query, QueryStep(s, q)
        PROVE  open[Shared] /\ (pc'[t] = "step" => unfinalized'[Shared])
    BY <1>2, <2>1, <2>2, <2>4 DEF QueryStep, NewQuery, MoveToFirst, MoveToFirstStep,
       MoveToNext, DestroyQuery, Idle
  <2> QED
    BY <2>2, <2>3, <2>4 DEF Next, vars, OpenShared, OtherProcess
<1>3. ASSUME NEW t \in Thread, pc'[t] = "step", pc[t] # "step"
      PROVE  pc[t] = "idle"
  <2>1. \E s \in Thread : InsertPrepare(s)
    BY <1>3 DEF Next, vars, OpenShared, OtherProcess, DatabaseStep, Exec, Transaction,
       ExecInternal, Changes, SetFlag, Return, InsertUnprepared, InsertStep, GetError, Errmsg,
       Copy, QueryStep, NewQuery, MoveToFirst, MoveToFirstStep, MoveToNext, DestroyQuery, Goto
  <2> QED
    BY <1>3, <2>1 DEF InsertPrepare, Idle, Goto
<1> QED
  BY <1>1, <1>2, <1>3 DEF CallsOpen

LEMMA IInvInit == Init => IInv
<1> SUFFICES ASSUME Init
             PROVE  IInv
  OBVIOUS
<1>1. AnswerTypeOK
  BY DEF Init, AnswerTypeOK, Place, Text, Message
<1> QED
  BY <1>1, EngineInitInv DEF Init, CallsOpen, IInv

LEMMA IInvInductive == IInv /\ [Next]_vars => IInv'
<1> SUFFICES ASSUME IInv, [Next]_vars
             PROVE  IInv'
  OBVIOUS
<1>1. EngineInv'
  BY DatabaseEngine, QueryEngine, OtherEngine, OpenInv, EngineStutter, SharedAssumption
     DEF Next, OpenShared, vars, IInv
<1>2. AnswerTypeOK'
  <2>1. CASE UNCHANGED <<databaseMutex, isInTransaction, pc, text, answerVars, historyVars>>
    BY <2>1 DEF answerVars, historyVars, IInv, AnswerTypeOK
  <2> QED
    BY <2>1, DatabaseTypes, QueryTypes DEF Next, OpenShared, OtherProcess, vars
<1> QED
  BY <1>1, <1>2, CallsStayOpen DEF IInv

\* Every variable keeps its type, whoever calls what.
THEOREM TypeCorrect == Spec => []TypeOK
<1>1. IInv => TypeOK
  BY DEF IInv, EngineInv, AnswerTypeOK, TypeOK
<1> QED
  BY <1>1, IInvInit, IInvInductive, PTL DEF Spec

-----------------------------------------------------------------------------
(* The number. *)

\* Between the two engine calls of exec, and of insert, the mutex is held.
CountInv ==
  /\ \A t \in Thread : pc[t] \in {"count", "step"} => databaseMutex = t
  /\ CountIsOwn

\* The rows an INSERT wrote are one or none, as its answer says.
LEMMA WrittenRows ==
  ASSUME IInv, NEW t \in Thread, Written(t) \/ NotWritten(t) \/ WriteBlocked(Shared),
         lastCall'.wrote = (disk' \cup pending'[Shared]) \ Visible
  PROVE  /\ Written(t) => \E r \in Row : lastCall'.wrote = {r}
         /\ ~Written(t) => lastCall'.wrote = {}
<1> USE SharedAssumption DEF IInv, EngineInv, EngineTypeOK
<1>1. ASSUME NEW r \in Row, Fresh(r), WriteCommitted(Shared, r) \/ WriteBuffered(Shared, r)
      PROVE  lastCall'.wrote = {r}
  <2>1. r \notin Visible
    BY <1>1 DEF Fresh, Visible
  <2>2. disk' \cup pending'[Shared] = Visible \cup {r}
    BY <1>1 DEF WriteCommitted, WriteBuffered, EndTransaction, Visible
  <2> QED
    BY <2>1, <2>2
<1>2. CASE ~Written(t)
  <2>1. disk' \cup pending'[Shared] \subseteq Visible
    BY <1>2 DEF NotWritten, WriteBlocked, WriteRefused, WriteAborted, WriteRolledBack,
       EndTransaction, Visible
  <2> QED
    BY <1>2, <2>1
<1> QED
  BY <1>1, <1>2 DEF Written, WriteDone

\* exec counts the rows of its own INSERT.
LEMMA CountIsRight ==
  ASSUME IInv, NEW t \in Thread, ExecInternal(t), text'[t] = "INSERT"
  PROVE  nChange' = Cardinality(wrote'[t])
<1> USE DEF IInv, AnswerTypeOK
<1>1. text[t] = "INSERT"
  BY DEF ExecInternal
<1>2. ExecInsert(t) /\ ~Unprepared
  BY <1>1 DEF ExecInternal, ExecKeyword, Unprepared, AnswerOther
<1>3. wrote'[t] = lastCall'.wrote
  BY DEF ExecInternal
<1>4. ASSUME NEW e, NEW n, Answer(t, "INSERT", e, n)
      PROVE  lastCall'.wrote = (disk' \cup pending'[Shared]) \ Visible /\ nChange' = n
  BY <1>4 DEF Answer
<1>5. CASE Written(t)
  <2>1. \E r \in Row : lastCall'.wrote = {r}
    BY <1>4, <1>5, WrittenRows DEF Written
  <2> QED
    BY <1>3, <1>4, <1>5, <2>1, FS_Singleton DEF Written
<1>6. CASE ~Written(t) /\ nChange' = 0 /\ lastCall'.wrote = {}
  BY <1>3, <1>6, FS_EmptySet
<1>7. CASE ~Written(t)
  <2>1. (NotWritten(t) \/ WriteBlocked(Shared)) /\ \E e \in Message : Answer(t, "INSERT", e, 0)
    BY <1>2, <1>7 DEF ExecInsert, NotWritten, Message
  <2> QED
    BY <1>4, <1>6, <1>7, <2>1, WrittenRows
<1> QED
  BY <1>5, <1>7

\* A step in which t itself, if it is counting, does nothing.
LEMMA CountKept ==
  ASSUME IInv, CountInv, NEW s \in Thread, databaseMutex # None => databaseMutex = s,
         \A t \in Thread \ {s} :
           /\ pc'[t] = pc[t] /\ text'[t] = text[t] /\ wrote'[t] = wrote[t],
         pc'[s] \in {"count", "step"} => databaseMutex' = s,
         pc'[s] = "count" /\ text'[s] = "INSERT" => nChange' = Cardinality(wrote'[s])
  PROVE  CountInv'
<1>1. \A t \in Thread \ {s} : pc[t] \notin {"count", "step"}
  BY NoneAssumption DEF CountInv
<1> QED
  BY <1>1 DEF CountInv, CountIsOwn

LEMMA CountStep == IInv /\ CountInv /\ [Next]_vars => CountInv'
<1> SUFFICES ASSUME IInv, CountInv, [Next]_vars
             PROVE  CountInv'
  OBVIOUS
<1> USE DEF IInv, AnswerTypeOK
<1>1. ASSUME NEW s \in Thread, UNCHANGED <<nChange, databaseMutex, wrote>>,
             \A t \in Thread \ {s} : pc'[t] = pc[t] /\ text'[t] = text[t],
             (pc'[s] = pc[s] /\ text'[s] = text[s]) \/ pc'[s] \notin {"count", "step"}
      PROVE  CountInv'
  BY <1>1 DEF CountInv, CountIsOwn
<1>2. CASE UNCHANGED <<nChange, databaseMutex, wrote, pc, text>>
  BY <1>2 DEF CountInv, CountIsOwn
<1>3. ASSUME NEW s \in Thread, Exec(s) \/ (\E x \in transactionKeyWords : Transaction(s, x))
                               \/ SetFlag(s) \/ ErrorStep(s)
      PROVE  CountInv'
  BY <1>1, <1>3 DEF Exec, Transaction, SetFlag, ErrorStep, GetError, Errmsg, Copy, Goto,
     Return, answerVars, historyVars
<1>4. ASSUME NEW s \in Thread, ExecInternal(s)
      PROVE  CountInv'
  <2>1. \A t \in Thread \ {s} :
          pc'[t] = pc[t] /\ text'[t] = text[t] /\ wrote'[t] = wrote[t]
    BY <1>4 DEF ExecInternal, Goto
  <2>2. databaseMutex = None /\ databaseMutex' = s
    BY <1>4 DEF ExecInternal
  <2> QED
    BY <1>4, <2>1, <2>2, CountIsRight, CountKept
<1>5. ASSUME NEW s \in Thread, Changes(s) \/ InsertPrepare(s) \/ InsertStep(s)
      PROVE  CountInv'
  <2>1. /\ databaseMutex # None => databaseMutex = s
        /\ \A t \in Thread \ {s} :
             pc'[t] = pc[t] /\ text'[t] = text[t] /\ wrote'[t] = wrote[t]
        /\ pc'[s] # "count" /\ (pc'[s] = "step" => databaseMutex' = s)
    BY <1>5 DEF CountInv, Changes, InsertPrepare, InsertStep, Goto, Return
  <2> QED
    BY <2>1, CountKept
<1>6. ASSUME NEW s \in Thread, InsertUnprepared(s)
      PROVE  CountInv'
  BY <1>2, <1>6 DEF InsertUnprepared, Unprepared, AnswerOther
<1>7. ASSUME NEW s \in Thread, NEW q \in Query, QueryStep(s, q)
      PROVE  CountInv'
  BY <1>1, <1>2, <1>7 DEF QueryStep, NewQuery, Unprepared, CursorCall, MoveToFirst,
     MoveToFirstStep, MoveToNext, DestroyQuery, AnswerOther, Goto
<1> QED
  BY <1>2, <1>3, <1>4, <1>5, <1>6, <1>7 DEF Next, DatabaseStep, ErrorStep, OpenShared,
     OtherProcess, vars, answerVars, historyVars

\* exec returns the number of rows its own statement added, for any threads,
\* however many inserts and commits of others surround it.
THEOREM CountsAreOwn == Spec => []CountIsOwn
<1>1. Init => CountInv
  BY DEF Init, CountInv, CountIsOwn
<1>2. CountInv => CountIsOwn
  BY DEF CountInv
<1> QED
  BY <1>1, <1>2, CountStep, IInvInit, IInvInductive, PTL DEF Spec

-----------------------------------------------------------------------------
(* The message. *)

\* In a transaction every row reported since its BEGIN is there to commit.
ReportedInv == ~autoCommit[Shared] => reported \subseteq Visible

\* The message kept for the connection is that of the last call.
MessageInv ==
  /\ lastCall.text = "INSERT" => (errMsg = "" <=> lastCall.wrote # {})
  /\ lastCall.text = "COMMIT" /\ errMsg = "" => reported \subseteq disk

\* Who has asked since then has it.
AskedInv == \A t \in Thread : pc[t] = "copy" /\ lastCall.thread = t => pointer[t] = errMsg

ErrorInv == ReportedInv /\ MessageInv /\ AskedInv

\* An INSERT of the MadDatabase, executed or stepped.
LEMMA InsertAnswers ==
  ASSUME IInv, ReportedInv, NEW t \in Thread,
         \/ Written(t) \/ NotWritten(t)
         \/ /\ WriteBlocked(Shared) /\ UNCHANGED reported
            /\ \E n : Answer(t, "INSERT", "code", n)
  PROVE  ReportedInv' /\ MessageInv' /\ lastCall'.thread = t
<1> USE SharedAssumption DEF IInv, EngineInv, EngineTypeOK
<1>1. ASSUME NEW e, NEW n, Answer(t, "INSERT", e, n)
      PROVE  /\ lastCall'.wrote = (disk' \cup pending'[Shared]) \ Visible
             /\ lastCall'.text = "INSERT" /\ lastCall'.thread = t /\ errMsg' = e
  BY <1>1 DEF Answer, SetMessage
<1>2. CASE Written(t)
  <2>1. lastCall'.wrote # {} /\ errMsg' = "" /\ lastCall'.text = "INSERT" /\ lastCall'.thread = t
    BY <1>1, <1>2, WrittenRows DEF Written
  <2>2. reported' = reported \cup ((disk' \cup pending'[Shared]) \ Visible)
    BY <1>1, <1>2 DEF Written
  <2>3. ~autoCommit'[Shared] => ~autoCommit[Shared] /\ Visible \subseteq Visible'
    BY <1>2 DEF Written, WriteDone, WriteCommitted, WriteBuffered, HaltEnds, Visible
  <2> QED
    BY <2>1, <2>2, <2>3 DEF ReportedInv, MessageInv, Visible
<1>3. CASE NotWritten(t) \/ (WriteBlocked(Shared) /\ UNCHANGED reported
                               /\ \E n : Answer(t, "INSERT", "code", n))
  <2>0. ~Written(t)
    <3>1. NotWritten(t) \/ WriteBlocked(Shared)
      BY <1>3
    <3>2. PICK e \in {"code", "text"} : \E n : Answer(t, "INSERT", e, n)
      BY <1>3 DEF NotWritten
    <3>3. errMsg' # ""
      BY <1>1, <3>2
    <3>4. Written(t) => errMsg' = ""
      BY <1>1 DEF Written
    <3> QED
      BY <3>3, <3>4
  <2>1. lastCall'.wrote = {} /\ errMsg' # "" /\ lastCall'.text = "INSERT" /\ lastCall'.thread = t
    <3>1. PICK e \in {"code", "text"} : \E n : Answer(t, "INSERT", e, n)
      BY <1>3 DEF NotWritten
    <3>2. NotWritten(t) \/ WriteBlocked(Shared)
      BY <1>3
    <3> QED
      BY <1>1, <2>0, <3>1, <3>2, WrittenRows
  <2>2. reported' = reported
    BY <1>3 DEF NotWritten
  <2>3. ~autoCommit'[Shared] => ~autoCommit[Shared] /\ Visible' = Visible
    BY <1>3 DEF NotWritten, WriteBlocked, WriteRefused, WriteAborted, WriteRolledBack,
       HaltEnds, Visible
  <2> QED
    BY <2>1, <2>2, <2>3 DEF ReportedInv, MessageInv
<1> QED
  BY <1>2, <1>3

\* BEGIN, COMMIT and ROLLBACK, by their transaction calls.
LEMMA KeywordAnswers ==
  ASSUME IInv, ReportedInv, NEW t \in Thread, NEW s \in Text, ExecKeyword(t, s)
  PROVE  ReportedInv' /\ MessageInv' /\ lastCall'.thread \in {t, None}
<1> USE SharedAssumption DEF IInv, EngineInv, EngineTypeOK
<1>0. ASSUME NEW e, AnswerOther(e)
      PROVE  MessageInv' /\ lastCall'.thread = None
  BY <1>0 DEF AnswerOther, MessageInv
<1>1. CASE s = "BEGIN"
  <2>1. reported' = {}
    BY <1>1 DEF ExecKeyword
  <2>2. \E e : AnswerOther(e)
    BY <1>1 DEF ExecKeyword
  <2> QED
    BY <1>0, <2>1, <2>2 DEF ReportedInv
<1>2. CASE s = "ROLLBACK" /\ ExecRollback(Shared)
  <2>1. autoCommit'[Shared]
    BY <1>2 DEF ExecRollback, EndFails, engineVars
  <2>2. \E e : AnswerOther(e)
    BY <1>2 DEF ExecKeyword
  <2> QED
    BY <1>0, <2>1, <2>2 DEF ReportedInv
<1>3. CASE s = "COMMIT" /\ Commit(t)
  <2>1. reported' = reported
    BY <1>3 DEF ExecKeyword
  <2>2. PICK e \in Message :
          /\ e = "text" <=> autoCommit[Shared] \/ stuck[Shared]
          /\ e = "code" => ~autoCommit'[Shared]
          /\ e = "" => autoCommit'[Shared]
          /\ Answer(t, "COMMIT", e, nChange)
    BY <1>3 DEF Commit
  <2>3. errMsg' = e /\ lastCall'.text = "COMMIT" /\ lastCall'.thread = t
    BY <2>2 DEF Answer, SetMessage
  <2>4. ~autoCommit'[Shared] => ~autoCommit[Shared] /\ Visible' = Visible
    BY <1>3 DEF Commit, ExecCommit, EndFails, engineVars, Visible
  <2>5. e = "" => reported \subseteq disk'
    <3> SUFFICES ASSUME e = ""
                 PROVE  reported \subseteq disk'
      OBVIOUS
    <3>1. ~autoCommit[Shared] /\ ~stuck[Shared] /\ autoCommit'[Shared]
      BY <2>2
    <3>2. disk' = disk \cup pending[Shared]
      BY <1>3, <3>1 DEF Commit, ExecCommit, EndTransaction
    <3> QED
      BY <3>1, <3>2 DEF ReportedInv, Visible
  <2> QED
    BY <2>1, <2>3, <2>4, <2>5 DEF ReportedInv, MessageInv
<1> QED
  BY <1>1, <1>2, <1>3 DEF ExecKeyword

\* A call that leaves rows and mode as they are.
LEMMA OtherAnswers ==
  ASSUME IInv, ReportedInv, NEW e, AnswerOther(e),
         UNCHANGED <<disk, pending, autoCommit, reported>>
  PROVE  ReportedInv' /\ MessageInv' /\ lastCall'.thread = None
BY DEF AnswerOther, ReportedInv, MessageInv, Visible

\* After a call of s nobody else has asked.
LEMMA NobodyAsked ==
  ASSUME IInv, NEW s \in Thread, lastCall'.thread \in {s, None}, pc'[s] # "copy"
  PROVE  AskedInv'
BY NoneAssumption DEF AskedInv

LEMMA ErrorStepInv == IInv /\ ErrorInv /\ [Next]_vars => ErrorInv'
<1> SUFFICES ASSUME IInv, ErrorInv, [Next]_vars
             PROVE  ErrorInv'
  OBVIOUS
<1> USE SharedAssumption DEF IInv, EngineInv, EngineTypeOK, AnswerTypeOK, ErrorInv
\* Nothing that the message is about changes.
<1>1. ASSUME UNCHANGED <<errMsg, lastCall, reported>>, disk \subseteq disk',
             pending'[Shared] = pending[Shared], autoCommit'[Shared] = autoCommit[Shared]
      PROVE  ReportedInv' /\ MessageInv'
  BY <1>1 DEF ReportedInv, MessageInv, Visible
<1>2. CASE UNCHANGED <<engineVars, errMsg, lastCall, reported, pointer, pc>>
  BY <1>1, <1>2 DEF engineVars, AskedInv
<1>3. ASSUME NEW s \in Thread, UNCHANGED <<errMsg, lastCall, reported, engineVars>>,
             \A t \in Thread \ {s} : pc'[t] = pc[t] /\ pointer'[t] = pointer[t],
             pc'[s] = "copy" => pointer'[s] = errMsg
      PROVE  ErrorInv'
  BY <1>1, <1>3 DEF engineVars, AskedInv
<1>4. ASSUME NEW s \in Thread, Exec(s) \/ (\E x \in transactionKeyWords : Transaction(s, x))
                               \/ Changes(s) \/ SetFlag(s) \/ ErrorStep(s)
      PROVE  ErrorInv'
  <2>1. /\ UNCHANGED <<errMsg, lastCall, reported, engineVars>>
        /\ \A t \in Thread \ {s} : pc'[t] = pc[t] /\ pointer'[t] = pointer[t]
    BY <1>4 DEF Exec, Transaction, Changes, SetFlag, ErrorStep, GetError, Errmsg, Copy, Goto,
       Return, answerVars, historyVars
  <2>2. pc'[s] = "copy" => pointer'[s] = errMsg
    BY <1>4 DEF Exec, Transaction, Changes, SetFlag, ErrorStep, GetError, Errmsg, Copy, Goto,
       Return
  <2> QED
    BY <1>3, <2>1, <2>2
<1>5. ASSUME NEW s \in Thread, ExecInternal(s)
      PROVE  ErrorInv'
  <2>1. ReportedInv' /\ MessageInv' /\ lastCall'.thread \in {s, None}
    <3>1. CASE ExecInsert(s)
      BY <3>1, InsertAnswers, OtherAnswers DEF ExecInsert, Unprepared, engineVars
    <3>2. CASE ExecKeyword(s, text[s])
      BY <3>2, KeywordAnswers
    <3> QED
      BY <1>5, <3>1, <3>2 DEF ExecInternal
  <2>2. pc'[s] # "copy"
    BY <1>5 DEF ExecInternal, Goto
  <2> QED
    BY <2>1, <2>2, NobodyAsked
<1>6. ASSUME NEW s \in Thread, InsertStep(s)
      PROVE  ErrorInv'
  <2>1. ReportedInv' /\ MessageInv' /\ lastCall'.thread \in {s, None}
    BY <1>6, InsertAnswers DEF InsertStep
  <2>2. pc'[s] # "copy"
    BY <1>6 DEF InsertStep, Goto
  <2> QED
    BY <2>1, <2>2, NobodyAsked
<1>7. ASSUME NEW s \in Thread, InsertPrepare(s) \/ InsertUnprepared(s)
      PROVE  ErrorInv'
  <2>1. ReportedInv' /\ MessageInv' /\ lastCall'.thread = None
    BY <1>7, OtherAnswers DEF InsertPrepare, InsertUnprepared, Unprepared, engineVars
  <2>2. pc'[s] # "copy"
    BY <1>7 DEF InsertPrepare, InsertUnprepared, Goto, Idle
  <2> QED
    BY <2>1, <2>2, NobodyAsked
<1>8. ASSUME NEW s \in Thread, NEW q \in Query, QueryStep(s, q)
      PROVE  ErrorInv'
  <2>1. ReportedInv' /\ MessageInv' /\ lastCall'.thread = None
    BY <1>8, OtherAnswers DEF QueryStep, NewQuery, Unprepared, CursorCall, MoveToFirst,
       MoveToFirstStep, MoveToNext, DestroyQuery, PrepareQuery, StepQuery, ResetQuery,
       FinalizeQuery, HaltQuery, engineVars
  <2>2. pc'[s] # "copy"
    BY <1>8 DEF QueryStep, NewQuery, MoveToFirst, MoveToFirstStep, MoveToNext,
       DestroyQuery, Goto, Idle
  <2> QED
    BY <2>1, <2>2, NobodyAsked
<1>9. ASSUME NEW d \in Conn \ {Shared}, OtherProcess(d)
      PROVE  ErrorInv'
  <2>1. /\ disk \subseteq disk' /\ pending'[Shared] = pending[Shared]
        /\ autoCommit'[Shared] = autoCommit[Shared]
    BY <1>9 DEF OtherProcess, Open, ExecBegin, ExecCommit, ExecRollback, EndFails, OtherWrites,
       WriteDone, WriteCommitted, WriteBuffered, WriteBlocked, WriteRefused, OtherReads,
       StepQuery, FinalizeQuery, HaltQuery, EndTransaction, engineVars
  <2> QED
    BY <1>1, <1>9, <2>1 DEF OtherProcess, answerVars, historyVars, AskedInv
<1>10. CASE OpenShared
  BY <1>1, <1>10 DEF OpenShared, Open, answerVars, historyVars, AskedInv
<1> QED
  BY <1>2, <1>4, <1>5, <1>6, <1>7, <1>8, <1>9, <1>10 DEF Next, DatabaseStep, ErrorStep,
     vars, answerVars, historyVars

LEMMA ErrorAlways == Spec => [](IInv /\ ErrorInv)
<1>1. Init => ErrorInv
  <2> SUFFICES ASSUME Init
               PROVE  ErrorInv
    OBVIOUS
  <2>1. ReportedInv
    BY SharedAssumption DEF Init, EngineInit, ReportedInv
  <2>2. lastCall.text = "other" /\ \A t \in Thread : pc[t] = "idle"
    BY DEF Init
  <2> QED
    BY <2>1, <2>2 DEF ErrorInv, MessageInv, AskedInv
<1> QED
  BY <1>1, ErrorStepInv, IInvInit, IInvInductive, PTL DEF Spec

\* getError after an INSERT has a message exactly when nothing was written, and
\* it is not one that was overwritten, as long as nobody has called the engine
\* on the connection in between.
THEOREM InsertErrorsTell == Spec => []ErrorTellsInsert
<1>1. IInv /\ ErrorInv => ErrorTellsInsert
  BY DEF IInv, AnswerTypeOK, Message, ErrorInv, MessageInv, AskedInv, ErrorTellsInsert,
     Asks
<1> QED
  BY <1>1, ErrorAlways, PTL

\* The silence of getError after a COMMIT means that every row reported since
\* BEGIN is in the file, as long as nobody has called the engine in between.
THEOREM CommitErrorsTell == Spec => []ErrorTellsCommit
<1>1. IInv /\ ErrorInv => ErrorTellsCommit
  BY DEF IInv, AnswerTypeOK, Message, ErrorInv, MessageInv, AskedInv, ErrorTellsCommit,
     Asks
<1> QED
  BY <1>1, ErrorAlways, PTL
=============================================================================
