----------------------------- MODULE CallResults -----------------------------
(***************************************************************************)
(* What the callers of one MadDatabase are told: the number exec returns   *)
(* and the message getError returns, both read from state of the           *)
(* connection that every thread's calls overwrite.                         *)
(*                                                                         *)
(* The threads share the MadDatabase of connection Shared.  Every call but *)
(* getError and the cursor's holds databaseMutex while it is between two   *)
(* engine calls; getError only waits for it: the lock_guard is the whole   *)
(* body of its if.  The other connections are those of other processes.    *)
(***************************************************************************)
EXTENDS SqliteConnection, FiniteSets

CONSTANTS
  Thread,
  Shared,       \* the connection of the MadDatabase that the threads share
  None

ASSUME SharedAssumption == Shared \in Conn
ASSUME NoneAssumption == None \notin Thread

VARIABLES
  databaseMutex,    \* the thread that holds it, or None
  isInTransaction,
  pc,               \* where the call of each thread is
  text,             \* text[t]: the statement of the call of t
  errMsg,           \* what sqlite3_errmsg returns for Shared
  nChange,          \* sqlite3.nChange of Shared
  pointer,          \* pointer[t]: what sqlite3_errmsg returned to t
  wrote,            \* wrote[t]: the rows that the statement of exec of t added
  lastCall,         \* the last engine call on Shared: its thread, its statement
                    \* and the rows it added
  reported          \* rows reported inserted since the last BEGIN

answerVars == <<errMsg, nChange, pointer>>
historyVars == <<wrote, lastCall, reported>>
vars == <<engineVars, databaseMutex, isInTransaction, pc, text, answerVars, historyVars>>

\* "call": before databaseMutex; "count": before sqlite3_changes; "set": before
\* the write of the flag; "step": in insert, prepared; "rewound": in moveToFirst;
\* "errmsg": in getError, before sqlite3_errmsg; "copy": before its string is copied.
Place == {"idle", "call", "count", "set", "step", "rewound", "errmsg", "copy"}

transactionKeyWords == {"BEGIN", "COMMIT", "ROLLBACK"}

\* "bad": an INSERT that could not be prepared.
Text == transactionKeyWords \cup {"none", "INSERT", "bad"}

\* getError makes "" of the messages of SQLITE_OK, SQLITE_ROW and SQLITE_DONE.
\* "code" is the constant text of a result code, "text" one kept in sqlite3.pErr.
Message == {"", "code", "text"}

Goto(t, place) == pc' = [pc EXCEPT ![t] = place]

\* The call that executes a statement is over.
Return(t) == Goto(t, "idle") /\ text' = [text EXCEPT ![t] = "none"]

Visible == disk \cup pending[Shared]

Idle(t) == pc[t] = "idle" /\ open[Shared]

-----------------------------------------------------------------------------
(* The message and the count. *)

\* The memory of a message in pErr is used again when there is another one.
SetMessage(e) ==
  /\ errMsg' = e
  /\ pointer' = [s \in Thread |->
       IF e = "text" /\ pointer[s] = "text" THEN "freed" ELSE pointer[s]]

\* An engine call of thread t for s that leaves the message e and the count n.
Answer(t, s, e, n) ==
  /\ SetMessage(e)
  /\ nChange' = n
  /\ lastCall' = [thread |-> t, text |-> s,
                  wrote |-> (disk' \cup pending'[Shared]) \ Visible]

\* An engine call of which no property speaks.
AnswerOther(e) ==
  /\ SetMessage(e)
  /\ lastCall' = [thread |-> None, text |-> "other", wrote |-> {}]
  /\ UNCHANGED nChange

Fresh(r) ==
  /\ r \notin disk \cup reported
  /\ \A c \in Conn : r \notin pending[c]

WriteDone(c) ==
  \E r \in Row : Fresh(r) /\ (WriteCommitted(c, r) \/ WriteBuffered(c, r))

\* sqlite3VdbeHalt has set the count when the INSERT has halted.
Written(t) ==
  /\ WriteDone(Shared)
  /\ Answer(t, "INSERT", "", 1)
  /\ reported' = reported \cup lastCall'.wrote

\* Mutant: the statement is finalized after its error, and that is no error.
NotWrittenSilent(t) ==
  /\ WriteRefused(Shared) \/ WriteAborted(Shared) \/ WriteRolledBack(Shared)
  /\ Answer(t, "INSERT", "", 0)
  /\ UNCHANGED reported

NotWritten(t) ==
  /\ \/ WriteRefused(Shared) /\ Answer(t, "INSERT", "code", 0)
     \/ (WriteAborted(Shared) \/ WriteRolledBack(Shared)) /\ Answer(t, "INSERT", "text", 0)
  /\ UNCHANGED reported

\* A statement that cannot be prepared is not run and counts nothing.
Unprepared ==
  /\ AnswerOther("text")
  /\ UNCHANGED <<engineVars, reported>>

-----------------------------------------------------------------------------
(* exec, and the transaction calls that execute a keyword. *)

\* exec of an INSERT.
Exec(t) ==
  /\ Idle(t)
  /\ text' = [text EXCEPT ![t] = "INSERT"]
  /\ Goto(t, "call")
  /\ UNCHANGED <<engineVars, databaseMutex, isInTransaction, answerVars, historyVars>>

\* beginTransaction, commitTransaction and rollbackTransaction test the flag.
Transaction(t, s) ==
  /\ Idle(t)
  /\ isInTransaction <=> s # "BEGIN"
  /\ text' = [text EXCEPT ![t] = s]
  /\ Goto(t, "call")
  /\ UNCHANGED <<engineVars, databaseMutex, isInTransaction, answerVars, historyVars>>

\* sqlite3_exec, which has the mutex of the connection all the while, so
\* that the statement's message is that of its finalization.
ExecInsert(t) ==
  \/ (Written(t) \/ NotWritten(t)) /\ UNCHANGED <<open, stuck, unfinalized, phase>>
  \/ /\ WriteBlocked(Shared)
     /\ Answer(t, "INSERT", "code", 0)
     /\ UNCHANGED <<open, stuck, unfinalized, phase, reported>>
  \/ Unprepared

\* Mutant: a COMMIT that is refused is rolled back.
CommitOrRollBack(t) ==
  /\ IF CanExclude(Shared) THEN ExecCommit(Shared) ELSE ExecRollback(Shared)
  /\ Answer(t, "COMMIT", "", nChange)

\* COMMIT is an error without a transaction or while a write is unfinished,
\* and SQLITE_BUSY while other connections read.
Commit(t) ==
  /\ ExecCommit(Shared)
  /\ \E e \in Message :
       /\ e = "text" <=> autoCommit[Shared] \/ stuck[Shared]
       /\ e = "code" => ~autoCommit'[Shared]
       /\ e = "" => autoCommit'[Shared]
       /\ Answer(t, "COMMIT", e, nChange)

ExecKeyword(t, s) ==
  /\ \/ /\ s = "BEGIN" /\ ExecBegin(Shared)
        /\ AnswerOther(IF autoCommit[Shared] THEN "" ELSE "text")
     \/ /\ s = "ROLLBACK" /\ ExecRollback(Shared)
        /\ AnswerOther(IF autoCommit[Shared] THEN "text" ELSE "")
     \/ s = "COMMIT" /\ Commit(t)
  /\ reported' = IF s = "BEGIN" THEN {} ELSE reported

\* Mutant: databaseMutex is given back before sqlite3_changes.
ExecInternalUnlocks(t) ==
  /\ pc[t] = "call" /\ databaseMutex = None
  /\ (text[t] = "INSERT" /\ ExecInsert(t)) \/ ExecKeyword(t, text[t])
  /\ wrote' = [wrote EXCEPT ![t] = lastCall'.wrote]
  /\ text' = IF text[t] = "INSERT" /\ lastCall'.text = "other"
               THEN [text EXCEPT ![t] = "bad"] ELSE text
  /\ Goto(t, "count")
  /\ UNCHANGED <<databaseMutex, isInTransaction>>

ExecInternal(t) ==
  /\ pc[t] = "call" /\ databaseMutex = None
  /\ databaseMutex' = t
  /\ (text[t] = "INSERT" /\ ExecInsert(t)) \/ ExecKeyword(t, text[t])
  /\ wrote' = [wrote EXCEPT ![t] = lastCall'.wrote]
  /\ text' = IF text[t] = "INSERT" /\ lastCall'.text = "other"
               THEN [text EXCEPT ![t] = "bad"] ELSE text
  /\ Goto(t, "count")
  /\ UNCHANGED isInTransaction

\* sqlite3_changes takes no mutex of the engine's.
Changes(t) ==
  /\ pc[t] = "count"
  /\ databaseMutex' = None
  /\ IF text[t] \in transactionKeyWords
       THEN Goto(t, "set") /\ UNCHANGED text
       ELSE Return(t)
  /\ wrote' = [wrote EXCEPT ![t] = {}]
  /\ UNCHANGED <<engineVars, isInTransaction, answerVars, lastCall, reported>>

SetFlag(t) ==
  /\ pc[t] = "set"
  /\ isInTransaction' = (text[t] = "BEGIN")
  /\ Return(t)
  /\ UNCHANGED <<engineVars, databaseMutex, answerVars, historyVars>>

-----------------------------------------------------------------------------
(* insert: prepared and stepped under databaseMutex, never finalized. *)

InsertPrepare(t) ==
  /\ Idle(t) /\ databaseMutex = None
  /\ databaseMutex' = t
  /\ AnswerOther("")
  /\ unfinalized' = [unfinalized EXCEPT ![Shared] = TRUE]
  /\ Goto(t, "step")
  /\ UNCHANGED <<disk, open, autoCommit, lock, pending, stuck, phase>>
  /\ UNCHANGED <<isInTransaction, text, wrote, reported>>

InsertUnprepared(t) ==
  /\ Idle(t) /\ databaseMutex = None
  /\ Unprepared
  /\ UNCHANGED <<databaseMutex, isInTransaction, pc, text, wrote>>

\* A step that met SQLITE_BUSY has not halted: nothing is counted.
InsertStep(t) ==
  /\ pc[t] = "step"
  /\ databaseMutex' = None
  /\ \/ (Written(t) \/ NotWritten(t)) /\ UNCHANGED stuck
     \/ /\ WriteBlocked(Shared)
        /\ stuck' = [stuck EXCEPT ![Shared] = TRUE]
        /\ Answer(t, "INSERT", "code", nChange)
        /\ UNCHANGED reported
  /\ Goto(t, "idle")
  /\ UNCHANGED <<open, unfinalized, phase, isInTransaction, text, wrote>>

-----------------------------------------------------------------------------
(* query and its cursors. *)

NewQuery(t, q) ==
  /\ Idle(t) /\ databaseMutex = None
  /\ \/ /\ PrepareQuery(Shared, q)
        /\ AnswerOther("")
        /\ UNCHANGED reported
     \/ Unprepared
  /\ UNCHANGED <<databaseMutex, isInTransaction, pc, text, wrote>>

\* What a step leaves: a row or the end clears a code, not a text.
Stepped(q) ==
  IF phase'[Shared][q] = "blocked" THEN "code"
  ELSE IF errMsg = "text" THEN "text" ELSE ""

\* What a reset or a finalization leaves: the result of a program that has
\* run.  One that was reset before has none.
Ended(q, e) ==
  CASE phase[Shared][q] = "running" -> e = ""
    [] phase[Shared][q] = "blocked" -> e = "code"
    [] phase[Shared][q] = "ready"   -> e = errMsg
    [] OTHER                        -> e \in {"", errMsg}

CursorCall(e) ==
  /\ AnswerOther(e)
  /\ UNCHANGED <<databaseMutex, isInTransaction, text, wrote, reported>>

MoveToFirst(t, q) ==
  /\ Idle(t)
  /\ \E p \in {"rewound", "halted"} :
       /\ ResetQuery(Shared, q, p)
       /\ Goto(t, IF p = "rewound" THEN "rewound" ELSE "idle")
  /\ \E e \in Message : Ended(q, e) /\ CursorCall(e)

MoveToFirstStep(t, q) ==
  /\ pc[t] = "rewound" /\ phase[Shared][q] = "rewound"
  /\ StepQuery(Shared, q)
  /\ Goto(t, "idle")
  /\ CursorCall(Stepped(q))

MoveToNext(t, q) ==
  /\ Idle(t)
  /\ phase[Shared][q] \in {"ready", "running"}
  /\ StepQuery(Shared, q)
  /\ CursorCall(Stepped(q))
  /\ UNCHANGED pc

DestroyQuery(t, q) ==
  /\ Idle(t)
  /\ FinalizeQuery(Shared, q)
  /\ \E e \in Message : Ended(q, e) /\ CursorCall(e)
  /\ UNCHANGED pc

-----------------------------------------------------------------------------
(* getError. *)

\* The mutex is taken and given back before sqlite3_errmsg is called.
GetError(t) ==
  /\ Idle(t) /\ databaseMutex = None
  /\ Goto(t, "errmsg")
  /\ UNCHANGED <<engineVars, databaseMutex, isInTransaction, text, answerVars, historyVars>>

Errmsg(t) ==
  /\ pc[t] = "errmsg"
  /\ pointer' = [pointer EXCEPT ![t] = errMsg]
  /\ Goto(t, "copy")
  /\ UNCHANGED <<engineVars, databaseMutex, isInTransaction, text, errMsg, nChange, historyVars>>

Copy(t) ==
  /\ pc[t] = "copy"
  /\ pointer' = [pointer EXCEPT ![t] = ""]
  /\ Goto(t, "idle")
  /\ UNCHANGED <<engineVars, databaseMutex, isInTransaction, text, errMsg, nChange, historyVars>>

-----------------------------------------------------------------------------
(* The connections of other processes. *)

OtherWrites(d) ==
  /\ WriteDone(d) \/ WriteBlocked(d) \/ WriteRefused(d)
  /\ UNCHANGED <<open, stuck, unfinalized, phase>>

\* A statement is prepared and stepped to its first row.
OtherReads(d, q) ==
  /\ open[d] /\ phase[d][q] = "none"
  /\ StepQuery(d, q) /\ phase'[d][q] = "running"

OtherProcess(d) ==
  /\ \/ Open(d)
     \/ open[d] /\ (ExecBegin(d) \/ ExecCommit(d) \/ ExecRollback(d) \/ OtherWrites(d))
     \/ \E q \in Query : OtherReads(d, q) \/ FinalizeQuery(d, q)
  /\ UNCHANGED <<databaseMutex, isInTransaction, pc, text, answerVars, historyVars>>

OpenShared ==
  /\ Open(Shared)
  /\ UNCHANGED <<databaseMutex, isInTransaction, pc, text, answerVars, historyVars>>

Init ==
  /\ EngineInit
  /\ databaseMutex = None
  /\ isInTransaction = FALSE
  /\ pc = [t \in Thread |-> "idle"]
  /\ text = [t \in Thread |-> "none"]
  /\ errMsg = "" /\ nChange = 0
  /\ pointer = [t \in Thread |-> ""]
  /\ wrote = [t \in Thread |-> {}]
  /\ lastCall = [thread |-> None, text |-> "other", wrote |-> {}]
  /\ reported = {}

DatabaseStep(t) ==
  \/ Exec(t) \/ \E s \in transactionKeyWords : Transaction(t, s)
  \/ ExecInternal(t) \/ Changes(t) \/ SetFlag(t)
  \/ InsertPrepare(t) \/ InsertUnprepared(t) \/ InsertStep(t)
  \/ GetError(t) \/ Errmsg(t) \/ Copy(t)

QueryStep(t, q) ==
  \/ NewQuery(t, q)
  \/ MoveToFirst(t, q) \/ MoveToFirstStep(t, q)
  \/ MoveToNext(t, q)
  \/ DestroyQuery(t, q)

Next ==
  \/ OpenShared
  \/ \E t \in Thread : DatabaseStep(t) \/ \E q \in Query : QueryStep(t, q)
  \/ \E d \in Conn \ {Shared} : OtherProcess(d)

Spec == Init /\ [][Next]_vars

-----------------------------------------------------------------------------
(* Properties. *)

\* Every variable has its type.
TypeOK ==
  /\ EngineTypeOK
  /\ databaseMutex \in Thread \cup {None}
  /\ isInTransaction \in BOOLEAN
  /\ pc \in [Thread -> Place]
  /\ text \in [Thread -> Text]
  /\ errMsg \in Message
  /\ nChange \in {0, 1}
  /\ pointer \in [Thread -> Message \cup {"freed"}]
  /\ wrote \in [Thread -> SUBSET Row]
  /\ lastCall \in
       [thread : Thread \cup {None}, text : {"INSERT", "COMMIT", "other"}, wrote : SUBSET Row]
  /\ reported \subseteq Row

\* The number that exec returns is that of the rows its own INSERT wrote, 0 if it
\* was undone or refused, whatever other threads do between the statement and
\* the reading of the number.
CountIsOwn ==
  \A t \in Thread :
    pc[t] = "count" /\ text[t] = "INSERT" => nChange = Cardinality(wrote[t])

\* Thread t is about to copy its message, and nobody has called the engine on
\* this connection since its own call of statement s.
Asks(t, s) == pc[t] = "copy" /\ lastCall.thread = t /\ lastCall.text = s

\* getError after an INSERT has a message if and only if nothing was written,
\* and not the remains of one.
ErrorTellsInsert ==
  \A t \in Thread :
    Asks(t, "INSERT") =>
      /\ pointer[t] = "" <=> lastCall.wrote # {}
      /\ pointer[t] # "freed"

\* commitTransaction tells its caller nothing, but getError does: without a
\* message, every row reported inserted since the last BEGIN is in the file.
ErrorTellsCommit ==
  \A t \in Thread :
    Asks(t, "COMMIT") /\ pointer[t] = "" => reported \subseteq disk
=============================================================================
