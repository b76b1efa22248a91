------------------------------ MODULE MadQuery ------------------------------
(***************************************************************************)
(* MadQuery (MadQueryImpl.cpp): cursors of one connection, each read by a  *)
(* thread of its own in the loop that every caller writes,                 *)
(*   moveToFirst; while not isAfterLast: read the columns, moveToNext      *)
(* while that connection and others go on changing the table.  A query is  *)
(* a scan of the whole table in the order of its rowids.                   *)
(***************************************************************************)
EXTENDS SqliteConnection

CONSTANT
  Reader        \* the connection of the cursors

ASSUME ReaderAssumption == Reader \in Conn
ASSUME RowAssumption == Row \subseteq Nat \ {0}

VARIABLES
  at,           \* at[q]: the row q stands on, 0 before the first
  stepResult,   \* stepResult[q]: MadQuery::Impl::stepResult
  pc,           \* where the thread of q is
  since,        \* the rows that were there when the scan began, and all along
  seen,         \* the rows whose columns were read in this scan
  quiet         \* Reader itself has changed nothing since the scan began

cursorVars == <<at, stepResult, pc, since, seen, quiet>>
vars == <<engineVars, cursorVars>>

\* "unread": query() returned; "rewound": in moveToFirst, after the reset;
\* "test": before isAfterLast(); "next": before moveToNext(); "left": after the loop.
Place == {"idle", "unread", "rewound", "test", "next", "left"}

Result == {"UNKNOWN", "ROW", "DONE", "BUSY", "MISUSE"}

\* What connection c sees of the table.
Visible(c) == disk \cup pending[c]

Rest(q) == {r \in Visible(Reader) : r > at[q]}

\* Mutant: an error is not the end.
AfterDone(q) == stepResult[q] = "DONE"

IsAfterLast(q) == stepResult[q] \notin {"UNKNOWN", "ROW"}

Goto(q, place) == pc' = [pc EXCEPT ![q] = place]

-----------------------------------------------------------------------------
(* sqlite3_step of the statement of q. *)

StepRow(q) ==
  /\ Rest(q) # {}
  /\ StepQuery(Reader, q) /\ phase'[Reader][q] = "running"
  /\ \E r \in Rest(q) :
       /\ \A s \in Rest(q) : r <= s
       /\ at' = [at EXCEPT ![q] = r]
  /\ stepResult' = [stepResult EXCEPT ![q] = "ROW"]

StepDone(q) ==
  /\ Rest(q) = {}
  /\ StepQuery(Reader, q) /\ phase'[Reader][q] = "halted"
  /\ at' = [at EXCEPT ![q] = 0]
  /\ stepResult' = [stepResult EXCEPT ![q] = "DONE"]

StepBusy(q) ==
  /\ StepQuery(Reader, q) /\ phase'[Reader][q] = "blocked"
  /\ stepResult' = [stepResult EXCEPT ![q] = "BUSY"]
  /\ UNCHANGED at

\* A null statement, which query() makes of SQL that cannot be prepared.
StepNull(q) ==
  /\ phase[Reader][q] = "none"
  /\ stepResult' = [stepResult EXCEPT ![q] = "MISUSE"]
  /\ UNCHANGED <<engineVars, at>>

Step(q) ==
  \/ phase[Reader][q] # "none" /\ (StepRow(q) \/ StepDone(q) \/ StepBusy(q))
  \/ StepNull(q)

\* The first step of a scan.
ScanBegins(q) ==
  /\ since' = [since EXCEPT ![q] = Visible(Reader)]
  /\ seen' = [seen EXCEPT ![q] = {}]
  /\ quiet' = [quiet EXCEPT ![q] = TRUE]

-----------------------------------------------------------------------------
(* The cursor. *)

DoQuery(q) ==
  /\ pc[q] = "idle" /\ open[Reader]
  /\ PrepareQuery(Reader, q) \/ UNCHANGED engineVars
  /\ at' = [at EXCEPT ![q] = 0]
  /\ stepResult' = [stepResult EXCEPT ![q] = "UNKNOWN"]
  /\ Goto(q, "unread")
  /\ UNCHANGED <<since, seen, quiet>>

\* Mutant: the statement is not reset.
MoveToFirstUnreset(q) ==
  /\ pc[q] \in {"unread", "left"}
  /\ Goto(q, "rewound")
  /\ UNCHANGED <<engineVars, at, stepResult, since, seen, quiet>>

\* sqlite3_reset: SQLITE_OK, or the error of the last step, at which
\* moveToFirst returns false and leaves stepResult as it is.
MoveToFirst(q) ==
  /\ pc[q] \in {"unread", "left"}
  /\ \/ ResetQuery(Reader, q, "rewound") /\ Goto(q, "rewound")
     \/ ResetQuery(Reader, q, "halted") /\ Goto(q, "test")
     \/ phase[Reader][q] = "none" /\ UNCHANGED engineVars /\ Goto(q, "rewound")
  /\ at' = [at EXCEPT ![q] = 0]
  /\ UNCHANGED <<stepResult, since, seen, quiet>>

MoveToFirstStep(q) ==
  /\ pc[q] = "rewound"
  /\ Step(q)
  /\ ScanBegins(q)
  /\ Goto(q, "test")

\* isAfterLast() is false, and the columns are read.
Read(q) ==
  /\ pc[q] = "test" /\ ~IsAfterLast(q)
  /\ seen' = [seen EXCEPT ![q] = @ \cup {at[q]}]
  /\ Goto(q, "next")
  /\ UNCHANGED <<engineVars, at, stepResult, since, quiet>>

\* Mutant: while the last step gave a row, nothing is stepped.
MoveToNextUnstepped(q) ==
  /\ pc[q] \in {"unread", "next"} /\ ~IsAfterLast(q)
  /\ IF stepResult[q] = "ROW" THEN UNCHANGED <<engineVars, at, stepResult>> ELSE Step(q)
  /\ IF pc[q] = "unread" THEN ScanBegins(q) ELSE UNCHANGED <<since, seen, quiet>>
  /\ Goto(q, "test")

\* A query that was never moved to its first row may be moved to its next.
MoveToNext(q) ==
  /\ pc[q] \in {"unread", "next"} /\ ~IsAfterLast(q)
  /\ Step(q)
  /\ IF pc[q] = "unread" THEN ScanBegins(q) ELSE UNCHANGED <<since, seen, quiet>>
  /\ Goto(q, "test")

LoopEnds(q) ==
  /\ pc[q] = "test" /\ IsAfterLast(q)
  /\ Goto(q, "left")
  /\ UNCHANGED <<engineVars, at, stepResult, since, seen, quiet>>

\* The caller leaves the loop before its end.
Break(q) ==
  /\ pc[q] \in {"test", "next"}
  /\ Goto(q, "left")
  /\ UNCHANGED <<engineVars, at, stepResult, since, seen, quiet>>

\* ~Impl finalizes the statement, if there is one.
Destroy(q) ==
  /\ pc[q] \in {"unread", "left"}
  /\ \/ FinalizeQuery(Reader, q)
     \/ phase[Reader][q] = "none" /\ UNCHANGED engineVars
  /\ Goto(q, "idle")
  /\ UNCHANGED <<at, stepResult, since, seen, quiet>>

-----------------------------------------------------------------------------
(* Everything else that is executed on the connections. *)

\* sqlite3_exec of an INSERT, which finalizes its statement.  A rowid is one
\* more than the largest that the connection sees.
Insert(c) ==
  /\ \/ \E r \in Row : /\ \A s \in Row : s < r <=> s \in Visible(c)
                       /\ WriteCommitted(c, r) \/ WriteBuffered(c, r)
     \/ WriteBlocked(c) \/ WriteRefused(c) \/ WriteAborted(c) \/ WriteRolledBack(c)
  /\ UNCHANGED <<open, stuck, unfinalized, phase>>

Execute(c) ==
  /\ open[c]
  /\ ExecBegin(c) \/ ExecCommit(c) \/ ExecRollback(c) \/ Insert(c)
  /\ LET stays == disk' \cup pending'[Reader] IN
       /\ since' = [q \in Query |->
            IF phase[Reader][q] = "running" THEN since[q] \cap stays ELSE since[q]]
       /\ quiet' = [q \in Query |-> quiet[q] /\ (c = Reader => stays = Visible(Reader))]
  /\ UNCHANGED <<at, stepResult, pc, seen>>

OpenConn(c) == Open(c) /\ UNCHANGED cursorVars

CloseConn(c) ==
  /\ open[c]
  /\ Close(c)
  /\ UNCHANGED cursorVars

Init ==
  /\ EngineInit
  /\ at = [q \in Query |-> 0]
  /\ stepResult = [q \in Query |-> "UNKNOWN"]
  /\ pc = [q \in Query |-> "idle"]
  /\ since = [q \in Query |-> {}]
  /\ seen = [q \in Query |-> {}]
  /\ quiet = [q \in Query |-> TRUE]

LoopStep(q) == MoveToFirstStep(q) \/ Read(q) \/ MoveToNext(q) \/ LoopEnds(q)

Next ==
  \/ \E q \in Query :
       DoQuery(q) \/ MoveToFirst(q) \/ LoopStep(q) \/ Break(q) \/ Destroy(q)
  \/ \E c \in Conn : OpenConn(c) \/ CloseConn(c) \/ Execute(c)

\* A thread in its read loop goes on: nothing in the library makes it wait.
Spec ==
  /\ Init /\ [][Next]_vars
  /\ \A q \in Query : WF_vars(pc[q] # "unread" /\ LoopStep(q))

-----------------------------------------------------------------------------
(* Properties. *)

\* Every variable has its type.
TypeOK ==
  /\ EngineTypeOK
  /\ at \in [Query -> Row \cup {0}]
  /\ stepResult \in [Query -> Result]
  /\ pc \in [Query -> Place]
  /\ since \in [Query -> SUBSET Row]
  /\ seen \in [Query -> SUBSET Row]
  /\ quiet \in [Query -> BOOLEAN]

\* A scan that came to SQLITE_DONE has read every row that was there from its
\* beginning to its end; and nothing else, if its own connection added nothing:
\* no commit of another connection comes between two rows.
ScanIsExact ==
  \A q \in Query :
    pc[q] = "test" /\ stepResult[q] = "DONE" =>
      /\ since[q] \subseteq seen[q]
      /\ quiet[q] => seen[q] = since[q]

\* A scan reads its rows in ascending order and none of them twice, whatever is
\* inserted, committed and rolled back between two of them, on the connection of
\* the cursor too.
RowsAscend ==
  [][\A q \in Query : Read(q) => \A r \in seen[q] : r < at[q]]_vars

\* A read loop that has read a row is left by isAfterLast only after the last one.
\* isAfterLast takes an error for the end of the rows, and SQLITE_BUSY would leave
\* rows unread in silence; but it can only come before the first row, because no
\* commit or rollback on the cursor's own connection gives up the lock under it,
\* and a refused reset comes with the result of a scan that read nothing.
NotCutShort ==
  \A q \in Query :
    pc[q] = "test" /\ IsAfterLast(q) /\ seen[q] # {} => stepResult[q] = "DONE"

\* The read loop ends, whatever the engine answers and the other threads do, if
\* they insert finitely many rows (Row is finite).
LoopTerminates ==
  \A q \in Query : pc[q] \in {"rewound", "test", "next"} ~> pc[q] \in {"left", "idle"}
=============================================================================
