# madsqlite-core in TLA+

A verification project for madsqlite-core, a small C++ wrapper of SQLite 3.15.2
(`src/src/main/cpp`). The modules are translated from that code; TLC checks them
on small instances, and TLAPS proves every safety property of the passing runs, and
the three refinements, for every instance.

## Inventory

| Component | Source (under `src/src/main/cpp`) | State | Operations |
|---|---|---|---|
| `MadDatabase` | `MadDatabaseImpl.cpp`, `.hpp`, `api/MadDatabase.hpp` | `db` (a `sqlite3*`), `isInTransaction` | open, `~Impl`, begin/commit/rollback, insert, exec, query, getError |
| open-database registry | `MadDatabaseImpl.cpp` 17-74, `MadUtil.hpp` | `databaseSet` (path to `weak_ptr`), `databaseMutex` | `openDatabase`, the erase loop of `~Impl` |
| `MadQuery` | `MadQueryImpl.cpp`, `.hpp` | `statement`, `stepResult`, `position` | moveToFirst, moveToNext, isAfterLast, column reads, destructor |
| `MadContentValues` | `MadContentValuesImpl.cpp`, `.hpp` | `_keys`, `_dataMap`, `_values`, shared by copies | put, clear, typed reads with conversions |
| JNI bridge | `MadSqliteJni.cpp` | `dbPtrs`, addresses in Java objects | open, close, and one function per call above |
| SQLite engine (vendored) | `sqlite-amalgamation/sqlite3.c` | file, locks, `autoCommit`, statements | the `sqlite3_*` calls the wrapper makes |
| demo, shell, generated docs | `Main.cpp`, `shell.c`, `docs`, `latex` | none | none |

How they interact. Every `MadDatabase` call except `getError` and the transaction
calls runs from beginning to end under one process-wide `databaseMutex`. The
transaction calls test and write `isInTransaction` outside it and take it only for
their `sqlite3_exec`. `MadQuery` takes no mutex of the library's: each of its
engine calls runs under the mutex of the connection (SQLite is built
thread-safe). Connections to one file, in this process or another, meet only
through SQLite's file locks; no busy handler is installed, so a lock that is taken
is `SQLITE_BUSY` at once. The registry gives all callers of one path in a process
one `MadDatabase`, and therefore one `isInTransaction`.

What is hard: the three-step transaction calls of threads that share a database;
results that are only logged (`COMMIT`, `ROLLBACK`, `sqlite3_close`); statements
that are never finalized; rollbacks by the engine that the wrapper is not told of;
cursors that outlive their database; destructors that wait for a mutex while the
path is opened again; a crash in the middle of a transaction.

What makes each component correct:

- `MadDatabase`: what it reports as inserted or committed is in the file and
  stays there; what was rolled back never is; `isInTransaction` agrees with the
  engine; nobody is left with a lock.
- registry: one `MadDatabase` per file; an entry never names a destroyed object;
  `openDatabase` never gives null nor another file.
- `MadQuery`: a read loop sees each row once and ends; its results tell what the
  engine said.
- `MadContentValues`: the three containers are one map from key to last value, also
  when a put runs out of memory half way.
- answers: the number `exec` returns is its own statement's; the message of
  `getError` tells what became of the call before it.
- JNI bridge: an address in Java is that of a live object until it is closed; nothing
  is kept that Java cannot reach.

## Modules

| Module | What it is |
|---|---|
| `SqliteConnection` | the engine: state and operators, one per engine call |
| `MadDatabase` | the wrapper's database and the engine side of its cursors, composed of those operators |
| `TransactionStore` | abstract: a file of rows with transactions; `MadDatabase` implements it |
| `MadQuery` | cursors and their read loop, composed of the engine's operators |
| `CallResults` | what `exec` and `getError` answer to threads that share a database, composed of the engine's operators |
| `DatabaseRegistry` | `openDatabase` and `~Impl` on the registry |
| `OpenDatabases` | abstract: callers who share databases of files; `DatabaseRegistry` implements it |
| `JniBridge` | `dbPtrs`, the addresses in Java and the calls through them, composed of the engine's operators |
| `MadContentValues` | the containers of a `MadContentValues`, and `insert` reading them |
| `KeyValueMap` | abstract: a map from key to value; `MadContentValues` implements it |
| `MadDatabaseMC`, `MadContentValuesMC`, `JniBridgeMC`, `CallResultsMC` | constants and symmetries of the runs |
| `SqliteConnectionProofs` | each engine call keeps the engine's invariant |
| `MadDatabaseProofs`, `MadQueryProofs`, `DatabaseRegistryProofs`, `CallResultsProofs`, `JniBridgeProofs`, `MadContentValuesProofs` | theorems about the module named |
| `TransactionStoreProofs` | `MadDatabase` implements `TransactionStore` |

### SqliteConnection

One database file in rollback-journal mode. `lock[c]` is `eFileLock` of connection
c's file (`EXCLUSIVE_LOCK` exists only inside a commit, which is one step),
`autoCommit` the engine's flag, `pending` the rows a connection has written and not
committed, `phase[c][q]` where the statement of a cursor is. `stuck` stands for
`nVdbeWrite` that never returns to zero: an INSERT that met `SQLITE_BUSY` in
`OP_Transaction` and that nobody resets. `unfinalized` says that the connection has
a statement nobody will finalize, which is all `sqlite3_close` asks.

Each operator is one engine call: `ExecBegin`, `ExecCommit` and `ExecRollback` are
`OP_AutoCommit` and what follows in `sqlite3VdbeHalt`; an INSERT is split by its
outcome (`WriteCommitted`, `WriteBuffered`, `WriteBlocked`, `WriteRefused`,
`WriteAborted`, `WriteRolledBack`); a SELECT has `PrepareQuery`, `ResetQuery`,
`StepQuery`, `FinalizeQuery`. `EngineCrash` ends all processes; the hot journal is
played back by the next reader, so the file is what was committed.

Data is abstracted to rows that are never written twice; the schema, the pager's
cache, WAL mode, savepoints and attached databases are left out: the wrapper
never uses them.

### MadDatabase

`held[c]` is whether a `shared_ptr` to the database of connection c is left, and
`isInTransaction[c]` is its flag. `beginTransaction`, `commitTransaction` and
`rollbackTransaction` are three actions each (`Begin`/`Exec`/`Set`), all other
database calls one, because the code holds `databaseMutex` through them.
`moveToFirst` is two engine calls, so two actions. `Client` says which thread has
which database: a connection may be of a thread, shared by threads, or several may
be of one thread. A connection in another process is just another connection.

`Sql` is the texts given to `exec`: an INSERT, the keywords that the filter knows,
and the same with a semicolon, which it does not. `Fault` is the failures that are
not about locks: a constraint, an error that rolls the transaction back, a bind.

Three variables record what callers were told: `buffered` (rows reported inserted
in the transaction the flag speaks of), `kept` (rows reported inserted and
committed) and `undone` (rows of transactions that were rolled back, by call, by
close or by power loss).

### TransactionStore

Sessions with work that is not in the file yet. `Insert` is an insertion that is
answered with true: of a row nobody was told of, while no other session has work, and
into the file only when no other session reads. `Commit` brings all the work of a
session into the file at once, and not under a reader. `Rollback` is by call, by
closing or by the engine. A crash loses work and keeps the file.

The mapping is in `MadDatabase` (`Store`): a session is a connection that somebody has
a database for; `work` is what it has written (`pending`); `told` is every row some
caller was told of; and a session is `inTransaction` when the engine's auto-commit is
off, or when an insert that met `SQLITE_BUSY` is still an active writer: what comes
after it waits for a commit too, although the wrapper does not know. The abstract
store says nothing of the flag, because the code keeps no promise about it when a
database is shared; `MadDatabase` states those separately.

### MadQuery

`MadDatabase` has the engine side of a cursor, which is what transactions and locks
depend on; `MadQuery` has what the caller of a cursor sees. Each cursor of the
connection `Reader` is read by a thread of its own in the loop that the tests and
the README of the library write: `moveToFirst`, then while not `isAfterLast` the
columns and `moveToNext`. The thread may also leave early, start again, or destroy
the query. `stepResult` is the member of that name (`"UNKNOWN"` is -1; of the errors
a step can return, `"BUSY"` and, for a null statement, `"MISUSE"`); `at` is the
rowid the statement stands on. `position` is written and never read by the code, and
is left out. A step goes to the least rowid above `at` that `Reader` sees (the file
and what it has not committed itself), or to the end. Meanwhile every connection
executes INSERT, BEGIN, COMMIT and ROLLBACK through `exec`, on `Reader` too, from
threads of their own.

`since` (rows that were there from the first step of the scan on), `seen` (rows
whose columns were read) and `quiet` (`Reader` itself has changed nothing since)
record what a scan should give.

### DatabaseRegistry

Threads open and drop databases at some paths. A path has a file or none; a file
made at a path is a new inode. `databaseSet[p]` is the object its `weak_ptr` was
made from, and it is expired when no thread has that object. Taking
`databaseMutex`, `lock()`, construction and `emplace` are separate steps, because
another thread may drop the last `shared_ptr` between any two of them: dropping
takes no mutex until the destructor runs. A thread has at most one database at a
time. Whether `sqlite3_close` succeeds is the business of `MadDatabase`; here a
destroyed object has no file. Hard links and in-memory databases are left out (the
code never registers the latter). `OpenRegister` looks the path up once where the code
does it twice (lines 69 and 71): a file removed in between, which only `Removal = "any"`
allows, would leave an entry under the empty path, which nobody looks for and which the
next destructor takes away when it has expired. An allocation that fails in
`openDatabase` (`make_shared`, `emplace`) is left out: unwinding would run `~Impl`, which
locks `databaseMutex` in the thread that has it. `MutexIsFreed` and `HolderCanGo` are
therefore about calls whose allocations succeed.

### OpenDatabases

What `openDatabase` is for, without registry, mutex or destructor: a caller asks for a
path (`Ask`) and is answered with the database that somebody has of the file that is
there when it is answered (`Share`), with a new one if nobody has one (`Make`), or with
null, which is possible only if nobody has one either (`Nothing`). Whoever lets the last
reference go closes it for everybody at once (`Release`). The mapping is in
`DatabaseRegistry` (`Opened`): a call waits for its answer until it has a database of its
own or has given the mutex back, and a database is closed as soon as nobody has it, however
long its destructor waits for `databaseMutex`. Registering and destroying are steps that
callers do not see.

### CallResults

`errMsg` and `nChange` are the connection's: every engine call on it overwrites the
first, every INSERT that halts the second, whichever thread makes it. Each call of
the library is split where another thread can come between: `exec` into the test of the
flag, `sqlite3_exec`, `sqlite3_changes` and the write of the flag; `insert` into prepare
and step; `getError` into the mutex, `sqlite3_errmsg` and the copy of the string it
points to. The `lock_guard` in `getError` is the whole body of its `if`, so it is gone
before `sqlite3_errmsg` (`MadDatabaseImpl.cpp` 250), and a message kept in memory may
be overwritten before it is copied: `pointer` becomes `"freed"`.

A message is abstracted to none, the constant text of a code, and a text of its own.
`lastCall` is the last engine call on the connection, with the rows it added. Other
connections are of other processes and only do what changes locks. Bind failures, and
transaction keywords that `exec` does not recognise, are the business of `MadDatabase`.

Three things the module shows about the answers need no run. For a text that cannot be
prepared, or that changes no row, `exec` returns the number of an earlier INSERT
(line 163), which is why `CountIsOwn` is about INSERT. A call that returns early (an empty
container, a transaction call that the flag refuses) leaves an older error for
`getError`. And a step of a cursor on another thread changes the message without any
mutex of the library's, which is why both `ErrorTells` properties ask that no call came
between.

### JniBridge

`dbPtrs[o]` is how many pointers to object o the vector has; `nativePtr[j]` is the
address in a Java object, `queries[j]` the cursors it made. An address may be used
again after its object is destroyed, so an old address can be that of another
database. The calls through an address do what they do to the engine; a call through a
dangling one is undefined and is not made. `closeDatabase` erases every equal pointer,
which always destroys the database, so `~Impl` and its `sqlite3_close` are in the same
step. `closeQuery` deletes a `void*`: no destructor runs, and the statement stays.
`Sharing` says whether a path may be opened while it is open. `beginTransaction`,
`commitTransaction` and `rollbackTransaction` are one step each: that the test of the
flag, the statement and the write of the flag can come apart is what `MadDatabase` and
`shared_flag` are about, and no property of the bridge relies on the flag. Two calls that change
`dbPtrs` at once are undefined behaviour (it has no mutex) and have no model; here they
come one after the other, in every order.

### MadContentValues and KeyValueMap

`keys`, `values` and `dataMap` are `_keys`, `_values` and `_dataMap`; copies of a
`MadContentValues` share the `Impl`, as the implicit copy of its `shared_ptr` does. A
put of a new key fills three containers one after the other, and each can throw
`bad_alloc` after the one before it changed (`EmplaceFails`). An index that was entered
for a key that was not stays: `emplace` does not replace it, and the next put of that
key brings the older value back (`MadContentValuesImpl.cpp` 179-187). A put of a known
key can throw too (`AssignFails`): the assignment leaves a mixture of two values, `Torn`,
or it is done and `_keys.emplace` (line 188), which allocates before it looks for the key,
throws with the new value in place. `insert` binds one column for each
key, in an order of its own; of two keys that name one column the engine takes the
first.

`KeyValueMap` says what is promised in spite of that: `doubt` has the values whose put
failed and that may come back, a put that threw for a known key leaves the old value,
the new one or `Torn`, and a row inserted has in each column the value of a key that names
it. The refinement (`KVM`) reads `map` and `doubt` off the containers.

## Runs

| Run | Question | Bounds |
|---|---|---|
| `engine` | are the locks always what the transactions and cursors in progress need, and is a row being read safe from commits? | 1 thread with 2 connections, 1 cursor each, 1 row, the transaction texts of `exec` (of the three refused ones, `BEGIN`), every `Fault` |
| `contention` | the same with two threads, and: does the flag agree with the engine, are rows undone gone, what does a commit, or a refused one, leave? | 2 threads with a connection each, 1 cursor each, 2 rows, INSERT through `exec`, no fault |
| `sole` | is what a single user is told true, through close and power loss? | 1 thread, 1 connection, 2 cursors, 3 rows, INSERT through `exec`, constraint failures |
| `cursor` | does a scan that ends give the rows it should, in order and once, is a loop that has read a row never cut short by an error, and does every read loop end? | 2 connections, 1 cursor, 3 rows |
| `registry` | one database per file, no stale entry, nothing of the registry for callers to see, the mutex given back | 3 threads, 2 paths, 2 inodes, 3 objects; files removed when unused |
| `refused_commit` | does `commitTransaction` end the transaction? No: `COMMIT` may be `SQLITE_BUSY` | as contention |
| `shared_flag` | can two threads share a database? No: the flag is not protected, and a transaction stays open until a later `beginTransaction` and `commitTransaction` or `rollbackTransaction` end it | 2 threads, 1 connection |
| `content_values` | are the three containers one map, puts that fail half way included? | 2 copies, 3 keys of which 2 name one column, 2 values, vectors up to 4 |
| `call_results` | are the count and the message those of the caller's own call? | 2 threads on one connection, another process, 1 cursor, 1 row |
| `jni_bridge` | does closing destroy what it should, is what was not committed gone for good, and do cursors stay usable? | 2 Java objects, 2 addresses, 2 connections, 1 cursor, 1 row, paths shared |
| `shared_handle` | does `dbPtrs` count references? No: one close erases them all | as jni_bridge |
| `null_database` | does `openDatabase` always give a database? No: `expired()` and `lock()` are two steps | as registry, 1 path |

`contention` also checks that `MadDatabase` implements `TransactionStore`
(`IsTransactionStore`), `content_values` that `MadContentValues` implements
`KeyValueMap` (`IsKeyValueMap`), and `registry` that `DatabaseRegistry` implements
`OpenDatabases` (`IsOpenDatabases`). `refused_commit`, `shared_flag`, `shared_handle` and
`null_database` are disagreements between the code and its documentation; PROJECT.json
quotes the line each one contradicts. The others say what holds, and their constants
say under which use of the library.

More disagreements show in the models, without a run of their own:

- After an `insert`, whose statement is never finalized, `sqlite3_close` returns
  `SQLITE_BUSY` and `~Impl` ignores it (`MadDatabaseImpl.cpp` 42): the connection stays
  open, with its lock and its transaction. `MadDatabase.hpp` 95 promises that closing
  rolls back. `LeaksAreBusy` says that a statement is the only thing that can keep a
  connection open; that `~held[c] => ~open[c]` is violated shows it. `ClosedIsUndone` says
  what is left of the promise: the rows never come into the file.
- An `insert` that met `SQLITE_BUSY` stays an active writer (line 240): later ones
  return true and are never committed. With two connections `KeptIsDurable` fails.
- With `"rollback"` in `Fault`, `UndoneIsGone` fails on one connection: the engine has
  rolled the transaction back, the flag does not know, a later insert is committed by
  itself and "rolled back" afterwards.
- With `"bind"` in `Fault`, `KeptIsDurable` fails: `insert` returns -1 from a bool
  function when a value cannot be bound, which is true (line 208).
- With removal of files at any time, `OpensItsFile` fails: `databaseSet` is keyed by
  path, and gives the database of a removed file to who opens the file made in its
  place (line 57).
- `moveToFirst` after a step that met `SQLITE_BUSY` does not step, because
  `sqlite3_reset` returns the old error: it says "empty" of a table with rows that can
  be read again (`MadQueryImpl.cpp` 82). And `isAfterLast` is true at `SQLITE_BUSY`
  with rows unread (line 104), which is why `ScanIsExact` asks for `SQLITE_DONE`;
  `NotCutShort` says that this can only be before the first row.
- `exec` refuses `COMMIT` and lets `COMMIT;` through (line 143): the transaction ends and
  `isInTransaction` stays true. The texts are in the `engine` run, whose locks stay
  right; with them `FlagImpliesTransaction` fails.
- `closeQuery` never finalizes its statement (`MadSqliteJni.cpp` 333): the connection
  cannot be closed any more. `LeaksAreBusy` allows it, and no property forbids it.

Why the bounds are enough: file locks are a relation between a connection and some
other one, so two connections show every refusal, and a third would only add another
holder of a shared lock; one row tells a transaction that wrote from one that did
not, and two tell a row of the transaction from a row before or after it. A cursor
needs three rows to have one before, one at and one after the row it is on when the
table changes. The registry needs a thread that drops, one that destroys and one
that opens, two inodes for a file that was replaced, and two paths for an object
that is used again for another file. The answers need two threads on one connection and
somebody else who can refuse a COMMIT; Java needs two objects with one address, a second
address for an object that is made meanwhile, and a second connection for it to open
while the first is kept by its statement. Three keys, two of one column, give a key
whose index is in doubt next to one that is not and one that shares its column. The
proofs below remove the bounds for the properties they cover.

Symmetry is used in runs without liveness only, and only of sets whose members the
module treats alike: connections together with their threads, the threads of
`call_results`, the Java objects, addresses, connections and cursors of `jni_bridge`,
the containers and values of `content_values`.

Fairness. `MadQuery` assumes weak fairness of each thread in its read loop, one
condition per thread: every call of the loop returns without waiting for anybody
(there is no busy handler), so the thread goes on when it is scheduled. That the
loop ends also needs that finitely many rows are inserted while it runs, which the
finite `Row` stands for: a connection that inserts faster than its own cursor reads
has a loop without end. `MadDatabase`, `CallResults`, `JniBridge` and `MadContentValues`
have none: all their properties are of safety, and nothing in the library makes a
caller go on. `DatabaseRegistry` assumes weak fairness of the
steps of `openDatabase` that hold `databaseMutex` (the thread is running
straight-line code there). Nothing is assumed of who gets the mutex, because
`std::mutex` promises nothing.

## Proofs

Checked by TLAPS for every value of the constants.

- `LocksCorrect`, `TypeCorrect`, `ReadersAreUndisturbed` (`MadDatabaseProofs`).
  The inductive invariant is `IInv`: types, `LockInv` in its six parts, and
  `CallsHold` (a database with a call in progress is open), which is needed because
  the second and third step of a transaction call do not test it.
  `SqliteConnectionProofs` has one lemma per engine call that keeps `EngineInv`;
  the theorem's step goes action by action and cites them.
  `ReadersAreUndisturbed` adds one fact per action: what changes the file has
  excluded every other connection first.
- `FlagIsSound` and `UndoneStaysGone` assume `Sole`: no connection is shared, no
  error undoes a whole transaction, `exec` is given no `COMMIT;` or `ROLLBACK;`.
  `FlagInv` relates the flag, the position in a transaction call and `autoCommit`;
  `UndoInv` adds where the rows of a transaction can be. The run `shared_flag`, and
  `"rollback"` in `Fault`, show that the first two assumptions are needed.
- `CommitsLoseNothing` and `OrphansAreRefused` (`CommitLosesNothing`, `OrphanIsRefused`)
  take any number of connections under `Sole`, which is where `CommitIsFinal` fails.
  `StoredInv` says where the rows reported in a transaction are at each of the three steps
  of `commitTransaction`: waiting under the engine's transaction before `COMMIT`, and
  between `COMMIT` and the write of the flag either all in the file or all still waiting.
  It assumes also that binds do not fail. `OrphanInv` says that a transaction the flag does
  not speak of has a PENDING lock, or is under an insert that met `SQLITE_BUSY`, and that no
  step of another connection changes that lock (`OthersLocks`); it assumes also that `exec`
  is given no `BEGIN;`.
- `ReportsAreDurable`, `NothingIsOrphaned` and `CommitsAreFinal` (`KeptIsDurable`,
  `NoOrphanTransaction`, `CommitIsFinal`) assume `Alone`: `Sole`, one connection, no
  `BEGIN;`, no failed bind. `FreeInv` says that then nothing ever meets `SQLITE_BUSY`
  and a lock is there for work or for a query; `ReportInv` is the converse of `FlagInv`
  and says where reported rows are: in the file, or in the transaction the flag speaks
  of. `refused_commit` shows that a second connection is already too much.
- `ImplementsStore` (`TransactionStoreProofs`) assumes only that binds do not fail. Each
  action of `MadDatabase` is mapped to an action of the store, or to a stutter, by the
  engine calls it makes; that the others are undisturbed is `OneWriter` and
  `ReadersHoldShared` of the engine's invariant. The theorem covers crashes, shared
  databases, refused commits and abandoned inserts.
- `OneDatabase` and `OpenGivesItsFile` (`DatabaseRegistryProofs`) assume that files are
  removed only when unused; without it `OneDatabasePerFile` and `OpensItsFile` fail. The
  inductive invariant `RInv` says that a database somebody has is the one its path leads
  to (`SharedInv`), that entries name live objects of the file at their path
  (`FilesInv`), that an object in destruction is nobody's (`OwnersInv`) and that
  `openDatabase` is under the mutex (`InMutex`). `EntriesNameDatabases` and
  `TypeCorrect` need no assumption: `LInv` is what is left of `RInv` without the files,
  and `DyingInv` adds that an expired entry has its destructor on the way.
- `ImplementsOpenDatabases` assumes the same of files. `SharersRegistered` is the heart of
  it: while no call is between construction and `emplace`, those who have a database of the
  file at a path are those who have the one `databaseSet` names. So an expired entry means
  that nobody has one, and `OpenLock` and `OpenCreate` answer as they should.
- `HolderCanGo` is what `MutexIsFreed` rests on besides fairness, whatever becomes of
  files: a call that has the mutex always has its next step if there are as many objects
  as threads. It is the pigeonhole principle on `OwnedInv` (every object is somebody's or
  in destruction, one to a thread), and says that three objects for three threads keep
  nothing out of `registry`.
- `ScansAreExact` and `CursorTypeCorrect` (`MadQueryProofs`) assume only that rowids
  are positive and that the cursors are of one connection. The inductive invariant
  `QInv` has for each cursor what its thread relies on at each place of the loop
  (`CursorInv`): on a row, every row of the scan below it was read (`OnRow`).
  `ScansAscend` (`RowsAscend`) adds that the rows read are below the one it stands on, so
  that no loop can read one twice: with finitely many rows this is what `LoopTerminates`
  rests on besides fairness. `LoopsAreNotCutShort` (`NotCutShort`) adds `CutInv`, that a scan
  which met an error has read nothing: a cursor on a row is under a SHARED lock
  (`ReadersHoldShared`), so its next step is not refused. That a
  commit of another connection leaves the cursor's view alone is the same fact as
  `ReadersAreUndisturbed`, by the lemmas `FileChange` and `ExcludedReaders`.
- `CountsAreOwn`, `InsertErrorsTell`, `CommitErrorsTell` and `TypeCorrect`
  (`CallResultsProofs`) have no assumption but those of the module. `CountInv` is the
  property with the fact that the mutex is held between `sqlite3_exec` and
  `sqlite3_changes`. `ErrorInv` follows a message from the call to the copy: what the
  connection has after the last call (`MessageInv`), what a thread in `getError` has
  read (`AskedInv`), and that reported rows are still there to commit (`ReportedInv`).
- `NothingElseLeaks`, `LeaksStayBusy`, `QueriesStayLive` and
  `TypeCorrect` (`JniBridgeProofs`) have no assumption; `SoleHandlesAreLive` assumes
  `~Sharing`, and `shared_handle` shows that it is needed. The inductive invariant has
  the engine's `EngineInv`, that the connection of a live object is open and that one
  object at most has the path (`Connected`), and the properties themselves.
  `ClosedStaysUndone` (`ClosedIsUndone`) adds `Waiting`: no row that waits for a commit is in
  the file. Only the calls of a living database commit, and only what its own connection
  wrote (`Apart`); a query's end never does, because the engine's invariant leaves it
  nothing to commit.
- `IndexesCorrect`, `TypeCorrect` and `ImplementsMap` (`MadContentValuesProofs`) have no assumption:
  `IndexesAgree` with the types is inductive, and each call is shown to be one of
  `KeyValueMap` by what it does to `map` and `doubt`.

Model-checked only: `MutexIsFreed` and `LoopTerminates`, which are liveness and out of the
prover's reach. No module has a RECURSIVE operator.

## Not modelled

- The conversions of `getAsInteger`, `getAsReal`, `getAsText` and `getAsBlob`:
  `insert`, their only caller in the library, asks for each value in the type it was put
  with (`MadDatabaseImpl.cpp` 213-238), where they are the identity.
- The values of columns, and the conversions between Java and C++ values: they change no
  state. The index of `dbPtrs` when two Java threads open and close at once, which is
  undefined behaviour with no outcome that a model could list.
- Allocations that fail outside `MadContentValues`; in `openDatabase` the consequence is
  undefined behaviour as well (see DatabaseRegistry).
- A cursor over `query("INSERT ...")`: a statement that writes, stepped outside
  `databaseMutex`. It would change the count under another thread's `exec`.
- In-memory databases, except as objects of the bridge: a connection of one caller with
  no file to share is `MadDatabase` with one connection.
- WAL mode, savepoints, attached databases, schema changes, the pager's cache, and the
  rest of the engine: the wrapper does not use them by itself. `sqlite3.c`, `shell.c` and
  `sqlite3.h` are 215,000 of the repository's 218,000 lines, third-party code that is
  modelled where this library calls it; of the library's own files every function that
  changes state is in a module.
- `Main.cpp` and the tests, which have no state of their own; `shell.c`, which is not
  built; the generated documentation.

## Plan

Everything planned is written: the five components, the three abstract specifications with
their refinements, and theorems for every safety property that the passing runs check.
What could come next: cursors over statements that write; `JniBridge` with the
registry's own steps in place of the one step its calls make now, to relate addresses in
Java to databases that C++ callers in the same process hold.
