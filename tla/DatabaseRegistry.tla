-------------------------- MODULE DatabaseRegistry --------------------------
(***************************************************************************)
(* The registry of open databases (MadDatabaseImpl.cpp, databaseMutex and  *)
(* databaseSet): MadDatabase::openDatabase shares one MadDatabase among    *)
(* the callers that open one path, and ~Impl closes it and removes what    *)
(* has expired.                                                            *)
(*                                                                         *)
(* Dropping a shared_ptr takes no mutex, so a database may expire between  *)
(* any two steps of openDatabase; its destructor then waits for the mutex. *)
(* A file may be removed by anybody.                                       *)
(*                                                                         *)
(* Left out: an allocation that fails in openDatabase.  After make_unique  *)
(* the exception would run ~Impl, which locks databaseMutex, in the thread *)
(* that has it already.                                                    *)
(***************************************************************************)
EXTENDS Naturals

CONSTANTS
  Thread,
  Path,         \* absolute paths of database files
  Inode,        \* the files that can be at a path, one after the other
  Object,       \* MadDatabase objects; a destroyed one is used again
  None,         \* no object, no thread, no file, no path
  Removal       \* "unused": files are removed when no database has them open;
                \* "any": at any time

ASSUME NoneAssumption == None \notin Thread \cup Path \cup Inode \cup Object
ASSUME RemovalAssumption == Removal \in {"unused", "any"}

VARIABLES
  file,         \* file[p]: the file at path p, or None
  databaseSet,  \* databaseSet[p]: the object the weak_ptr of p was made from
  databaseMutex,\* the thread that has it, or None
  at,           \* at[o]: the file that object o has open, or None
  alive,        \* objects constructed and not yet destroyed
  has,          \* has[t]: the object thread t has a shared_ptr to, or None
  path,         \* path[t]: the argument of the last openDatabase of t
  dying,        \* dying[t]: the object thread t is destroying, or None
  pc

vars == <<file, databaseSet, databaseMutex, at, alive, has, path, dying, pc>>

Step == {"idle", "locking", "creating", "registering", "closing"}

\* Mutant: the set has plain pointers, which do not expire.
NeverExpired(o) == FALSE

\* weak_ptr::expired(): no shared_ptr to o is left.
Expired(o) == \A t \in Thread : has[t] # o

Goto(t, step) == pc' = [pc EXCEPT ![t] = step]

-----------------------------------------------------------------------------
(* openDatabase, from taking databaseMutex to giving it back. *)

\* find and expired().  The path is looked up only if the file is there:
\* realpath gives nothing otherwise.
OpenDatabase(t, p) ==
  /\ pc[t] = "idle" /\ has[t] = None
  /\ databaseMutex = None
  /\ databaseMutex' = t
  /\ path' = [path EXCEPT ![t] = p]
  /\ \/ /\ file[p] = None \/ databaseSet[p] = None
        /\ Goto(t, "creating")
        /\ UNCHANGED databaseSet
     \/ /\ file[p] # None /\ databaseSet[p] # None
        /\ Expired(databaseSet[p])
        /\ databaseSet' = [databaseSet EXCEPT ![p] = None]
        /\ Goto(t, "creating")
     \/ /\ file[p] # None /\ databaseSet[p] # None
        /\ ~Expired(databaseSet[p])
        /\ Goto(t, "locking")
        /\ UNCHANGED databaseSet
  /\ UNCHANGED <<file, at, alive, has, dying>>

\* itr->second.lock(): null if the database has expired meanwhile.
OpenLock(t) ==
  /\ pc[t] = "locking"
  /\ LET o == databaseSet[path[t]]
     IN  has' = [has EXCEPT ![t] = IF Expired(o) THEN None ELSE o]
  /\ databaseMutex' = None
  /\ Goto(t, "idle")
  /\ UNCHANGED <<file, databaseSet, at, alive, path, dying>>

\* sqlite3_open makes the file if there is none, or fails.
OpenCreate(t) ==
  /\ pc[t] = "creating"
  /\ \E o \in Object \ alive :
       /\ alive' = alive \cup {o}
       /\ has' = [has EXCEPT ![t] = o]
       /\ \/ /\ file[path[t]] # None
             /\ at' = [at EXCEPT ![o] = file[path[t]]]
             /\ UNCHANGED file
          \/ /\ file[path[t]] = None
             /\ \E i \in Inode :
                  /\ \A p \in Path : file[p] # i
                  /\ \A d \in alive : at[d] # i
                  /\ file' = [file EXCEPT ![path[t]] = i]
                  /\ at' = [at EXCEPT ![o] = i]
          \/ /\ at' = [at EXCEPT ![o] = None]
             /\ UNCHANGED file
  /\ Goto(t, "registering")
  /\ UNCHANGED <<databaseSet, databaseMutex, path, dying>>

\* Mutant: the new database is not registered.
RegisterNothing(t) ==
  /\ pc[t] = "registering"
  /\ databaseMutex' = None
  /\ Goto(t, "idle")
  /\ UNCHANGED <<file, databaseSet, at, alive, has, path, dying>>

\* Mutant: a database without a file is registered too, under no path.
RegisterAlways(t) ==
  /\ pc[t] = "registering"
  /\ databaseSet' =
       IF file[path[t]] # None
         THEN [databaseSet EXCEPT ![path[t]] = IF @ = None THEN has[t] ELSE @]
         ELSE [p \in Path \cup {None} |-> IF p = None THEN has[t] ELSE databaseSet[p]]
  /\ databaseMutex' = None
  /\ Goto(t, "idle")
  /\ UNCHANGED <<file, at, alive, has, path, dying>>

\* Mutant: after an error, sqlite3_open is tried again under databaseMutex.
RegisterRetries(t) ==
  /\ pc[t] = "registering"
  /\ IF at[has[t]] = None
       THEN /\ alive' = alive \ {has[t]}
            /\ has' = [has EXCEPT ![t] = None]
            /\ Goto(t, "creating")
            /\ UNCHANGED <<databaseSet, databaseMutex>>
       ELSE /\ databaseSet' = [databaseSet EXCEPT ![path[t]] = IF @ = None THEN has[t] ELSE @]
            /\ databaseMutex' = None
            /\ Goto(t, "idle")
            /\ UNCHANGED <<alive, has>>
  /\ UNCHANGED <<file, at, path, dying>>

\* emplace puts nothing where the path already has an entry.  The path is looked
\* up twice, and one look stands for both: a file removed between them (which
\* Removal = "unused" excludes) would leave an entry under the empty path, which
\* openDatabase never looks for.
OpenRegister(t) ==
  /\ pc[t] = "registering"
  /\ databaseSet' =
       IF file[path[t]] # None /\ at[has[t]] # None /\ databaseSet[path[t]] = None
         THEN [databaseSet EXCEPT ![path[t]] = has[t]]
         ELSE databaseSet
  /\ databaseMutex' = None
  /\ Goto(t, "idle")
  /\ UNCHANGED <<file, at, alive, has, path, dying>>

-----------------------------------------------------------------------------
(* Letting a database go. *)

\* A shared_ptr goes; the last one takes its thread to ~Impl.
Release(t) ==
  /\ pc[t] = "idle" /\ has[t] # None
  /\ has' = [has EXCEPT ![t] = None]
  /\ \/ /\ \E u \in Thread \ {t} : has[u] = has[t]
        /\ UNCHANGED <<dying, pc>>
     \/ /\ \A u \in Thread \ {t} : has[u] # has[t]
        /\ dying' = [dying EXCEPT ![t] = has[t]]
        /\ Goto(t, "closing")
  /\ UNCHANGED <<file, databaseSet, databaseMutex, at, alive, path>>

\* Mutant: the expired entries stay.
DestroyWithoutErase(t) ==
  /\ pc[t] = "closing"
  /\ databaseMutex = None
  /\ alive' = alive \ {dying[t]}
  /\ at' = [at EXCEPT ![dying[t]] = None]
  /\ dying' = [dying EXCEPT ![t] = None]
  /\ Goto(t, "idle")
  /\ UNCHANGED <<file, databaseSet, databaseMutex, has, path>>

\* Mutant: the living entries go with the expired ones.
DestroyErasesAll(t) ==
  /\ pc[t] = "closing"
  /\ databaseMutex = None
  /\ alive' = alive \ {dying[t]}
  /\ at' = [at EXCEPT ![dying[t]] = None]
  /\ databaseSet' = [p \in Path |-> None]
  /\ dying' = [dying EXCEPT ![t] = None]
  /\ Goto(t, "idle")
  /\ UNCHANGED <<file, databaseMutex, has, path>>

\* ~Impl, under databaseMutex: sqlite3_close, and every expired entry goes.
Destroy(t) ==
  /\ pc[t] = "closing"
  /\ databaseMutex = None
  /\ alive' = alive \ {dying[t]}
  /\ at' = [at EXCEPT ![dying[t]] = None]
  /\ databaseSet' = [p \in Path |->
       IF databaseSet[p] # None /\ Expired(databaseSet[p]) THEN None ELSE databaseSet[p]]
  /\ dying' = [dying EXCEPT ![t] = None]
  /\ Goto(t, "idle")
  /\ UNCHANGED <<file, databaseMutex, has, path>>

\* Somebody removes the file at p.
Remove(p) ==
  /\ file[p] # None
  /\ Removal = "unused" => \A o \in alive : at[o] # file[p]
  /\ file' = [file EXCEPT ![p] = None]
  /\ UNCHANGED <<databaseSet, databaseMutex, at, alive, has, path, dying, pc>>

Init ==
  /\ file = [p \in Path |-> None]
  /\ databaseSet = [p \in Path |-> None]
  /\ databaseMutex = None
  /\ at = [o \in Object |-> None]
  /\ alive = {}
  /\ has = [t \in Thread |-> None]
  /\ path \in [Thread -> Path]
  /\ dying = [t \in Thread |-> None]
  /\ pc = [t \in Thread |-> "idle"]

OpenStep(t) == OpenLock(t) \/ OpenCreate(t) \/ OpenRegister(t)

Next ==
  \/ \E t \in Thread :
       \/ \E p \in Path : OpenDatabase(t, p)
       \/ OpenStep(t)
       \/ Release(t)
       \/ Destroy(t)
  \/ \E p \in Path : Remove(p)

\* A thread that has databaseMutex goes on.
Spec == Init /\ [][Next]_vars /\ \A t \in Thread : WF_vars(OpenStep(t))

-----------------------------------------------------------------------------
(* Properties. *)

TypeOK ==
  /\ file \in [Path -> Inode \cup {None}]
  /\ databaseSet \in [Path -> Object \cup {None}]
  /\ databaseMutex \in Thread \cup {None}
  /\ at \in [Object -> Inode \cup {None}]
  /\ alive \subseteq Object
  /\ has \in [Thread -> Object \cup {None}]
  /\ path \in [Thread -> Path]
  /\ dying \in [Thread -> Object \cup {None}]
  /\ pc \in [Thread -> Step]

\* No two MadDatabase objects that callers have are connections to one file:
\* their isInTransaction flags and locks would not know of each other.
OneDatabasePerFile ==
  \A t, u \in Thread :
    /\ has[t] # None /\ has[u] # None
    /\ at[has[t]] # None /\ at[has[t]] = at[has[u]]
    => has[t] = has[u]

\* An expired entry of databaseSet has a destructor under way that will remove
\* it: the set neither grows without bound nor names a destroyed object.
EntriesAreLive ==
  \A p \in Path : databaseSet[p] # None =>
    /\ databaseSet[p] \in alive
    /\ Expired(databaseSet[p]) => \E t \in Thread : dying[t] = databaseSet[p]

\* What openDatabase gives is the file that is at the path, when there is one.
OpensItsFile ==
  [][\A t \in Thread :
       OpenStep(t) /\ pc'[t] = "idle" /\ has'[t] # None /\ file[path[t]] # None =>
         at[has'[t]] \in {None, file[path[t]]}]_vars

\* openDatabase never gives null.
NeverNull ==
  [][\A t \in Thread : OpenStep(t) /\ pc'[t] = "idle" => has'[t] # None]_vars

-----------------------------------------------------------------------------
(* What the callers see (OpenDatabases).  A call stands at its path until it *)
(* has its database; a database is closed for them when the last one drops   *)
(* it, though its destructor may still wait for databaseMutex.               *)

Wanted == [t \in Thread |-> IF pc[t] \in {"locking", "creating"} THEN path[t] ELSE None]

FileOf == [o \in Object |-> IF Expired(o) THEN None ELSE at[o]]

Opened == INSTANCE OpenDatabases WITH want <- Wanted, of <- FileOf

\* While no file is removed under an open database, a call of openDatabase gives
\* the database that somebody has of the file at the path when it answers, or a
\* new one if nobody has one; it gives null only if everybody dropped theirs.
IsOpenDatabases == Opened!Spec

\* No call keeps databaseMutex for ever, as long as its allocations succeed.
MutexIsFreed == \A t \in Thread : databaseMutex = t ~> databaseMutex = None
=============================================================================
