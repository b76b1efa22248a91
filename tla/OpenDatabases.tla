--------------------------- MODULE OpenDatabases ---------------------------
(***************************************************************************)
(* What MadDatabase::openDatabase promises its callers, without registry,  *)
(* mutex or destructor: a call gives the database that somebody already    *)
(* has of the file, a new one if nobody has one, or nothing if nobody has  *)
(* one any more.  DatabaseRegistry implements this (IsOpenDatabases).      *)
(***************************************************************************)
CONSTANTS Thread, Path, Inode, Object, None

VARIABLES
  file,     \* file[p]: the file at path p, or None
  want,     \* want[t]: the path that t is opening, or None
  has,      \* has[t]: the database of t, or None
  of        \* of[d]: the file of database d, or None

vars == <<file, want, has, of>>

Had(d) == \E t \in Thread : has[t] = d

\* Those who have a database of file i.
Sharers(i) == {t \in Thread : has[t] # None /\ of[has[t]] = i}

Ask(t, p) ==
  /\ want[t] = None /\ has[t] = None
  /\ want' = [want EXCEPT ![t] = p]
  /\ UNCHANGED <<file, has, of>>

Answer(t, d) ==
  /\ want' = [want EXCEPT ![t] = None]
  /\ has' = [has EXCEPT ![t] = d]

\* The database that u has of the file.
Share(t) ==
  /\ file[want[t]] # None
  /\ \E u \in Sharers(file[want[t]]) : Answer(t, has[u])
  /\ UNCHANGED <<file, of>>

\* A database that nobody has, of the file at the path, of a file made
\* there, or of none: then it could not be opened.
Make(t) ==
  \E d \in Object :
    /\ ~Had(d)
    /\ Answer(t, d)
    /\ \/ /\ file[want[t]] # None /\ Sharers(file[want[t]]) = {}
          /\ of' = [of EXCEPT ![d] = file[want[t]]]
          /\ UNCHANGED file
       \/ \E i \in Inode :
            /\ file[want[t]] = None /\ Sharers(i) = {}
            /\ \A p \in Path : file[p] # i
            /\ file' = [file EXCEPT ![want[t]] = i]
            /\ of' = [of EXCEPT ![d] = i]
       \/ UNCHANGED <<file, of>>

\* No database, of a file that is there and that nobody has a database of.
Nothing(t) ==
  /\ file[want[t]] # None /\ Sharers(file[want[t]]) = {}
  /\ Answer(t, None)
  /\ UNCHANGED <<file, of>>

\* The last one to let a database go closes it.
Release(t) ==
  /\ has[t] # None
  /\ has' = [has EXCEPT ![t] = None]
  /\ of' = IF \E u \in Thread \ {t} : has[u] = has[t]
             THEN of
             ELSE [of EXCEPT ![has[t]] = None]
  /\ UNCHANGED <<file, want>>

Remove(p) ==
  /\ file[p] # None /\ Sharers(file[p]) = {}
  /\ file' = [file EXCEPT ![p] = None]
  /\ UNCHANGED <<want, has, of>>

Init ==
  /\ file = [p \in Path |-> None]
  /\ want = [t \in Thread |-> None]
  /\ has = [t \in Thread |-> None]
  /\ of = [d \in Object |-> None]

Next ==
  \/ \E t \in Thread :
       \/ \E p \in Path : Ask(t, p)
       \/ want[t] # None /\ (Share(t) \/ Make(t) \/ Nothing(t))
       \/ Release(t)
  \/ \E p \in Path : Remove(p)

Spec == Init /\ [][Next]_vars
=============================================================================
