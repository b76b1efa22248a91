----------------------- MODULE DatabaseRegistryProofs -----------------------
(***************************************************************************)
(* For every number of threads, paths, files and objects: one MadDatabase  *)
(* per file, and the one at the path, as long as no file is removed while  *)
(* a database has it open; entries of living databases in any case.        *)
(***************************************************************************)
EXTENDS DatabaseRegistry, FiniteSetTheorems, TLAPS

\* openDatabase is under databaseMutex from its first step to its last.
InMutex ==
  \A t \in Thread : pc[t] \in {"locking", "creating", "registering"} => databaseMutex = t

\* Every entry, and every open database, is for the file at a path.
FilesInv ==
  /\ \A p, q \in Path : file[p] # None /\ file[p] = file[q] => p = q
  /\ \A p \in Path : databaseSet[p] # None =>
       /\ databaseSet[p] \in alive
       /\ file[p] # None /\ at[databaseSet[p]] = file[p]
  /\ \A o \in Object : at[o] # None => o \in alive /\ \E p \in Path : file[p] = at[o]

\* Whoever has an object keeps it alive; whoever destroys one is alone with it.
OwnersInv ==
  \A t \in Thread :
    /\ has[t] # None => has[t] \in alive
    /\ pc[t] = "closing" <=> dying[t] # None
    /\ dying[t] # None =>
         /\ dying[t] \in alive /\ Expired(dying[t])
         /\ \A u \in Thread \ {t} : dying[u] # dying[t]

\* A database somebody has is the one its path leads to, except while the
\* openDatabase that made it has not returned.
SharedInv ==
  \A t \in Thread :
    /\ pc[t] # "registering" /\ has[t] # None =>
         \A p \in Path : file[p] # None /\ file[p] = at[has[t]] => databaseSet[p] = has[t]
    /\ pc[t] \in {"locking", "creating"} => has[t] = None
    /\ pc[t] = "locking" => databaseSet[path[t]] # None
    /\ pc[t] = "creating" => databaseSet[path[t]] = None
    /\ pc[t] = "registering" =>
         /\ has[t] # None
         /\ at[has[t]] # None => /\ file[path[t]] = at[has[t]]
                                 /\ databaseSet[path[t]] = None
         /\ \A u \in Thread \ {t} : has[u] # has[t]
         /\ \A p \in Path : databaseSet[p] # has[t]

RInv == TypeOK /\ InMutex /\ FilesInv /\ OwnersInv /\ SharedInv

LEMMA RInvInit == Init => RInv
BY NoneAssumption DEF Init, RInv, TypeOK, InMutex, FilesInv, OwnersInv, SharedInv,
   Step, Expired

LEMMA OpenDatabaseInv ==
  ASSUME RInv, NEW t \in Thread, NEW p \in Path, OpenDatabase(t, p)
  PROVE  RInv'
<1> USE NoneAssumption DEF RInv, OpenDatabase, Goto
<1>1. TypeOK'
  BY DEF TypeOK, Step
<1>2. InMutex'
  BY DEF InMutex, TypeOK
<1>3. FilesInv'
  BY DEF FilesInv, TypeOK
<1>4. OwnersInv'
  BY DEF OwnersInv, TypeOK, Expired
<1>5. SharedInv'
  <2>1. \A u \in Thread \ {t} : pc'[u] = pc[u] /\ path'[u] = path[u]
    BY DEF TypeOK
  <2>2. /\ pc'[t] \in {"creating", "locking"} /\ path'[t] = p /\ has[t] = None
        /\ pc'[t] = "locking" => databaseSet'[p] # None
        /\ pc'[t] = "creating" => databaseSet'[p] = None
    BY DEF TypeOK, FilesInv
  <2>3. ASSUME NEW u \in Thread \ {t}
        PROVE  /\ pc[u] \notin {"locking", "creating", "registering"}
               /\ has[u] # None => \A q \in Path :
                    file[q] # None /\ file[q] = at[has[u]] => databaseSet'[q] = has[u]
    <3>1. pc[u] \notin {"locking", "creating", "registering"}
      BY DEF InMutex
    <3>2. ASSUME has[u] # None, NEW q \in Path, file[q] # None, file[q] = at[has[u]]
          PROVE  databaseSet'[q] = has[u]
      <4>1. databaseSet[q] = has[u]
        BY <3>1, <3>2 DEF SharedInv
      <4> QED
        BY <4>1 DEF Expired, TypeOK
    <3> QED
      BY <3>1, <3>2
  <2> QED
    BY <2>1, <2>2, <2>3 DEF SharedInv
<1> QED
  BY <1>1, <1>2, <1>3, <1>4, <1>5

LEMMA OpenLockInv ==
  ASSUME RInv, NEW t \in Thread, OpenLock(t)
  PROVE  RInv'
<1> USE NoneAssumption DEF RInv, OpenLock, Goto
<1> DEFINE o == databaseSet[path[t]]
<1>0. o # None /\ o \in alive /\ at[o] = file[path[t]] /\ path[t] \in Path
  BY DEF SharedInv, FilesInv, TypeOK
<1>1. TypeOK'
  BY DEF TypeOK, Step
<1>2. InMutex'
  BY DEF InMutex, TypeOK
<1>3. FilesInv'
  BY DEF FilesInv
<1>4. /\ \A u \in Thread \ {t} : has'[u] = has[u] /\ pc'[u] = pc[u]
      /\ has'[t] \in {None, o} /\ pc'[t] = "idle" /\ has[t] = None
      /\ has'[t] = o => ~Expired(o)
  BY DEF TypeOK, SharedInv
<1>5. OwnersInv'
  <2>1. \A d \in Object : Expired(d) /\ d # None => Expired(d)'
    BY <1>0, <1>4 DEF Expired
  <2> QED
    BY <1>0, <1>4, <2>1 DEF OwnersInv, TypeOK
<1>6. SharedInv'
  <2>1. ASSUME NEW q \in Path, file[q] # None, file[q] = at[o]
        PROVE  databaseSet[q] = o
    BY <1>0, <2>1 DEF FilesInv
  <2>2. \A u \in Thread \ {t} : pc[u] \notin {"locking", "creating", "registering"}
    BY DEF InMutex
  <2> QED
    BY <1>4, <2>1, <2>2 DEF SharedInv
<1> QED
  BY <1>1, <1>2, <1>3, <1>5, <1>6

LEMMA OpenCreateInv ==
  ASSUME RInv, NEW t \in Thread, OpenCreate(t)
  PROVE  RInv'
<1> USE NoneAssumption DEF RInv, Goto
<1>1. PICK o \in Object \ alive :
        /\ alive' = alive \cup {o}
        /\ has' = [has EXCEPT ![t] = o]
        /\ \/ /\ file[path[t]] # None
              /\ at' = [at EXCEPT ![o] = file[path[t]]]
              /\ UNCHANGED file
           \/ /\ file[path[t]] = None
              /\ \E i \in Inode :
                   /\ \A p \in Path : file[p] # i
                   /\ \A d \in alive : at[d] # i
                   /\ file' = [file EXCEPT ![path[t]] = i]
                   /\ at' = [at EXCEPT ![o] = i]
           \/ /\ at' = [at EXCEPT ![o] = None]
              /\ UNCHANGED file
  BY DEF OpenCreate
<1>2. /\ pc[t] = "creating" /\ pc' = [pc EXCEPT ![t] = "registering"]
      /\ UNCHANGED <<databaseSet, databaseMutex, path, dying>>
  BY DEF OpenCreate
<1>3. /\ path[t] \in Path /\ databaseSet[path[t]] = None /\ has[t] = None
      /\ \A u \in Thread : has[u] # o /\ dying[u] # o
      /\ \A p \in Path : databaseSet[p] # o
  BY <1>2 DEF TypeOK, SharedInv, OwnersInv, FilesInv
<1>4. TypeOK'
  BY <1>1, <1>2 DEF TypeOK, Step
<1>5. InMutex'
  BY <1>2 DEF InMutex, TypeOK
<1>6. /\ \A p \in Path : file[p] # None => file'[p] = file[p]
      /\ \A p \in Path \ {path[t]} : file'[p] = file[p]
      /\ \A d \in Object \ {o} : at'[d] = at[d]
      /\ at'[o] \in {None, file'[path[t]]}
      /\ \A p \in Path : file'[p] # None /\ file[p] = None =>
           /\ \A q \in Path : file[q] # file'[p]
           /\ \A d \in alive : at[d] # file'[p]
  BY <1>1, <1>3 DEF TypeOK
<1>7. FilesInv'
  <2>1. \A p, q \in Path : file'[p] # None /\ file'[p] = file'[q] => p = q
    BY <1>3, <1>6 DEF FilesInv
  <2>2. \A p \in Path : databaseSet'[p] # None =>
          /\ databaseSet'[p] \in alive'
          /\ file'[p] # None /\ at'[databaseSet'[p]] = file'[p]
    BY <1>1, <1>2, <1>3, <1>6 DEF FilesInv, TypeOK
  <2>3. \A d \in Object : at'[d] # None => d \in alive' /\ \E p \in Path : file'[p] = at'[d]
    BY <1>1, <1>3, <1>6 DEF FilesInv
  <2> QED
    BY <2>1, <2>2, <2>3 DEF FilesInv
<1>8. OwnersInv'
  BY <1>1, <1>2, <1>3 DEF OwnersInv, Expired, TypeOK
<1>9. SharedInv'
  <2>1. ASSUME NEW u \in Thread \ {t}
        PROVE  /\ pc'[u] = pc[u] /\ has'[u] = has[u]
               /\ pc[u] \notin {"locking", "creating", "registering"}
    BY <1>1, <1>2, <2>1 DEF InMutex, TypeOK
  <2>2. ASSUME NEW u \in Thread \ {t}, has[u] # None, NEW p \in Path,
               file'[p] # None, file'[p] = at'[has[u]]
        PROVE  databaseSet[p] = has[u]
    <3>1. has[u] \in alive /\ has[u] # o /\ has[u] \in Object
      BY <1>1, <1>3, <2>2 DEF OwnersInv, TypeOK
    <3>2. file'[p] = file[p] /\ at'[has[u]] = at[has[u]]
      BY <1>6, <2>2, <3>1
    <3>3. \A q \in Path : file[q] # None /\ file[q] = at[has[u]] => databaseSet[q] = has[u]
      BY <2>1, <2>2 DEF SharedInv
    <3> QED
      BY <2>2, <3>2, <3>3
  <2>3. has'[t] = o /\ pc'[t] = "registering" /\ o # None
    BY <1>1, <1>2 DEF TypeOK
  <2> QED
    BY <1>2, <1>3, <1>6, <2>1, <2>2, <2>3 DEF SharedInv
<1> QED
  BY <1>4, <1>5, <1>7, <1>8, <1>9

LEMMA OpenRegisterInv ==
  ASSUME RInv, NEW t \in Thread, OpenRegister(t)
  PROVE  RInv'
<1> USE NoneAssumption DEF RInv, OpenRegister, Goto
<1> DEFINE o == has[t]
<1>1. /\ path[t] \in Path /\ o # None /\ o \in alive /\ databaseMutex = t
      /\ at[o] # None => file[path[t]] = at[o] /\ databaseSet[path[t]] = None
      /\ \A u \in Thread \ {t} : has[u] # o /\ pc[u] \notin {"locking", "creating", "registering"}
  BY DEF SharedInv, OwnersInv, TypeOK, InMutex
<1>2. TypeOK'
  BY DEF TypeOK, Step
<1>3. InMutex'
  BY DEF InMutex, TypeOK
<1>4. /\ \A p \in Path \ {path[t]} : databaseSet'[p] = databaseSet[p]
      /\ at[o] # None => databaseSet'[path[t]] = o
      /\ at[o] = None => databaseSet'[path[t]] = databaseSet[path[t]]
  BY <1>1 DEF TypeOK
<1>5. FilesInv'
  <2>1. ASSUME NEW p \in Path, databaseSet'[p] # None
        PROVE  databaseSet'[p] \in alive /\ file[p] # None /\ at[databaseSet'[p]] = file[p]
    BY <1>1, <1>4, <2>1 DEF FilesInv
  <2> QED
    BY <2>1 DEF FilesInv
<1>6. OwnersInv'
  BY DEF OwnersInv, TypeOK, Expired
<1>7. SharedInv'
  <2>1. ASSUME NEW p \in Path, file[p] # None, file[p] = at[o]
        PROVE  databaseSet'[p] = o
    BY <1>1, <1>4, <2>1 DEF FilesInv
  <2>2. ASSUME NEW u \in Thread \ {t}, has[u] # None, NEW p \in Path,
               file[p] # None, file[p] = at[has[u]]
        PROVE  databaseSet'[p] = has[u]
    <3>1. databaseSet[p] = has[u]
      BY <1>1, <2>2 DEF SharedInv
    <3> QED
      BY <1>1, <1>4, <2>2, <3>1
  <2>3. \A u \in Thread \ {t} : pc'[u] = pc[u]
    BY DEF TypeOK
  <2>4. pc'[t] = "idle"
    BY DEF TypeOK
  <2> QED
    BY <1>1, <2>1, <2>2, <2>3, <2>4 DEF SharedInv
<1> QED
  BY <1>2, <1>3, <1>5, <1>6, <1>7

LEMMA ReleaseInv ==
  ASSUME RInv, NEW t \in Thread, Release(t)
  PROVE  RInv'
<1> USE NoneAssumption DEF RInv, Release, Goto
<1>1. TypeOK'
  BY DEF TypeOK, Step
<1>2. InMutex'
  BY DEF InMutex, TypeOK
<1>3. FilesInv'
  BY DEF FilesInv
<1>4. /\ pc[t] = "idle" /\ has[t] # None /\ has'[t] = None /\ dying[t] = None
      /\ \A u \in Thread \ {t} : has'[u] = has[u] /\ pc'[u] = pc[u] /\ dying'[u] = dying[u]
      /\ UNCHANGED <<file, databaseSet, databaseMutex, at, alive, path>>
  BY DEF TypeOK, OwnersInv
<1>5. OwnersInv'
  <2>1. \A d \in Object : Expired(d) => Expired(d)'
    BY <1>4 DEF Expired, TypeOK
  <2>2. CASE dying' = dying /\ pc' = pc
    BY <1>4, <2>1, <2>2 DEF OwnersInv, TypeOK
  <2>3. CASE /\ \A u \in Thread \ {t} : has[u] # has[t]
             /\ dying' = [dying EXCEPT ![t] = has[t]]
             /\ pc' = [pc EXCEPT ![t] = "closing"]
    <3>1. PICK o \in Object : o = has[t] /\ o \in alive
      BY <1>4 DEF OwnersInv, TypeOK
    <3>2. /\ dying'[t] = o /\ pc'[t] = "closing"
          /\ \A u \in Thread : has'[u] # o
          /\ \A u \in Thread : dying[u] # o
      BY <1>4, <2>3, <3>1 DEF OwnersInv, Expired, TypeOK
    <3>3. Expired(o)'
      BY <3>2 DEF Expired
    <3> QED
      BY <1>4, <2>1, <3>1, <3>2, <3>3 DEF OwnersInv, TypeOK
  <2> QED
    BY <2>2, <2>3
<1>6. SharedInv'
  <2>1. pc'[t] \in {"idle", "closing"}
    BY <1>4 DEF TypeOK
  <2> QED
    BY <1>4, <2>1 DEF SharedInv
<1> QED
  BY <1>1, <1>2, <1>3, <1>5, <1>6

LEMMA DestroyInv ==
  ASSUME RInv, NEW t \in Thread, Destroy(t)
  PROVE  RInv'
<1> USE NoneAssumption DEF RInv, Destroy, Goto
<1> DEFINE o == dying[t]
<1>1. /\ o # None /\ o \in alive /\ Expired(o)
      /\ \A u \in Thread \ {t} : dying[u] # o
      /\ \A u \in Thread : has[u] # o
      /\ \A u \in Thread : pc[u] \notin {"locking", "creating", "registering"}
  BY DEF OwnersInv, Expired, InMutex, TypeOK
<1>2. TypeOK'
  BY DEF TypeOK, Step
<1>3. InMutex'
  BY DEF InMutex, TypeOK
<1>4. /\ \A p \in Path : databaseSet'[p] # None =>
           databaseSet'[p] = databaseSet[p] /\ ~Expired(databaseSet[p]) /\ databaseSet[p] # o
      /\ \A d \in Object \ {o} : at'[d] = at[d] 
      /\ at'[o] = None /\ alive' = alive \ {o}
  BY <1>1 DEF TypeOK
<1>5. FilesInv'
  <2>1. ASSUME NEW p \in Path, databaseSet'[p] # None
        PROVE  databaseSet'[p] \in alive' /\ file[p] # None /\ at'[databaseSet'[p]] = file[p]
    <3>1. databaseSet[p] \in Object \ {o} /\ databaseSet'[p] = databaseSet[p]
      BY <1>4, <2>1 DEF TypeOK
    <3> QED
      BY <1>4, <2>1, <3>1 DEF FilesInv
  <2>2. \A d \in Object : at'[d] # None => d \in alive' /\ \E p \in Path : file[p] = at'[d]
    BY <1>4 DEF FilesInv
  <2> QED
    BY <2>1, <2>2 DEF FilesInv
<1>6. OwnersInv'
  BY <1>1, <1>4 DEF OwnersInv, TypeOK, Expired
<1>7. SharedInv'
  <2>1. ASSUME NEW u \in Thread, has[u] # None, NEW p \in Path,
               file[p] # None, file[p] = at'[has[u]]
        PROVE  databaseSet'[p] = has[u]
    <3>1. has[u] \in Object \ {o}
      BY <1>1, <2>1 DEF TypeOK
    <3>2. databaseSet[p] = has[u]
      BY <1>1, <1>4, <2>1, <3>1 DEF SharedInv
    <3>3. ~Expired(databaseSet[p])
      BY <3>2 DEF Expired
    <3> QED
      BY <3>2, <3>3
  <2>2. \A u \in Thread : pc'[u] \notin {"locking", "creating", "registering"}
    BY <1>1 DEF TypeOK
  <2> QED
    BY <2>1, <2>2 DEF SharedInv
<1> QED
  BY <1>2, <1>3, <1>5, <1>6, <1>7

LEMMA RemoveInv ==
  ASSUME RInv, Removal = "unused", NEW p \in Path, Remove(p)
  PROVE  RInv'
<1> USE NoneAssumption DEF RInv, Remove
<1>1. /\ file' = [file EXCEPT ![p] = None]
      /\ \A o \in alive : at[o] # file[p]
      /\ UNCHANGED <<databaseSet, databaseMutex, at, alive, has, path, dying, pc>>
      /\ file[p] # None
  OBVIOUS
<1>2. TypeOK'
  BY <1>1 DEF TypeOK
<1>3. InMutex'
  BY <1>1 DEF InMutex
<1>4. \A q \in Path : file'[q] = IF q = p THEN None ELSE file[q]
  BY <1>1 DEF TypeOK
<1>5. FilesInv'
  BY <1>1, <1>4 DEF FilesInv
<1>6. OwnersInv'
  BY <1>1 DEF OwnersInv, Expired
<1>7. SharedInv'
  <2>1. \A u \in Thread : pc[u] = "registering" /\ at[has[u]] # None =>
          file[path[u]] = at[has[u]] /\ path[u] # p
    BY <1>1 DEF SharedInv, OwnersInv
  <2>2. \A u \in Thread : path[u] \in Path
    BY DEF TypeOK
  <2> QED
    BY <1>1, <1>4, <2>1, <2>2 DEF SharedInv
<1> QED
  BY <1>2, <1>3, <1>5, <1>6, <1>7

LEMMA RInvInductive ==
  ASSUME Removal = "unused"
  PROVE  RInv /\ [Next]_vars => RInv'
<1> SUFFICES ASSUME RInv, [Next]_vars
             PROVE  RInv'
  OBVIOUS
<1>1. CASE UNCHANGED vars
  BY <1>1 DEF vars, RInv, TypeOK, InMutex, FilesInv, OwnersInv, SharedInv, Expired
<1> QED
  BY <1>1, OpenDatabaseInv, OpenLockInv, OpenCreateInv, OpenRegisterInv, ReleaseInv,
     DestroyInv, RemoveInv DEF Next, OpenStep

LEMMA RInvAlways ==
  ASSUME Removal = "unused"
  PROVE  Spec => []RInv
BY RInvInit, RInvInductive, PTL DEF Spec

\* While no file is removed under an open database, no two databases that
\* callers have are connections to one file, whatever they open and release
\* and however long a destructor waits for the mutex.
THEOREM OneDatabase ==
  ASSUME Removal = "unused"
  PROVE  Spec => []OneDatabasePerFile
<1>1. RInv => OneDatabasePerFile
  <2> SUFFICES ASSUME RInv, NEW t \in Thread, NEW u \in Thread,
                      has[t] # None, has[u] # None,
                      at[has[t]] # None, at[has[t]] = at[has[u]]
               PROVE  has[t] = has[u]
    BY DEF OneDatabasePerFile
  <2>1. PICK p \in Path : file[p] = at[has[t]]
    BY DEF RInv, TypeOK, FilesInv
  <2>2. ASSUME NEW v \in Thread, pc[v] = "registering", at[has[v]] = file[p]
        PROVE  databaseSet[p] = None /\ path[v] = p
    BY <2>1, <2>2 DEF RInv, TypeOK, FilesInv, SharedInv
  <2>3. ASSUME NEW v \in Thread, pc[v] # "registering", has[v] # None, at[has[v]] = file[p]
        PROVE  databaseSet[p] = has[v]
    BY <2>1, <2>3 DEF RInv, SharedInv
  <2>4. pc[t] = "registering" /\ pc[u] = "registering" => t = u
    BY DEF RInv, InMutex
  <2> QED
    BY <2>1, <2>2, <2>3, <2>4
<1> QED
  BY <1>1, RInvAlways, PTL

\* While no file is removed under an open database, what openDatabase returns
\* is a connection to the file its caller named, however often the path was
\* closed and opened by others while the call was in progress.
THEOREM OpenGivesItsFile ==
  ASSUME Removal = "unused"
  PROVE  Spec => OpensItsFile
<1>1. ASSUME RInv, NEW t \in Thread, OpenStep(t), pc'[t] = "idle", has'[t] # None
      PROVE  at[has'[t]] \in {None, file[path[t]]}
  <2>1. CASE OpenLock(t)
    <3>1. has'[t] = databaseSet[path[t]] /\ path[t] \in Path
      BY <1>1, <2>1 DEF OpenLock, RInv, TypeOK
    <3> QED
      BY <1>1, <3>1 DEF RInv, FilesInv
  <2>2. CASE OpenCreate(t)
    BY <1>1, <2>2 DEF OpenCreate, Goto, RInv, TypeOK
  <2>3. CASE OpenRegister(t)
    BY <1>1, <2>3 DEF OpenRegister, RInv, SharedInv
  <2> QED
    BY <1>1, <2>1, <2>2, <2>3 DEF OpenStep
<1>2. RInv /\ [Next]_vars =>
        [\A t \in Thread :
           OpenStep(t) /\ pc'[t] = "idle" /\ has'[t] # None /\ file[path[t]] # None =>
             at[has'[t]] \in {None, file[path[t]]}]_vars
  BY <1>1
<1> QED
  BY <1>2, RInvAlways, PTL DEF Spec, OpensItsFile

-----------------------------------------------------------------------------
(* What the callers see: the registry implements OpenDatabases. *)

LEMMA InitOpened == Init => Opened!Init
BY NoneAssumption DEF Init, Opened!Init, Wanted, FileOf, Expired

\* The callers' databases are the registered ones: for a file at a path, there
\* is only the one that databaseSet names, unless a call is making one.
LEMMA SharersRegistered ==
  ASSUME RInv, NEW p \in Path, file[p] # None,
         \A u \in Thread : pc[u] # "registering"
  PROVE  Opened!Sharers(file[p]) = {u \in Thread : has[u] # None /\ has[u] = databaseSet[p]}
<1>1. ASSUME NEW u \in Thread, has[u] # None
      PROVE  FileOf[has[u]] = at[has[u]]
  BY <1>1 DEF FileOf, Expired, RInv, TypeOK
<1>2. ASSUME NEW u \in Thread, has[u] # None
      PROVE  at[has[u]] = file[p] <=> has[u] = databaseSet[p]
  BY <1>2 DEF RInv, SharedInv, FilesInv
<1> QED
  BY <1>1, <1>2 DEF Opened!Sharers

LEMMA OpenDatabaseAsks ==
  ASSUME RInv, NEW t \in Thread, NEW p \in Path, OpenDatabase(t, p)
  PROVE  Opened!Ask(t, p)
<1>1. Wanted[t] = None /\ has[t] = None
  BY DEF OpenDatabase, Wanted
<1>2. Wanted' = [Wanted EXCEPT ![t] = p]
  <2>1. pc'[t] \in {"locking", "creating"} /\ path'[t] = p
    BY DEF OpenDatabase, Goto, RInv, TypeOK
  <2>2. \A u \in Thread \ {t} : pc'[u] = pc[u] /\ path'[u] = path[u]
    BY DEF OpenDatabase, Goto, RInv, TypeOK
  <2> QED
    BY <2>1, <2>2 DEF Wanted
<1>3. UNCHANGED <<file, has, FileOf>>
  BY DEF OpenDatabase, FileOf, Expired
<1> QED
  BY <1>1, <1>2, <1>3 DEF Opened!Ask

LEMMA OpenLockAnswers ==
  ASSUME RInv, NEW t \in Thread, OpenLock(t)
  PROVE  Wanted[t] # None /\ (Opened!Share(t) \/ Opened!Nothing(t))
<1> DEFINE o == databaseSet[path[t]]
<1>1. /\ Wanted[t] = path[t] /\ path[t] \in Path /\ path[t] # None
      /\ file[path[t]] # None /\ o # None /\ o \in Object /\ has[t] = None
      /\ \A u \in Thread : pc[u] # "registering"
  BY NoneAssumption DEF OpenLock, Wanted, RInv, TypeOK, InMutex, FilesInv, SharedInv
<1>2. Wanted' = [Wanted EXCEPT ![t] = None]
  BY DEF OpenLock, Goto, Wanted, RInv, TypeOK
<1>3. Opened!Sharers(file[path[t]]) = {u \in Thread : has[u] # None /\ has[u] = o}
  BY <1>1, SharersRegistered
<1>4. FileOf' = FileOf /\ file' = file
  <2>1. CASE Expired(o)
    <3>1. has' = has
      BY <1>1, <2>1 DEF OpenLock, RInv, TypeOK
    <3> QED
      BY <3>1 DEF FileOf, Expired, OpenLock
  <2>2. CASE ~Expired(o)
    <3>1. PICK u \in Thread : has[u] = o
      BY <2>2 DEF Expired
    <3>2. /\ u # t /\ has'[u] = o /\ has'[t] = o
          /\ \A v \in Thread \ {t} : has'[v] = has[v]
      BY <1>1, <2>2, <3>1 DEF OpenLock, RInv, TypeOK
    <3>3. \A d \in Object : (\A v \in Thread : has'[v] # d) <=> (\A v \in Thread : has[v] # d)
      BY <1>1, <3>1, <3>2, NoneAssumption
    <3> QED
      BY <3>3 DEF FileOf, Expired, OpenLock
  <2> QED
    BY <2>1, <2>2
<1>5. CASE Expired(o)
  <2>1. Opened!Sharers(file[path[t]]) = {}
    BY <1>3, <1>5 DEF Expired
  <2>2. has' = [has EXCEPT ![t] = None]
    BY <1>5 DEF OpenLock
  <2> QED
    BY <1>1, <1>2, <1>4, <2>1, <2>2 DEF Opened!Nothing, Opened!Answer
<1>6. CASE ~Expired(o)
  <2>1. PICK u \in Thread : has[u] = o
    BY <1>6 DEF Expired
  <2>2. u \in Opened!Sharers(file[path[t]]) /\ has' = [has EXCEPT ![t] = has[u]]
    BY <1>1, <1>3, <1>6, <2>1 DEF OpenLock
  <2> QED
    BY <1>1, <1>2, <1>4, <2>2 DEF Opened!Share, Opened!Answer
<1> QED
  BY <1>1, <1>5, <1>6

LEMMA OpenCreateMakes ==
  ASSUME RInv, NEW t \in Thread, OpenCreate(t)
  PROVE  Wanted[t] # None /\ Opened!Make(t)
<1>1. PICK o \in Object \ alive :
        /\ alive' = alive \cup {o}
        /\ has' = [has EXCEPT ![t] = o]
        /\ \/ /\ file[path[t]] # None
              /\ at' = [at EXCEPT ![o] = file[path[t]]]
              /\ UNCHANGED file
           \/ /\ file[path[t]] = None
              /\ \E i \in Inode :
                   /\ \A p \in Path : file[p] # i
                   /\ \A d \in alive : at[d] # i
                   /\ file' = [file EXCEPT ![path[t]] = i]
                   /\ at' = [at EXCEPT ![o] = i]
           \/ /\ at' = [at EXCEPT ![o] = None]
              /\ UNCHANGED file
  BY DEF OpenCreate
<1>2. /\ Wanted[t] = path[t] /\ path[t] \in Path /\ path[t] # None
      /\ databaseSet[path[t]] = None /\ has[t] = None
      /\ \A u \in Thread : pc[u] # "registering"
  BY NoneAssumption DEF OpenCreate, Wanted, RInv, TypeOK, InMutex, SharedInv
<1>3. Wanted' = [Wanted EXCEPT ![t] = None]
  BY DEF OpenCreate, Goto, Wanted, RInv, TypeOK
<1>4. /\ \A u \in Thread : has[u] # o
      /\ \A u \in Thread \ {t} : has'[u] = has[u]
      /\ has'[t] = o /\ o # None
  BY <1>1, NoneAssumption DEF RInv, OwnersInv, TypeOK
<1>5. /\ Opened!Answer(t, o) /\ ~Opened!Had(o)
      /\ FileOf[o] = None
  BY <1>1, <1>3, <1>4 DEF Opened!Answer, Opened!Had, FileOf, Expired
<1>6. ASSUME NEW i, at' = [at EXCEPT ![o] = i]
      PROVE  FileOf' = [FileOf EXCEPT ![o] = i]
  <2>1. \A d \in Object \ {o} : Expired(d)' <=> Expired(d)
    <3> SUFFICES ASSUME NEW d \in Object \ {o}
                 PROVE  Expired(d)' <=> Expired(d)
      OBVIOUS
    <3>1. d # None /\ has[t] # d /\ has'[t] # d
      BY <1>2, <1>4, NoneAssumption
    <3> QED
      BY <1>4, <3>1 DEF Expired
  <2>2. ~Expired(o)'
    BY <1>4 DEF Expired
  <2>3. at'[o] = i /\ \A d \in Object \ {o} : at'[d] = at[d]
    BY <1>6 DEF RInv, TypeOK
  <2>4. FileOf' = [d \in Object |-> IF Expired(d)' THEN None ELSE at'[d]]
    BY DEF FileOf
  <2>5. FileOf'[o] = i /\ \A d \in Object \ {o} : FileOf'[d] = FileOf[d]
    BY <2>1, <2>2, <2>3, <2>4 DEF FileOf
  <2> QED
    BY <2>4, <2>5 DEF FileOf
<1>7. ASSUME NEW i \in Inode, \A d \in alive : at[d] # i
      PROVE  Opened!Sharers(i) = {}
  <2>1. ASSUME NEW u \in Thread, has[u] # None
        PROVE  FileOf[has[u]] # i
    BY <1>7, <2>1 DEF FileOf, Expired, RInv, OwnersInv, TypeOK
  <2> QED
    BY <2>1 DEF Opened!Sharers
<1>8. CASE file[path[t]] # None /\ at' = [at EXCEPT ![o] = file[path[t]]] /\ UNCHANGED file
  <2>1. Opened!Sharers(file[path[t]]) = {}
    BY <1>2, <1>8, SharersRegistered
  <2> QED
    BY <1>1, <1>2, <1>5, <1>6, <1>8, <2>1 DEF Opened!Make
<1>9. CASE file[path[t]] = None /\ \E i \in Inode :
             /\ \A p \in Path : file[p] # i
             /\ \A d \in alive : at[d] # i
             /\ file' = [file EXCEPT ![path[t]] = i]
             /\ at' = [at EXCEPT ![o] = i]
  <2>1. PICK i \in Inode :
          /\ \A p \in Path : file[p] # i
          /\ \A d \in alive : at[d] # i
          /\ file' = [file EXCEPT ![path[t]] = i]
          /\ at' = [at EXCEPT ![o] = i]
    BY <1>9
  <2>2. Opened!Sharers(i) = {} /\ FileOf' = [FileOf EXCEPT ![o] = i]
    BY <1>6, <1>7, <2>1
  <2> QED
    BY <1>1, <1>2, <1>5, <1>9, <2>1, <2>2 DEF Opened!Make
<1>10. CASE at' = [at EXCEPT ![o] = None] /\ UNCHANGED file
  <2>1. FileOf' = [FileOf EXCEPT ![o] = None]
    BY <1>6, <1>10
  <2>2. FileOf' = FileOf
    BY <1>5, <2>1 DEF FileOf
  <2> QED
    BY <1>1, <1>2, <1>5, <1>10, <2>2 DEF Opened!Make
<1> QED
  BY <1>1, <1>2, <1>8, <1>9, <1>10

LEMMA ReleaseReleases ==
  ASSUME RInv, NEW t \in Thread, Release(t)
  PROVE  Opened!Release(t)
<1>1. has[t] # None /\ has[t] \in Object /\ has' = [has EXCEPT ![t] = None]
      /\ UNCHANGED <<file, at, path>> /\ pc[t] = "idle"
  BY DEF Release, RInv, TypeOK
<1>2. UNCHANGED Wanted
  <2>1. pc'[t] \in {"idle", "closing"} /\ \A u \in Thread \ {t} : pc'[u] = pc[u]
    BY DEF Release, Goto, RInv, TypeOK
  <2>2. \A u \in Thread : pc'[u] \in {"locking", "creating"} <=> pc[u] \in {"locking", "creating"}
    BY <1>1, <2>1
  <2> QED
    BY <1>1, <2>2 DEF Wanted
<1>3. \A d \in Object \ {has[t]} : FileOf'[d] = FileOf[d]
  <2>1. \A d \in Object \ {has[t]} : Expired(d)' <=> Expired(d)
    BY <1>1, NoneAssumption DEF Expired, RInv, TypeOK
  <2> QED
    BY <1>1, <2>1 DEF FileOf
<1>4. FileOf'[has[t]] =
        IF \E u \in Thread \ {t} : has[u] = has[t] THEN FileOf[has[t]] ELSE None
  <2>1. ~Expired(has[t])
    BY DEF Expired
  <2>2. \A u \in Thread \ {t} : has'[u] = has[u]
    BY <1>1 DEF RInv, TypeOK
  <2>3. has'[t] = None
    BY <1>1 DEF RInv, TypeOK
  <2>4. PICK o \in Object : o = has[t]
    BY <1>1
  <2>5. Expired(o)' <=> ~ \E u \in Thread \ {t} : has[u] = o
    BY <1>1, <2>2, <2>3, <2>4 DEF Expired
  <2>6. FileOf'[o] = IF Expired(o)' THEN None ELSE at[o]
    BY <1>1 DEF FileOf
  <2>7. FileOf[o] = at[o]
    BY <2>1, <2>4 DEF FileOf
  <2> QED
    BY <2>4, <2>5, <2>6, <2>7
<1>5. FileOf' = IF \E u \in Thread \ {t} : has[u] = has[t]
                  THEN FileOf
                  ELSE [FileOf EXCEPT ![has[t]] = None]
  <2>1. FileOf' = [d \in Object |-> FileOf'[d]] /\ FileOf = [d \in Object |-> FileOf[d]]
    BY DEF FileOf
  <2> QED
    BY <1>1, <1>3, <1>4, <2>1
<1> QED
  BY <1>1, <1>2, <1>5 DEF Opened!Release

\* Registering a database, and closing it, are steps the callers do not see.
LEMMA OpenRegisterUnseen ==
  ASSUME RInv, NEW t \in Thread, OpenRegister(t)
  PROVE  UNCHANGED Opened!vars
<1>1. UNCHANGED Wanted
  <2>1. pc[t] = "registering" /\ pc'[t] = "idle" /\ path' = path
        /\ \A u \in Thread \ {t} : pc'[u] = pc[u]
    BY DEF OpenRegister, Goto, RInv, TypeOK
  <2>2. \A u \in Thread : pc'[u] \in {"locking", "creating"} <=> pc[u] \in {"locking", "creating"}
    BY <2>1
  <2> QED
    BY <2>1, <2>2 DEF Wanted
<1>2. UNCHANGED FileOf
  BY DEF OpenRegister, FileOf, Expired
<1> QED
  BY <1>1, <1>2 DEF OpenRegister, Opened!vars

LEMMA DestroyUnseen ==
  ASSUME RInv, NEW t \in Thread, Destroy(t)
  PROVE  UNCHANGED Opened!vars
<1>1. UNCHANGED Wanted
  <2>1. pc[t] = "closing" /\ pc'[t] = "idle" /\ path' = path
        /\ \A u \in Thread \ {t} : pc'[u] = pc[u]
    BY DEF Destroy, Goto, RInv, TypeOK
  <2>2. \A u \in Thread : pc'[u] \in {"locking", "creating"} <=> pc[u] \in {"locking", "creating"}
    BY <2>1
  <2> QED
    BY <2>1, <2>2 DEF Wanted
<1>2. UNCHANGED FileOf
  <2>1. PICK o \in Object : o = dying[t]
    BY DEF Destroy, RInv, OwnersInv, TypeOK
  <2>2. Expired(o) /\ has' = has
    BY <2>1 DEF Destroy, RInv, OwnersInv
  <2>3. \A d \in Object \ {o} : at'[d] = at[d]
    BY <2>1 DEF Destroy, RInv, TypeOK
  <2> QED
    BY <2>2, <2>3 DEF FileOf, Expired
<1> QED
  BY <1>1, <1>2 DEF Destroy, Opened!vars

LEMMA RemoveRemoves ==
  ASSUME RInv, Removal = "unused", NEW p \in Path, Remove(p)
  PROVE  Opened!Remove(p)
<1>1. Opened!Sharers(file[p]) = {}
  <2>1. ASSUME NEW u \in Thread, has[u] # None
        PROVE  FileOf[has[u]] # file[p]
    BY <2>1 DEF Remove, FileOf, Expired, RInv, OwnersInv, TypeOK
  <2> QED
    BY <2>1 DEF Opened!Sharers
<1>2. UNCHANGED <<Wanted, has, FileOf>>
  BY DEF Remove, Wanted, FileOf, Expired
<1> QED
  BY <1>1, <1>2 DEF Remove, Opened!Remove

LEMMA StepOpened ==
  ASSUME Removal = "unused", RInv, [Next]_vars
  PROVE  [Opened!Next]_(Opened!vars)
<1>1. ASSUME NEW t \in Thread, NEW p \in Path, OpenDatabase(t, p)
      PROVE  Opened!Next
  BY <1>1, OpenDatabaseAsks DEF Opened!Next
<1>2. ASSUME NEW t \in Thread, OpenLock(t)
      PROVE  Opened!Next
  BY <1>2, OpenLockAnswers DEF Opened!Next
<1>3. ASSUME NEW t \in Thread, OpenCreate(t)
      PROVE  Opened!Next
  BY <1>3, OpenCreateMakes DEF Opened!Next
<1>4. ASSUME NEW t \in Thread, Release(t)
      PROVE  Opened!Next
  BY <1>4, ReleaseReleases DEF Opened!Next
<1>5. ASSUME NEW p \in Path, Remove(p)
      PROVE  Opened!Next
  BY <1>5, RemoveRemoves DEF Opened!Next
<1>6. CASE UNCHANGED vars
  BY <1>6 DEF vars, Opened!vars, Wanted, FileOf, Expired
<1> QED
  BY <1>1, <1>2, <1>3, <1>4, <1>5, <1>6, OpenRegisterUnseen, DestroyUnseen
     DEF Next, OpenStep

\* The registry, with its weak pointers and its late destructors, gives callers
\* what OpenDatabases promises, while no file is removed under an open database:
\* null, say, only for a file that everybody let go during the call.
THEOREM ImplementsOpenDatabases ==
  ASSUME Removal = "unused"
  PROVE  Spec => IsOpenDatabases
BY InitOpened, RInvAlways, StepOpened, PTL DEF Spec, IsOpenDatabases, Opened!Spec

-----------------------------------------------------------------------------
(* Entries and destructors, whatever becomes of the files. *)

\* Every variable keeps its type, files removed at any time included.
THEOREM TypeCorrect == Spec => []TypeOK
<1>1. Init => TypeOK
  BY DEF Init, TypeOK, Step
<1>2. TypeOK /\ [Next]_vars => TypeOK'
  <2> SUFFICES ASSUME TypeOK, [Next]_vars
               PROVE  TypeOK'
    OBVIOUS
  <2>1. ASSUME NEW t \in Thread, NEW p \in Path, OpenDatabase(t, p)
        PROVE  TypeOK'
    BY <2>1 DEF TypeOK, OpenDatabase, Goto, Step
  <2>2. ASSUME NEW t \in Thread, OpenLock(t)
        PROVE  TypeOK'
    BY <2>2 DEF TypeOK, OpenLock, Goto, Step
  <2>3. ASSUME NEW t \in Thread, OpenCreate(t)
        PROVE  TypeOK'
    BY <2>3 DEF TypeOK, OpenCreate, Goto, Step
  <2>4. ASSUME NEW t \in Thread, OpenRegister(t)
        PROVE  TypeOK'
    BY <2>4 DEF TypeOK, OpenRegister, Goto, Step
  <2>5. ASSUME NEW t \in Thread, Release(t) \/ Destroy(t)
        PROVE  TypeOK'
    BY <2>5 DEF TypeOK, Release, Destroy, Goto, Step
  <2>6. ASSUME NEW p \in Path, Remove(p)
        PROVE  TypeOK'
    BY <2>6 DEF TypeOK, Remove
  <2>7. CASE UNCHANGED vars
    BY <2>7 DEF vars, TypeOK
  <2> QED
    BY <2>1, <2>2, <2>3, <2>4, <2>5, <2>6, <2>7 DEF Next, OpenStep
<1> QED
  BY <1>1, <1>2, PTL DEF Spec

\* Entries are of objects that exist.
EntriesInv == \A p \in Path : databaseSet[p] # None => databaseSet[p] \in alive

\* A call has nothing of its own until it has made or found a database.
CallInv ==
  \A t \in Thread :
    /\ pc[t] \in {"locking", "creating"} => has[t] = None
    /\ pc[t] = "locking" => databaseSet[path[t]] # None
    /\ pc[t] = "registering" => has[t] # None

LInv == TypeOK /\ InMutex /\ EntriesInv /\ OwnersInv /\ CallInv

LEMMA LInvInit == Init => LInv
BY NoneAssumption DEF Init, LInv, TypeOK, InMutex, EntriesInv, OwnersInv, CallInv,
   Step, Expired

LEMMA OpenEntries ==
  ASSUME LInv, TypeOK', NEW t \in Thread, NEW p \in Path, OpenDatabase(t, p)
  PROVE  LInv'
<1> USE NoneAssumption DEF LInv, OpenDatabase, Goto
<1>1. InMutex'
  BY DEF InMutex, TypeOK
<1>2. EntriesInv'
  BY DEF EntriesInv, TypeOK
<1>3. OwnersInv'
  BY DEF OwnersInv, TypeOK, Expired
<1>4. CallInv'
  <2>1. /\ pc'[t] \in {"creating", "locking"} /\ path'[t] = p /\ has[t] = None
        /\ pc'[t] = "locking" => databaseSet'[p] # None
    BY DEF TypeOK
  <2>2. \A u \in Thread \ {t} : /\ pc[u] \notin {"locking", "creating", "registering"}
                                /\ pc'[u] = pc[u]
    BY DEF InMutex, TypeOK
  <2> QED
    BY <2>1, <2>2 DEF CallInv
<1> QED
  BY <1>1, <1>2, <1>3, <1>4

LEMMA LockEntries ==
  ASSUME LInv, TypeOK', NEW t \in Thread, OpenLock(t)
  PROVE  LInv'
<1> USE NoneAssumption DEF LInv, OpenLock, Goto
<1> DEFINE o == databaseSet[path[t]]
<1>0. o # None /\ o \in alive /\ path[t] \in Path
  BY DEF CallInv, EntriesInv, TypeOK
<1>1. InMutex'
  BY DEF InMutex, TypeOK
<1>2. EntriesInv'
  BY DEF EntriesInv
<1>3. /\ \A u \in Thread \ {t} : has'[u] = has[u] /\ pc'[u] = pc[u]
      /\ has'[t] \in {None, o} /\ pc'[t] = "idle" /\ has[t] = None
      /\ has'[t] = o => ~Expired(o)
  BY DEF TypeOK, CallInv
<1>4. OwnersInv'
  <2>1. \A d \in Object : Expired(d) /\ d # None => \A u \in Thread : has'[u] # d
    BY <1>0, <1>3 DEF Expired
  <2> QED
    BY <1>0, <1>3, <2>1 DEF OwnersInv, TypeOK, Expired
<1>5. CallInv'
  BY <1>3 DEF CallInv
<1> QED
  BY <1>1, <1>2, <1>4, <1>5

LEMMA CreateEntries ==
  ASSUME LInv, TypeOK', NEW t \in Thread, OpenCreate(t)
  PROVE  LInv'
<1> USE NoneAssumption DEF LInv, Goto
<1>1. PICK o \in Object \ alive : alive' = alive \cup {o} /\ has' = [has EXCEPT ![t] = o]
  BY DEF OpenCreate
<1>2. /\ pc[t] = "creating" /\ pc' = [pc EXCEPT ![t] = "registering"]
      /\ UNCHANGED <<databaseSet, databaseMutex, path, dying>>
  BY DEF OpenCreate
<1>3. InMutex'
  BY <1>2 DEF InMutex, TypeOK
<1>4. EntriesInv'
  BY <1>1, <1>2 DEF EntriesInv
<1>5. OwnersInv'
  BY <1>1, <1>2 DEF OwnersInv, TypeOK, Expired
<1>6. CallInv'
  BY <1>1, <1>2 DEF CallInv, TypeOK
<1> QED
  BY <1>3, <1>4, <1>5, <1>6

LEMMA RegisterEntries ==
  ASSUME LInv, TypeOK', NEW t \in Thread, OpenRegister(t)
  PROVE  LInv'
<1> USE NoneAssumption DEF LInv, OpenRegister, Goto
<1>1. has[t] \in alive /\ path[t] \in Path
  BY DEF CallInv, OwnersInv, TypeOK
<1>2. InMutex'
  BY DEF InMutex, TypeOK
<1>3. EntriesInv'
  BY <1>1 DEF EntriesInv, TypeOK
<1>4. OwnersInv'
  BY DEF OwnersInv, TypeOK, Expired
<1>5. CallInv'
  <2>1. \A u \in Thread \ {t} : /\ pc[u] \notin {"locking", "creating", "registering"}
                                /\ pc'[u] = pc[u]
    BY DEF InMutex, TypeOK
  <2>2. pc'[t] = "idle"
    BY DEF TypeOK
  <2> QED
    BY <2>1, <2>2 DEF CallInv
<1> QED
  BY <1>2, <1>3, <1>4, <1>5

LEMMA ReleaseEntries ==
  ASSUME LInv, TypeOK', NEW t \in Thread, Release(t)
  PROVE  LInv'
<1> USE NoneAssumption DEF LInv, Release, Goto
<1>1. /\ has'[t] = None /\ pc[t] = "idle" /\ dying[t] = None /\ has[t] \in alive
      /\ \A u \in Thread \ {t} : /\ has'[u] = has[u] /\ dying'[u] = dying[u]
                                 /\ pc'[u] = pc[u]
      /\ pc'[t] \in {"idle", "closing"}
  BY DEF TypeOK, OwnersInv
<1>2. InMutex'
  BY <1>1 DEF InMutex
<1>3. EntriesInv'
  BY DEF EntriesInv
<1>4. OwnersInv'
  <2>1. \A d \in Object : Expired(d) => \A u \in Thread : has'[u] # d \/ d = None
    BY <1>1 DEF Expired
  <2>2. \/ dying'[t] = None /\ pc'[t] = "idle"
        \/ /\ dying'[t] = has[t] /\ pc'[t] = "closing"
           /\ \A u \in Thread : has'[u] # has[t]
    BY <1>1 DEF TypeOK
  <2>3. \A u \in Thread : dying[u] # has[t]
    BY <1>1 DEF OwnersInv, Expired
  <2> QED
    BY <1>1, <2>1, <2>2, <2>3 DEF OwnersInv, TypeOK, Expired
<1>5. CallInv'
  BY <1>1 DEF CallInv
<1> QED
  BY <1>2, <1>3, <1>4, <1>5

LEMMA DestroyEntries ==
  ASSUME LInv, TypeOK', NEW t \in Thread, Destroy(t)
  PROVE  LInv'
<1> USE NoneAssumption DEF LInv, Destroy, Goto
<1>1. /\ dying[t] # None /\ Expired(dying[t]) /\ pc'[t] = "idle" /\ dying'[t] = None
      /\ \A u \in Thread \ {t} : /\ dying'[u] = dying[u] /\ pc'[u] = pc[u]
                                 /\ dying[u] # dying[t]
      /\ \A u \in Thread : pc[u] \notin {"locking", "creating", "registering"}
      /\ has' = has
  BY DEF OwnersInv, InMutex, TypeOK
<1>2. InMutex'
  BY <1>1 DEF InMutex
<1>3. EntriesInv'
  BY <1>1 DEF EntriesInv
<1>4. OwnersInv'
  BY <1>1 DEF OwnersInv, TypeOK, Expired
<1>5. CallInv'
  BY <1>1 DEF CallInv
<1> QED
  BY <1>2, <1>3, <1>4, <1>5

LEMMA LInvInductive == LInv /\ [Next]_vars /\ TypeOK' => LInv'
<1> SUFFICES ASSUME LInv, [Next]_vars, TypeOK'
             PROVE  LInv'
  OBVIOUS
<1>1. ASSUME NEW p \in Path, Remove(p)
      PROVE  LInv'
  BY <1>1 DEF Remove, LInv, InMutex, EntriesInv, OwnersInv, CallInv, Expired
<1>2. CASE UNCHANGED vars
  BY <1>2 DEF vars, LInv, InMutex, EntriesInv, OwnersInv, CallInv, Expired
<1> QED
  BY <1>1, <1>2, OpenEntries, LockEntries, CreateEntries, RegisterEntries,
     ReleaseEntries, DestroyEntries DEF Next, OpenStep

\* The destructor of an expired entry is under way.
DyingInv ==
  \A p \in Path : databaseSet[p] # None /\ Expired(databaseSet[p]) =>
    \E t \in Thread : dying[t] = databaseSet[p]

\* Nobody gets or loses a database that was expired, and no entry is made for one.
LEMMA NoneExpires ==
  ASSUME DyingInv, UNCHANGED dying,
         \A t \in Thread : has'[t] = has[t] \/ has[t] = None,
         \A p \in Path : \/ databaseSet'[p] \in {None, databaseSet[p]}
                         \/ \E t \in Thread : has'[t] = databaseSet'[p]
  PROVE  DyingInv'
<1> SUFFICES ASSUME NEW p \in Path, databaseSet'[p] # None, Expired(databaseSet[p])'
             PROVE  \E t \in Thread : dying[t] = databaseSet'[p]
  BY DEF DyingInv
<1>1. \A t \in Thread : has'[t] # databaseSet'[p]
  BY DEF Expired
<1>2. databaseSet'[p] = databaseSet[p]
  BY <1>1
<1>3. \A t \in Thread : has[t] # databaseSet[p]
  BY <1>1, <1>2
<1> QED
  BY <1>2, <1>3 DEF DyingInv, Expired

LEMMA ReleaseDying ==
  ASSUME LInv, DyingInv, NEW t \in Thread, Release(t)
  PROVE  DyingInv'
<1> USE DEF LInv
<1> SUFFICES ASSUME NEW p \in Path, databaseSet[p] # None,
                    \A u \in Thread : has'[u] # databaseSet[p]
             PROVE  \E u \in Thread : dying'[u] = databaseSet[p]
  BY DEF DyingInv, Release, Expired
<1>1. \A u \in Thread \ {t} : has'[u] = has[u] /\ dying'[u] = dying[u]
  BY DEF Release, TypeOK
<1>2. CASE has[t] = databaseSet[p]
  <2>1. \A u \in Thread \ {t} : has[u] # has[t]
    BY <1>1, <1>2
  <2>2. dying'[t] = has[t]
    BY <2>1 DEF Release, TypeOK
  <2> QED
    BY <1>2, <2>2
<1>3. CASE has[t] # databaseSet[p]
  <2>1. Expired(databaseSet[p])
    BY <1>1, <1>3 DEF Expired
  <2>2. PICK u \in Thread : dying[u] = databaseSet[p]
    BY <2>1 DEF DyingInv
  <2>3. dying[t] = None
    BY DEF Release, OwnersInv
  <2> QED
    BY <1>1, <2>2, <2>3
<1> QED
  BY <1>2, <1>3

LEMMA DyingInductive == LInv /\ DyingInv /\ [Next]_vars => DyingInv'
<1> SUFFICES ASSUME LInv, DyingInv, [Next]_vars
             PROVE  DyingInv'
  OBVIOUS
<1> USE DEF LInv
<1>1. ASSUME NEW t \in Thread, NEW p \in Path, OpenDatabase(t, p)
      PROVE  DyingInv'
  BY <1>1, NoneExpires DEF OpenDatabase, TypeOK
<1>2. ASSUME NEW t \in Thread, OpenLock(t)
      PROVE  DyingInv'
  <2>1. has[t] = None
    BY <1>2 DEF OpenLock, CallInv
  <2>2. \A u \in Thread : has'[u] = has[u] \/ has[u] = None
    BY <1>2, <2>1 DEF OpenLock, TypeOK
  <2> QED
    BY <1>2, <2>2, NoneExpires DEF OpenLock
<1>3. ASSUME NEW t \in Thread, OpenCreate(t)
      PROVE  DyingInv'
  <2>1. has[t] = None
    BY <1>3 DEF OpenCreate, CallInv
  <2>2. \A u \in Thread : has'[u] = has[u] \/ has[u] = None
    BY <1>3, <2>1 DEF OpenCreate, TypeOK
  <2> QED
    BY <1>3, <2>2, NoneExpires DEF OpenCreate
<1>4. ASSUME NEW t \in Thread, OpenRegister(t)
      PROVE  DyingInv'
  <2>1. \A p \in Path : databaseSet'[p] = databaseSet[p] \/ databaseSet'[p] = has[t]
    BY <1>4 DEF OpenRegister, TypeOK
  <2> QED
    BY <1>4, <2>1, NoneExpires DEF OpenRegister
<1>5. ASSUME NEW t \in Thread, Destroy(t)
      PROVE  DyingInv'
  <2> SUFFICES ASSUME NEW p \in Path, databaseSet'[p] # None
               PROVE  ~ \A u \in Thread : has[u] # databaseSet'[p]
    BY <1>5 DEF DyingInv, Destroy, Expired
  <2> QED
    BY <1>5 DEF Destroy, Expired
<1>6. ASSUME NEW p \in Path, Remove(p)
      PROVE  DyingInv'
  BY <1>6, NoneExpires DEF Remove
<1>7. CASE UNCHANGED vars
  BY <1>7, NoneExpires DEF vars
<1> QED
  BY <1>1, <1>2, <1>3, <1>4, <1>5, <1>6, <1>7, ReleaseDying DEF Next, OpenStep

\* An entry of databaseSet is never left to a destroyed database: whoever
\* takes the last shared_ptr away is on the way to removing it, whatever becomes
\* of the files meanwhile.
THEOREM EntriesNameDatabases == Spec => []EntriesAreLive
<1>1. Init => DyingInv
  BY DEF Init, DyingInv
<1>2. LInv /\ DyingInv => EntriesAreLive
  BY DEF LInv, DyingInv, EntriesInv, EntriesAreLive
<1> QED
  BY <1>1, <1>2, TypeCorrect, LInvInit, LInvInductive, DyingInductive, PTL DEF Spec

-----------------------------------------------------------------------------
(* The mutex goes on: what MutexIsFreed rests on besides fairness. *)

\* Every object is somebody's or being destroyed, each thread has one of these
\* at most, and the mutex is held by a call of openDatabase.
OwnedInv ==
  /\ \A o \in alive : \E t \in Thread : has[t] = o \/ dying[t] = o
  /\ \A t \in Thread : dying[t] # None => has[t] = None
  /\ \A t \in Thread : databaseMutex = t =>
       pc[t] \in {"locking", "creating", "registering"}

\* A step of t that gives nothing away keeps everybody's objects owned.
LEMMA StaysOwned ==
  ASSUME OwnedInv, alive' \subseteq alive,
         \A o \in Object : \A t \in Thread :
           o \in alive' /\ (has[t] = o \/ dying[t] = o) => has'[t] = o \/ dying'[t] = o,
         alive \subseteq Object
  PROVE  \A o \in alive' : \E t \in Thread : has'[t] = o \/ dying'[t] = o
BY DEF OwnedInv

LEMMA OwnedInductive == LInv /\ OwnedInv /\ [Next]_vars => OwnedInv'
<1> SUFFICES ASSUME LInv, OwnedInv, [Next]_vars
             PROVE  OwnedInv'
  OBVIOUS
<1> USE NoneAssumption DEF LInv
<1>1. ASSUME NEW t \in Thread, NEW p \in Path, OpenDatabase(t, p)
      PROVE  OwnedInv'
  BY <1>1 DEF OpenDatabase, Goto, OwnedInv, TypeOK
<1>2. ASSUME NEW t \in Thread, OpenLock(t)
      PROVE  OwnedInv'
  <2>1. /\ has[t] = None /\ dying[t] = None /\ databaseMutex' = None
        /\ \A u \in Thread \ {t} : has'[u] = has[u]
        /\ UNCHANGED <<alive, dying>>
    BY <1>2 DEF OpenLock, CallInv, OwnersInv, TypeOK
  <2>2. \A o \in alive' : \E u \in Thread : has'[u] = o \/ dying'[u] = o
    BY <2>1, StaysOwned DEF TypeOK
  <2> QED
    BY <2>1, <2>2 DEF OwnedInv
<1>3. ASSUME NEW t \in Thread, OpenCreate(t)
      PROVE  OwnedInv'
  <2>1. PICK o \in Object \ alive : alive' = alive \cup {o} /\ has' = [has EXCEPT ![t] = o]
    BY <1>3 DEF OpenCreate
  <2>2. /\ has[t] = None /\ dying[t] = None /\ has'[t] = o /\ pc'[t] = "registering"
        /\ \A u \in Thread \ {t} : has'[u] = has[u] /\ pc'[u] = pc[u]
        /\ UNCHANGED <<dying, databaseMutex>>
    BY <1>3, <2>1 DEF OpenCreate, Goto, CallInv, OwnersInv, TypeOK
  <2>3. \A d \in alive' : \E u \in Thread : has'[u] = d \/ dying'[u] = d
    <3> SUFFICES ASSUME NEW d \in alive', d # o
                 PROVE  \E u \in Thread : has'[u] = d \/ dying'[u] = d
      BY <2>2
    <3>1. d \in alive /\ d # None
      BY <2>1 DEF TypeOK
    <3>2. PICK u \in Thread : has[u] = d \/ dying[u] = d
      BY <3>1 DEF OwnedInv
    <3>3. u # t
      BY <2>2, <3>1, <3>2
    <3> QED
      BY <2>2, <3>2, <3>3
  <2> QED
    BY <2>2, <2>3 DEF OwnedInv
<1>4. ASSUME NEW t \in Thread, OpenRegister(t)
      PROVE  OwnedInv'
  BY <1>4 DEF OpenRegister, OwnedInv, TypeOK
<1>5. ASSUME NEW t \in Thread, Release(t)
      PROVE  OwnedInv'
  <2>1. /\ has'[t] = None /\ dying[t] = None /\ pc[t] = "idle"
        /\ \A u \in Thread \ {t} : has'[u] = has[u] /\ dying'[u] = dying[u] /\ pc'[u] = pc[u]
        /\ UNCHANGED <<alive, databaseMutex>>
    BY <1>5 DEF Release, Goto, OwnersInv, TypeOK
  <2>2. \/ dying'[t] = has[t]
        \/ \E u \in Thread \ {t} : has'[u] = has[t]
    BY <1>5, <2>1 DEF Release, TypeOK
  <2>3. \A o \in alive' : \E u \in Thread : has'[u] = o \/ dying'[u] = o
    <3> SUFFICES ASSUME NEW o \in alive
                 PROVE  \E u \in Thread : has'[u] = o \/ dying'[u] = o
      BY <2>1
    <3>1. PICK u \in Thread : has[u] = o \/ dying[u] = o
      BY DEF OwnedInv
    <3>2. CASE u # t
      BY <2>1, <3>1, <3>2
    <3>3. CASE u = t
      <4>1. o # None /\ has[t] = o
        BY <2>1, <3>1, <3>3 DEF TypeOK
      <4> QED
        BY <2>2, <4>1
    <3> QED
      BY <3>2, <3>3
  <2>4. databaseMutex # t
    BY <2>1 DEF OwnedInv
  <2> QED
    BY <2>1, <2>3, <2>4 DEF OwnedInv
<1>6. ASSUME NEW t \in Thread, Destroy(t)
      PROVE  OwnedInv'
  <2>1. /\ alive' = alive \ {dying[t]} /\ UNCHANGED <<has, databaseMutex>>
        /\ dying'[t] = None /\ databaseMutex = None
        /\ \A u \in Thread \ {t} : dying'[u] = dying[u]
        /\ has[t] = None
    BY <1>6 DEF Destroy, OwnersInv, OwnedInv, TypeOK
  <2>2. \A o \in alive' : \E u \in Thread : has'[u] = o \/ dying'[u] = o
    <3> SUFFICES ASSUME NEW o \in alive, o # dying[t]
                 PROVE  \E u \in Thread : has[u] = o \/ dying'[u] = o
      BY <2>1
    <3>1. PICK u \in Thread : has[u] = o \/ dying[u] = o
      BY DEF OwnedInv
    <3> QED
      BY <2>1, <3>1
  <2> QED
    BY <2>1, <2>2 DEF OwnedInv
<1>7. ASSUME NEW p \in Path, Remove(p)
      PROVE  OwnedInv'
  BY <1>7 DEF Remove, OwnedInv
<1>8. CASE UNCHANGED vars
  BY <1>8 DEF vars, OwnedInv
<1> QED
  BY <1>1, <1>2, <1>3, <1>4, <1>5, <1>6, <1>7, <1>8 DEF Next, OpenStep

LEMMA OwnedAlways == Spec => [](LInv /\ OwnedInv)
<1>1. Init => OwnedInv
  BY NoneAssumption DEF Init, OwnedInv
<1> QED
  BY <1>1, TypeCorrect, LInvInit, LInvInductive, OwnedInductive, PTL DEF Spec

\* The call of t has its next step: nothing that another thread has or waits
\* for is needed for it.
CanGo(t) ==
  \/ pc[t] \in {"locking", "registering"}
  \/ pc[t] = "creating" /\ \E o \in Object : o \notin alive

\* Whoever has databaseMutex can go on, if there are as many objects as threads:
\* the others can have all but one of them, in use or in destruction.
THEOREM HolderCanGo ==
  ASSUME IsFiniteSet(Thread), IsFiniteSet(Object),
         Cardinality(Thread) <= Cardinality(Object)
  PROVE  Spec => [](\A t \in Thread : databaseMutex = t => CanGo(t))
<1>1. LInv /\ OwnedInv => \A t \in Thread : databaseMutex = t => CanGo(t)
  <2> SUFFICES ASSUME LInv, OwnedInv, NEW t \in Thread, pc[t] = "creating",
                      Object \subseteq alive
               PROVE  FALSE
    BY DEF CanGo, OwnedInv
  <2>1. has[t] = None /\ dying[t] = None
    BY DEF LInv, CallInv, OwnersInv
  <2>2. \A o \in Object : \E u \in Thread \ {t} : has[u] = o \/ dying[u] = o
    BY <2>1, NoneAssumption DEF OwnedInv
  <2> DEFINE owner == [o \in Object |->
                         CHOOSE u \in Thread \ {t} : has[u] = o \/ dying[u] = o]
  <2>3. \A o \in Object : /\ owner[o] \in Thread \ {t}
                          /\ has[owner[o]] = o \/ dying[owner[o]] = o
    BY <2>2
  <2>4. owner \in [Object -> Thread \ {t}]
    BY <2>3
  <2>5. IsFiniteSet(Thread \ {t}) /\ Cardinality(Thread \ {t}) = Cardinality(Thread) - 1
    BY FS_RemoveElement
  <2>6. Cardinality(Thread \ {t}) < Cardinality(Object)
    BY <2>5, FS_CardinalityType
  <2> HIDE DEF owner
  <2>7. PICK o, d \in Object : o # d /\ owner[o] = owner[d]
    BY <2>4, <2>5, <2>6, FS_PigeonHole
  <2>8. o # None /\ d # None
    BY NoneAssumption
  <2> QED
    BY <2>3, <2>7, <2>8 DEF OwnedInv
<1> QED
  BY <1>1, OwnedAlways, PTL
=============================================================================
