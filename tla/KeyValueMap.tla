---------------------------- MODULE KeyValueMap ----------------------------
(***************************************************************************)
(* What MadContentValues promises (api/MadContentValues.hpp): "key values  *)
(* container useful for the insertion of data".  Copies of a container     *)
(* share one map.  The last value put for a key is the one inserted, and a *)
(* put that ran out of memory leaves its own key in doubt and no other.    *)
(***************************************************************************)
CONSTANTS
  Key, Value,
  Handle,       \* MadContentValues objects
  Store,        \* the maps they can share
  None,         \* no map, no value
  Torn,         \* what is left of a value whose replacement failed
  Column,       \* Column[k]: the column of the table that key k names
  AllocFails    \* puts can run out of memory

VARIABLES
  ref,          \* ref[h]: the map of h, or None
  map,          \* map[s][k]: the value of key k, or None
  doubt,        \* doubt[s][k]: values whose put failed and that may come back
  last          \* the last call that was made, with its result

vars == <<ref, map, doubt, last>>

Unused(s) == \A h \in Handle : ref[h] # s

New(h, s) ==
  /\ ref[h] = None /\ Unused(s)
  /\ ref' = [ref EXCEPT ![h] = s]
  /\ map' = [map EXCEPT ![s] = [k \in Key |-> None]]
  /\ doubt' = [doubt EXCEPT ![s] = [k \in Key |-> {}]]
  /\ last' = <<"new">>

\* h becomes a copy of a container of map s, or is destroyed when s is None.
Assign(h, s) ==
  /\ ref' = [ref EXCEPT ![h] = s]
  /\ last' = <<"assign">>
  /\ UNCHANGED <<map, doubt>>

Put(s, k, v) ==
  /\ \E w \in {v} \cup doubt[s][k] : map' = [map EXCEPT ![s][k] = w]
  /\ doubt' = [doubt EXCEPT ![s][k] = {}]
  /\ last' = <<"put", k, v>>
  /\ UNCHANGED ref

PutFails(s, k, v) ==
  /\ AllocFails
  /\ \/ UNCHANGED <<map, doubt>>
     \/ /\ map[s][k] = None
        /\ doubt' = [doubt EXCEPT ![s][k] = @ \cup {v}]
        /\ UNCHANGED map
     \/ /\ map[s][k] # None
        /\ \E w \in {Torn, v} : map' = [map EXCEPT ![s][k] = w]
        /\ UNCHANGED doubt
  /\ last' = <<"put threw", k, v>>
  /\ UNCHANGED ref

Clear(s) ==
  /\ map' = [map EXCEPT ![s] = [k \in Key |-> None]]
  /\ doubt' = [doubt EXCEPT ![s] = [k \in Key |-> {}]]
  /\ last' = <<"clear">>
  /\ UNCHANGED ref

Columns == {Column[k] : k \in Key}

\* r is a row of the values of map m: each column that a key names has the
\* value of such a key, and the others have none.
RowOf(r, m) ==
  \A c \in Columns :
    LET named == {k \in Key : Column[k] = c /\ m[k] # None}
    IN  IF named = {} THEN r[c] = None ELSE \E k \in named : r[c] = m[k]

Insert(s) ==
  /\ \E k \in Key : map[s][k] # None
  /\ \E r \in [Columns -> Value \cup {None, Torn}] :
       RowOf(r, map[s]) /\ last' = <<"insert", r>>
  /\ UNCHANGED <<ref, map, doubt>>

\* An empty map inserts nothing.
InsertNothing(s) ==
  /\ \A k \in Key : map[s][k] = None
  /\ last' = <<"insert">>
  /\ UNCHANGED <<ref, map, doubt>>

Init ==
  /\ ref = [h \in Handle |-> None]
  /\ map = [s \in Store |-> [k \in Key |-> None]]
  /\ doubt = [s \in Store |-> [k \in Key |-> {}]]
  /\ last = <<>>

Next ==
  \/ \E h \in Handle : \E s \in Store : New(h, s)
  \/ \E h \in Handle : \E s \in {None} \cup {ref[g] : g \in Handle} : Assign(h, s)
  \/ \E h \in Handle :
       /\ ref[h] # None
       /\ \/ \E k \in Key, v \in Value : Put(ref[h], k, v) \/ PutFails(ref[h], k, v)
          \/ Clear(ref[h])
          \/ Insert(ref[h])
          \/ InsertNothing(ref[h])

Spec == Init /\ [][Next]_vars
=============================================================================
