-------------------------- MODULE MadContentValues --------------------------
(***************************************************************************)
(* MadContentValues (MadContentValuesImpl.cpp): a map from key to value    *)
(* kept as three containers, and MadDatabase::insert reading them.  A      *)
(* MadContentValues holds its Impl by shared_ptr, so its copies share it.  *)
(* Each container can run out of memory after the one before it changed.   *)
(* One thread uses an Impl: the code has no lock for it.                   *)
(***************************************************************************)
EXTENDS Naturals, Sequences

CONSTANTS
  Key, Value,   \* a value is a Data with its type
  Handle,       \* MadContentValues objects
  Impl,
  None,
  Torn,         \* the Data left by an assignment that threw: the new type with
                \* members of the old value
  Column,       \* Column[k]: the column key k names; SQLite does not look at
                \* the case of its letters
  AllocFails,   \* std::bad_alloc can be thrown
  MaxValues     \* bound of _values, which failed puts make longer

ASSUME NoneAssumption ==
  /\ None \notin Impl \cup Value \cup {Torn}
  /\ Torn \notin Value
ASSUME AllocAssumption == AllocFails \in BOOLEAN
ASSUME BoundAssumption == MaxValues \in Nat

VARIABLES
  impl,         \* impl[h]: what the shared_ptr of h points to, or None
  keys,         \* _keys
  values,       \* _values; the code's index i is i + 1 here
  dataMap,      \* _dataMap: the index of a key in values, 0 for none
  last          \* the last call and its result: of an insert, the value of each
                \* column

vars == <<impl, keys, values, dataMap, last>>

Data == Value \cup {Torn}
Columns == {Column[k] : k \in Key}

GetData(i, k) == values[i][dataMap[i][k]]

-----------------------------------------------------------------------------
(* Construction, copy and destruction. *)

Construct(h, i) ==
  /\ impl[h] = None
  /\ \A g \in Handle : impl[g] # i
  /\ impl' = [impl EXCEPT ![h] = i]
  /\ keys' = [keys EXCEPT ![i] = {}]
  /\ values' = [values EXCEPT ![i] = <<>>]
  /\ dataMap' = [dataMap EXCEPT ![i] = [k \in Key |-> 0]]
  /\ last' = <<"new">>

\* The copy constructor and assignment that the class does not write itself.
Copy(h, g) ==
  /\ impl[g] # None
  /\ impl' = [impl EXCEPT ![h] = impl[g]]
  /\ last' = <<"assign">>
  /\ UNCHANGED <<keys, values, dataMap>>

Destroy(h) ==
  /\ impl[h] # None
  /\ impl' = [impl EXCEPT ![h] = None]
  /\ last' = <<"assign">>
  /\ UNCHANGED <<keys, values, dataMap>>

-----------------------------------------------------------------------------
(* putData and clear. *)

\* _values.emplace_back.
Emplaced(i, v) ==
  /\ Len(values[i]) < MaxValues
  /\ values' = [values EXCEPT ![i] = Append(@, v)]

\* Mutant: the index is one of a vector that is longer by two.
IndexedFromEnd(i, k) == dataMap' = [dataMap EXCEPT ![i][k] = Len(values[i]) - 1]

\* _dataMap.emplace does not change an entry that is there.
Indexed(i, k) ==
  dataMap' = [dataMap EXCEPT ![i][k] = IF @ = 0 THEN Len(values[i]) + 1 ELSE @]

\* _values[i] = data.
Assigned(i, k, d) == values' = [values EXCEPT ![i][dataMap[i][k]] = d]

\* Mutant: emplace is all there is, and does not replace.
PutKept(i, k, v) ==
  /\ k \in keys[i]
  /\ UNCHANGED <<keys, values, dataMap>>

PutKnown(i, k, v) ==
  /\ k \in keys[i]
  /\ Assigned(i, k, v)
  /\ UNCHANGED <<keys, dataMap>>

PutNew(i, k, v) ==
  /\ k \notin keys[i]
  /\ Emplaced(i, v)
  /\ Indexed(i, k)
  /\ keys' = [keys EXCEPT ![i] = @ \cup {k}]

\* _values[i] = data throws, before or after the type was assigned; or it is done
\* and _keys.emplace throws, which allocates before it looks for the key.
AssignFails(i, k, v) ==
  /\ k \in keys[i]
  /\ \/ UNCHANGED values
     \/ Assigned(i, k, Torn)
     \/ Assigned(i, k, v)
  /\ UNCHANGED <<keys, dataMap>>

\* Mutant: the key is entered first.
EmplaceFailsKeyFirst(i, k, v) ==
  /\ k \notin keys[i]
  /\ keys' = [keys EXCEPT ![i] = @ \cup {k}]
  /\ \/ UNCHANGED values
     \/ Emplaced(i, v)
  /\ UNCHANGED dataMap

\* One of the three emplace calls throws; those before it are done.
EmplaceFails(i, k, v) ==
  /\ k \notin keys[i]
  /\ \/ UNCHANGED <<values, dataMap>>
     \/ Emplaced(i, v) /\ UNCHANGED dataMap
     \/ Emplaced(i, v) /\ Indexed(i, k)
  /\ UNCHANGED keys

PutData(h, k, v) ==
  /\ impl[h] # None
  /\ \/ /\ PutKnown(impl[h], k, v) \/ PutNew(impl[h], k, v)
        /\ last' = <<"put", k, v>>
     \/ /\ AllocFails
        /\ AssignFails(impl[h], k, v) \/ EmplaceFails(impl[h], k, v)
        /\ last' = <<"put threw", k, v>>
  /\ UNCHANGED impl

Clear(h) ==
  /\ impl[h] # None
  /\ keys' = [keys EXCEPT ![impl[h]] = {}]
  /\ values' = [values EXCEPT ![impl[h]] = <<>>]
  /\ dataMap' = [dataMap EXCEPT ![impl[h]] = [k \in Key |-> 0]]
  /\ last' = <<"clear">>
  /\ UNCHANGED impl

-----------------------------------------------------------------------------
(* MadDatabase::insert: one column and one bound value for each of keys(), *)
(* in an order of its own.  Of the keys that name one column the engine    *)
(* takes the first in that order.                                          *)

\* first[c]: the first key of column c in keys().
Bound(i, first) ==
  [c \in Columns |-> IF c \in DOMAIN first THEN GetData(i, first[c]) ELSE None]

Insert(h) ==
  /\ impl[h] # None
  /\ LET i == impl[h]
         named == {Column[k] : k \in keys[i]}
     IN  /\ keys[i] # {}
         /\ \E first \in [named -> keys[i]] :
              /\ \A c \in named : Column[first[c]] = c
              /\ last' = <<"insert", Bound(i, first)>>
  /\ UNCHANGED <<impl, keys, values, dataMap>>

\* isEmpty(): false is returned and nothing is inserted.
InsertNothing(h) ==
  /\ impl[h] # None /\ keys[impl[h]] = {}
  /\ last' = <<"insert">>
  /\ UNCHANGED <<impl, keys, values, dataMap>>

Init ==
  /\ impl = [h \in Handle |-> None]
  /\ keys = [i \in Impl |-> {}]
  /\ values = [i \in Impl |-> <<>>]
  /\ dataMap = [i \in Impl |-> [k \in Key |-> 0]]
  /\ last = <<>>

Next ==
  \E h \in Handle :
    \/ \E i \in Impl : Construct(h, i)
    \/ \E g \in Handle : Copy(h, g)
    \/ Destroy(h)
    \/ \E k \in Key, v \in Value : PutData(h, k, v)
    \/ Clear(h)
    \/ Insert(h)
    \/ InsertNothing(h)

Spec == Init /\ [][Next]_vars

-----------------------------------------------------------------------------
(* Properties. *)

\* Every variable has its type.
TypeOK ==
  /\ impl \in [Handle -> Impl \cup {None}]
  /\ keys \in [Impl -> SUBSET Key]
  /\ values \in [Impl -> Seq(Data)]
  /\ dataMap \in [Impl -> [Key -> Nat]]

\* After every order of puts, clears, copies and puts that threw, a key of the
\* container has a place in _values, and no other key has the same one:
\* getData reads nothing outside the vector and no other key's value.
IndexesAgree ==
  \A i \in Impl :
    /\ \A k \in keys[i] : dataMap[i][k] # 0
    /\ \A k \in Key : dataMap[i][k] <= Len(values[i])
    /\ \A j, k \in Key :
         dataMap[i][j] # 0 /\ dataMap[i][j] = dataMap[i][k] => j = k

(***************************************************************************)
(* The map the three containers stand for.  A key that _dataMap has and    *)
(* _keys has not is in doubt: emplace will not replace its index, so the   *)
(* next put of it brings the old value back.                               *)
(***************************************************************************)
map ==
  [i \in Impl |-> [k \in Key |-> IF k \in keys[i] THEN GetData(i, k) ELSE None]]

doubt ==
  [i \in Impl |-> [k \in Key |->
    IF k \notin keys[i] /\ dataMap[i][k] # 0 THEN {GetData(i, k)} ELSE {}]]

KVM == INSTANCE KeyValueMap WITH Store <- Impl, ref <- impl

\* Every use of the containers is a use of one map from key to value: what is
\* inserted has, in the column of each key, the last value put for it; a put
\* that threw leaves its key with the old value, the new one, or what is left of
\* both, and no other key with anything else.
IsKeyValueMap == KVM!Spec
=============================================================================
