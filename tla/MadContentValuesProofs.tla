----------------------- MODULE MadContentValuesProofs -----------------------
(***************************************************************************)
(* Theorems about MadContentValues, for any keys, values, containers and   *)
(* copies: the indexes agree, and the three containers implement the map   *)
(* of KeyValueMap.                                                         *)
(***************************************************************************)
EXTENDS MadContentValues, SequenceTheorems, TLAPS

\* The inductive invariant.
IInv == TypeOK /\ IndexesAgree

-----------------------------------------------------------------------------
(* The parts of putData. *)

\* A key of the container has its place in _values.
LEMMA KnownPlace ==
  ASSUME IInv, NEW i \in Impl, NEW k \in Key, dataMap[i][k] # 0
  PROVE  /\ dataMap[i][k] \in 1 .. Len(values[i])
         /\ GetData(i, k) \in Data
<1>1. values[i] \in Seq(Data) /\ dataMap[i][k] \in Nat /\ dataMap[i][k] <= Len(values[i])
  BY DEF IInv, TypeOK, IndexesAgree
<1>2. dataMap[i][k] \in 1 .. Len(values[i])
  BY <1>1
<1> QED
  BY <1>1, <1>2 DEF GetData

\* emplace_back makes a longer vector with the old values where they were.
LEMMA EmplacedPlaces ==
  ASSUME IInv, NEW i \in Impl, NEW v \in Value, Emplaced(i, v)
  PROVE  /\ values' \in [Impl -> Seq(Data)]
         /\ Len(values[i]) \in Nat
         /\ Len(values'[i]) = Len(values[i]) + 1
         /\ values'[i][Len(values[i]) + 1] = v
         /\ \A n \in 1 .. Len(values[i]) : values'[i][n] = values[i][n]
         /\ \A j \in Impl \ {i} : values'[j] = values[j]
<1>1. values[i] \in Seq(Data) /\ v \in Data
  BY DEF IInv, TypeOK, Data
<1>2. values' = [values EXCEPT ![i] = Append(values[i], v)]
  BY DEF Emplaced
<1>3. values \in [Impl -> Seq(Data)]
  BY DEF IInv, TypeOK
<1>4. Append(values[i], v) \in Seq(Data)
  BY <1>1
<1>5. values'[i] = Append(values[i], v)
  BY <1>2, <1>3
<1>6. values' \in [Impl -> Seq(Data)]
  BY <1>2, <1>3, <1>4
<1>7. \A j \in Impl \ {i} : values'[j] = values[j]
  BY <1>2, <1>3
<1> QED
  BY <1>1, <1>5, <1>6, <1>7

\* Assignment in place leaves the length and the other places.
LEMMA AssignedPlaces ==
  ASSUME IInv, NEW i \in Impl, NEW k \in Key, dataMap[i][k] # 0, NEW v \in Data,
         Assigned(i, k, v)
  PROVE  /\ values' \in [Impl -> Seq(Data)]
         /\ Len(values'[i]) = Len(values[i])
         /\ values'[i][dataMap[i][k]] = v
         /\ \A n \in 1 .. Len(values[i]) :
              n # dataMap[i][k] => values'[i][n] = values[i][n]
         /\ \A j \in Impl \ {i} : values'[j] = values[j]
<1>1. values[i] \in Seq(Data) /\ values \in [Impl -> Seq(Data)]
  BY DEF IInv, TypeOK
<1>2. dataMap[i][k] \in 1 .. Len(values[i])
  BY KnownPlace
<1>3. values'[i] = [values[i] EXCEPT ![dataMap[i][k]] = v]
  BY <1>1 DEF Assigned
<1>4. /\ [values[i] EXCEPT ![dataMap[i][k]] = v] \in Seq(Data)
      /\ Len([values[i] EXCEPT ![dataMap[i][k]] = v]) = Len(values[i])
  BY <1>1, <1>2, ExceptSeq
<1>5. values' \in [Impl -> Seq(Data)]
  BY <1>1, <1>4 DEF Assigned
<1>6. \A j \in Impl \ {i} : values'[j] = values[j]
  BY <1>1 DEF Assigned
<1>7. /\ values'[i][dataMap[i][k]] = v
      /\ \A n \in 1 .. Len(values[i]) :
           n # dataMap[i][k] => values'[i][n] = values[i][n]
  BY <1>1, <1>2, <1>3
<1> QED
  BY <1>3, <1>4, <1>5, <1>6, <1>7

\* _dataMap.emplace gives a new key the place after the last one.
LEMMA IndexedPlaces ==
  ASSUME IInv, NEW i \in Impl, NEW k \in Key, Indexed(i, k)
  PROVE  /\ dataMap' \in [Impl -> [Key -> Nat]]
         /\ dataMap[i][k] = 0 => dataMap'[i][k] = Len(values[i]) + 1
         /\ dataMap[i][k] # 0 => dataMap'[i][k] = dataMap[i][k]
         /\ \A j \in Key \ {k} : dataMap'[i][j] = dataMap[i][j]
         /\ \A l \in Impl \ {i} : dataMap'[l] = dataMap[l]
<1>1. /\ dataMap \in [Impl -> [Key -> Nat]]
      /\ Len(values[i]) \in Nat
  BY DEF IInv, TypeOK
<1>2. dataMap' = [dataMap EXCEPT ![i] = [dataMap[i] EXCEPT ![k] =
                    IF dataMap[i][k] = 0 THEN Len(values[i]) + 1 ELSE dataMap[i][k]]]
  BY DEF Indexed
<1> QED
  BY <1>1, <1>2

\* Both emplace calls done: every place is within the vector and one key's.
LEMMA GrownPlaces ==
  ASSUME IInv, NEW i \in Impl, NEW k \in Key, NEW v \in Value,
         Emplaced(i, v), Indexed(i, k)
  PROVE  /\ values' \in [Impl -> Seq(Data)]
         /\ dataMap' \in [Impl -> [Key -> Nat]]
         /\ dataMap'[i][k] # 0
         /\ \A l \in Impl : \A j \in Key :
              /\ dataMap[l][j] # 0 => dataMap'[l][j] # 0
              /\ dataMap'[l][j] <= Len(values'[l])
         /\ \A l \in Impl : \A j, m \in Key :
              dataMap'[l][j] # 0 /\ dataMap'[l][j] = dataMap'[l][m] => j = m
<1> DEFINE n == Len(values[i])
<1>1. /\ dataMap \in [Impl -> [Key -> Nat]]
      /\ \A l \in Impl : \A j \in Key : dataMap[l][j] <= Len(values[l])
      /\ \A l \in Impl : \A j, m \in Key :
           dataMap[l][j] # 0 /\ dataMap[l][j] = dataMap[l][m] => j = m
  BY DEF IInv, TypeOK, IndexesAgree
<1>2. /\ values' \in [Impl -> Seq(Data)]
      /\ n \in Nat
      /\ Len(values'[i]) = n + 1
      /\ \A l \in Impl \ {i} : values'[l] = values[l]
  BY EmplacedPlaces
<1>3. /\ dataMap' \in [Impl -> [Key -> Nat]]
      /\ dataMap[i][k] = 0 => dataMap'[i][k] = n + 1
      /\ dataMap[i][k] # 0 => dataMap'[i][k] = dataMap[i][k]
      /\ \A j \in Key \ {k} : dataMap'[i][j] = dataMap[i][j]
      /\ \A l \in Impl \ {i} : dataMap'[l] = dataMap[l]
  BY IndexedPlaces
<1> HIDE DEF n
<1>4. \A j \in Key :
        /\ dataMap[i][j] \in Nat
        /\ dataMap[i][j] <= n
        /\ dataMap'[i][j] = dataMap[i][j] \/ (j = k /\ dataMap[i][k] = 0 /\ dataMap'[i][j] = n + 1)
  <2>1. \A j \in Key : dataMap[i][j] \in Nat /\ dataMap[i][j] <= n
    BY <1>1 DEF n
  <2>2. ASSUME NEW j \in Key
        PROVE  dataMap'[i][j] = dataMap[i][j] \/ (j = k /\ dataMap[i][k] = 0 /\ dataMap'[i][j] = n + 1)
    <3>1. CASE j = k
      BY <1>3, <3>1
    <3>2. CASE j # k
      <4>1. j \in Key \ {k}
        BY <3>2
      <4> QED
        BY <1>3, <4>1
    <3> QED
      BY <3>1, <3>2
  <2> QED
    BY <2>1, <2>2
<1>5. \A j \in Key :
        /\ dataMap[i][j] # 0 => dataMap'[i][j] # 0
        /\ dataMap'[i][j] <= n + 1
  BY <1>2, <1>4
<1>6. dataMap'[i][k] # 0
  BY <1>2, <1>3
<1>7. \A j, m \in Key :
        dataMap'[i][j] # 0 /\ dataMap'[i][j] = dataMap'[i][m] => j = m
  <2> SUFFICES ASSUME NEW j \in Key, NEW m \in Key,
                      dataMap'[i][j] # 0, dataMap'[i][j] = dataMap'[i][m]
               PROVE  j = m
    OBVIOUS
  <2>1. CASE dataMap'[i][j] = n + 1
    <3>1. dataMap'[i][j] # dataMap[i][j] /\ dataMap'[i][m] # dataMap[i][m]
      BY <1>2, <1>4, <2>1
    <3> QED
      BY <1>4, <3>1
  <2>2. CASE dataMap'[i][j] # n + 1
    <3>1. dataMap'[i][j] = dataMap[i][j] /\ dataMap'[i][m] = dataMap[i][m]
      BY <1>4, <2>2
    <3> QED
      BY <1>1, <3>1
  <2> QED
    BY <2>1, <2>2
<1>8. \A l \in Impl : l # i =>
        /\ dataMap'[l] = dataMap[l]
        /\ values'[l] = values[l]
  BY <1>2, <1>3
<1>9. ASSUME NEW l \in Impl
      PROVE  /\ \A j \in Key :
                  /\ dataMap[l][j] # 0 => dataMap'[l][j] # 0
                  /\ dataMap'[l][j] <= Len(values'[l])
             /\ \A j, m \in Key :
                  dataMap'[l][j] # 0 /\ dataMap'[l][j] = dataMap'[l][m] => j = m
  <2>1. CASE l = i
    BY <1>2, <1>5, <1>7, <2>1
  <2>2. CASE l # i
    BY <1>1, <1>8, <2>2
  <2> QED
    BY <2>1, <2>2
<1> QED
  BY <1>2, <1>3, <1>6, <1>9

-----------------------------------------------------------------------------
(* IInv is inductive. *)

\* A container that has just been emptied.
Emptied(i) ==
  /\ keys' = [keys EXCEPT ![i] = {}]
  /\ values' = [values EXCEPT ![i] = <<>>]
  /\ dataMap' = [dataMap EXCEPT ![i] = [k \in Key |-> 0]]

LEMMA EmptiedAgree ==
  ASSUME IInv, NEW i \in Impl, Emptied(i),
         impl' \in [Handle -> Impl \cup {None}]
  PROVE  IInv'
<1>1. /\ keys' \in [Impl -> SUBSET Key]
      /\ values' \in [Impl -> Seq(Data)]
      /\ dataMap' \in [Impl -> [Key -> Nat]]
  BY DEF IInv, TypeOK, Emptied
<1>2. ASSUME NEW l \in Impl
      PROVE  /\ \A k \in keys'[l] : dataMap'[l][k] # 0
             /\ \A k \in Key : dataMap'[l][k] <= Len(values'[l])
             /\ \A j, k \in Key :
                  dataMap'[l][j] # 0 /\ dataMap'[l][j] = dataMap'[l][k] => j = k
  <2>1. CASE l = i
    BY <2>1 DEF IInv, TypeOK, Emptied
  <2>2. CASE l # i
    <3>1. keys'[l] = keys[l] /\ values'[l] = values[l] /\ dataMap'[l] = dataMap[l]
      BY <2>2 DEF IInv, TypeOK, Emptied
    <3> QED
      BY <3>1 DEF IInv, IndexesAgree
  <2> QED
    BY <2>1, <2>2
<1> QED
  BY <1>1, <1>2 DEF IInv, TypeOK, IndexesAgree

\* What putData does to the containers of i, thrown or not.
Changed(i, k, v) ==
  \/ PutKnown(i, k, v)
  \/ PutNew(i, k, v)
  \/ AssignFails(i, k, v)
  \/ EmplaceFails(i, k, v)

LEMMA ChangedAgree ==
  ASSUME IInv, NEW i \in Impl, NEW k \in Key, NEW v \in Value, Changed(i, k, v),
         impl' = impl
  PROVE  IInv'
<1> USE DEF IInv
<1> SUFFICES /\ keys' \in [Impl -> SUBSET Key]
             /\ values' \in [Impl -> Seq(Data)]
             /\ dataMap' \in [Impl -> [Key -> Nat]]
             /\ \A l \in Impl :
                  /\ \A j \in keys'[l] : dataMap'[l][j] # 0
                  /\ \A j \in Key : dataMap'[l][j] <= Len(values'[l])
                  /\ \A j, m \in Key :
                       dataMap'[l][j] # 0 /\ dataMap'[l][j] = dataMap'[l][m] => j = m
  BY DEF TypeOK, IndexesAgree
<1>1. /\ keys \in [Impl -> SUBSET Key]
      /\ values \in [Impl -> Seq(Data)]
      /\ dataMap \in [Impl -> [Key -> Nat]]
      /\ v \in Data /\ Torn \in Data
  BY DEF TypeOK, Data
<1>2. \A l \in Impl :
        /\ \A j \in keys[l] : dataMap[l][j] # 0
        /\ \A j \in Key : dataMap[l][j] <= Len(values[l])
        /\ \A j, m \in Key :
             dataMap[l][j] # 0 /\ dataMap[l][j] = dataMap[l][m] => j = m
        /\ Len(values[l]) \in Nat
  BY <1>1 DEF IndexesAgree
<1>3. ASSUME NEW w \in Data, k \in keys[i],
             Assigned(i, k, w),
             UNCHANGED <<keys, dataMap>>
      PROVE  /\ keys' \in [Impl -> SUBSET Key]
             /\ values' \in [Impl -> Seq(Data)]
             /\ dataMap' \in [Impl -> [Key -> Nat]]
             /\ \A l \in Impl :
                  /\ \A j \in keys'[l] : dataMap'[l][j] # 0
                  /\ \A j \in Key : dataMap'[l][j] <= Len(values'[l])
                  /\ \A j, m \in Key :
                       dataMap'[l][j] # 0 /\ dataMap'[l][j] = dataMap'[l][m] => j = m
  <2>1. dataMap[i][k] # 0
    BY <1>2, <1>3
  <2>2. /\ values' \in [Impl -> Seq(Data)]
        /\ \A l \in Impl : Len(values'[l]) = Len(values[l])
    BY <1>3, <2>1, AssignedPlaces
  <2> QED
    BY <1>1, <1>2, <1>3, <2>2
<1>4. CASE PutKnown(i, k, v)
  BY <1>1, <1>3, <1>4 DEF PutKnown
<1>5. CASE PutNew(i, k, v)
  <2>1. Emplaced(i, v) /\ Indexed(i, k) /\ keys' = [keys EXCEPT ![i] = @ \cup {k}]
    BY <1>5 DEF PutNew
  <2>2. /\ keys' \in [Impl -> SUBSET Key]
        /\ \A l \in Impl : \A j \in keys'[l] : j \in keys[l] \/ (l = i /\ j = k)
    <3>1. keys' \in [Impl -> SUBSET Key] /\ keys'[i] = keys[i] \cup {k}
      BY <1>1, <2>1
    <3>2. \A l \in Impl : l # i => keys'[l] = keys[l]
      BY <1>1, <2>1
    <3> QED
      BY <3>1, <3>2
  <2> HIDE DEF IInv
  <2> QED
    BY <1>1, <1>2, <2>1, <2>2, GrownPlaces
<1>6. CASE AssignFails(i, k, v)
  <2>1. CASE values' = values
    BY <1>1, <1>2, <1>6, <2>1 DEF AssignFails
  <2>2. CASE Assigned(i, k, Torn)
    BY <1>1, <1>3, <1>6, <2>2 DEF AssignFails
  <2>3. CASE Assigned(i, k, v)
    BY <1>1, <1>3, <1>6, <2>3 DEF AssignFails
  <2> QED
    BY <1>6, <2>1, <2>2, <2>3 DEF AssignFails
<1>7. CASE EmplaceFails(i, k, v)
  <2> HIDE DEF IInv
  <2>1. keys' = keys
    BY <1>7 DEF EmplaceFails
  <2>2. CASE UNCHANGED <<values, dataMap>>
    BY <1>1, <1>2, <2>1, <2>2
  <2>3. CASE Emplaced(i, v) /\ UNCHANGED dataMap
    <3>1. /\ values' \in [Impl -> Seq(Data)]
          /\ Len(values'[i]) = Len(values[i]) + 1
          /\ \A l \in Impl \ {i} : values'[l] = values[l]
      BY <2>3, EmplacedPlaces
    <3>2. \A l \in Impl : Len(values[l]) <= Len(values'[l]) /\ Len(values'[l]) \in Nat
      BY <1>2, <3>1
    <3>3. \A l \in Impl : \A j \in Key : dataMap'[l][j] <= Len(values'[l])
      BY <1>1, <1>2, <2>3, <3>2
    <3> QED
      BY <1>1, <1>2, <2>1, <2>3, <3>1, <3>3
  <2>4. CASE Emplaced(i, v) /\ Indexed(i, k)
    BY <1>1, <1>2, <2>1, <2>4, GrownPlaces
  <2> QED
    BY <1>7, <2>2, <2>3, <2>4 DEF EmplaceFails
<1> QED
  BY <1>4, <1>5, <1>6, <1>7 DEF Changed

LEMMA InitAgree == Init => IInv
  BY DEF Init, IInv, TypeOK, IndexesAgree

LEMMA StepAgree == IInv /\ [Next]_vars => IInv'
<1> SUFFICES ASSUME IInv, [Next]_vars
             PROVE  IInv'
  OBVIOUS
<1>0. impl \in [Handle -> Impl \cup {None}] /\ None \notin Impl
  BY NoneAssumption DEF IInv, TypeOK
<1>1. CASE UNCHANGED vars
  BY <1>1 DEF vars, IInv, TypeOK, IndexesAgree
<1>2. ASSUME NEW h \in Handle, NEW i \in Impl, Construct(h, i)
      PROVE  IInv'
  <2>1. Emptied(i) /\ impl' \in [Handle -> Impl \cup {None}]
    BY <1>0, <1>2 DEF Construct, Emptied
  <2> QED
    BY <2>1, EmptiedAgree
<1>3. ASSUME NEW h \in Handle, NEW g \in Handle, Copy(h, g)
      PROVE  IInv'
  <2>1. impl' \in [Handle -> Impl \cup {None}] /\ UNCHANGED <<keys, values, dataMap>>
    BY <1>0, <1>3 DEF Copy
  <2> QED
    BY <2>1 DEF IInv, TypeOK, IndexesAgree
<1>4. ASSUME NEW h \in Handle, Destroy(h)
      PROVE  IInv'
  <2>1. impl' \in [Handle -> Impl \cup {None}] /\ UNCHANGED <<keys, values, dataMap>>
    BY <1>0, <1>4 DEF Destroy
  <2> QED
    BY <2>1 DEF IInv, TypeOK, IndexesAgree
<1>5. ASSUME NEW h \in Handle, NEW k \in Key, NEW v \in Value, PutData(h, k, v)
      PROVE  IInv'
  <2>1. impl[h] \in Impl /\ impl' = impl /\ Changed(impl[h], k, v)
    BY <1>0, <1>5 DEF PutData, Changed
  <2> QED
    BY <2>1, ChangedAgree
<1>6. ASSUME NEW h \in Handle, Clear(h)
      PROVE  IInv'
  <2>1. impl[h] \in Impl /\ Emptied(impl[h]) /\ impl' = impl
    BY <1>0, <1>6 DEF Clear, Emptied
  <2> QED
    BY <1>0, <2>1, EmptiedAgree
<1>7. ASSUME NEW h \in Handle, Insert(h) \/ InsertNothing(h)
      PROVE  IInv'
  <2>1. UNCHANGED <<impl, keys, values, dataMap>>
    BY <1>7 DEF Insert, InsertNothing
  <2> QED
    BY <2>1 DEF IInv, TypeOK, IndexesAgree
<1> QED
  BY <1>1, <1>2, <1>3, <1>4, <1>5, <1>6, <1>7 DEF Next

\* Through every order of puts, clears, copies and puts that threw, every key
\* of a container has a place of its own in _values.
THEOREM IndexesCorrect == Spec => []IndexesAgree
<1>1. IInv => IndexesAgree
  BY DEF IInv
<1> QED
  BY <1>1, InitAgree, StepAgree, PTL DEF Spec

\* Every variable keeps its type: what insert binds is a value that was put, or
\* what an assignment that threw left of one.
THEOREM TypeCorrect == Spec => []TypeOK
<1>1. IInv => TypeOK
  BY DEF IInv
<1> QED
  BY <1>1, InitAgree, StepAgree, PTL DEF Spec

-----------------------------------------------------------------------------
(* The refinement. *)

MapOf(ks, vs, dm) == [k \in Key |-> IF k \in ks THEN vs[dm[k]] ELSE None]

DoubtOf(ks, vs, dm) ==
  [k \in Key |-> IF k \notin ks /\ dm[k] # 0 THEN {vs[dm[k]]} ELSE {}]

Same(l) == keys'[l] = keys[l] /\ values'[l] = values[l] /\ dataMap'[l] = dataMap[l]

\* A step that leaves the containers alone leaves the map alone.
LEMMA MapKept ==
  ASSUME UNCHANGED <<keys, values, dataMap>>
  PROVE  map' = map /\ doubt' = doubt
BY DEF map, doubt, GetData

\* A step on the containers of i changes the map of i alone.
LEMMA MapOfOne ==
  ASSUME NEW i \in Impl, \A l \in Impl \ {i} : Same(l)
  PROVE  /\ map' = [map EXCEPT ![i] = MapOf(keys'[i], values'[i], dataMap'[i])]
         /\ doubt' = [doubt EXCEPT ![i] = DoubtOf(keys'[i], values'[i], dataMap'[i])]
<1>1. /\ map = [l \in Impl |-> MapOf(keys[l], values[l], dataMap[l])]
      /\ doubt = [l \in Impl |-> DoubtOf(keys[l], values[l], dataMap[l])]
  BY DEF map, doubt, GetData, MapOf, DoubtOf
<1>2. /\ map' = [l \in Impl |-> MapOf(keys'[l], values'[l], dataMap'[l])]
      /\ doubt' = [l \in Impl |-> DoubtOf(keys'[l], values'[l], dataMap'[l])]
  BY DEF map, doubt, GetData, MapOf, DoubtOf
<1>3. \A l \in Impl \ {i} :
        /\ MapOf(keys'[l], values'[l], dataMap'[l]) = MapOf(keys[l], values[l], dataMap[l])
        /\ DoubtOf(keys'[l], values'[l], dataMap'[l]) = DoubtOf(keys[l], values[l], dataMap[l])
  BY DEF Same
<1> QED
  BY <1>1, <1>2, <1>3

\* An emptied container has an empty map, with nothing in doubt.
LEMMA EmptiedMap ==
  ASSUME IInv, NEW i \in Impl, Emptied(i)
  PROVE  /\ map' = [map EXCEPT ![i] = [k \in Key |-> None]]
         /\ doubt' = [doubt EXCEPT ![i] = [k \in Key |-> {}]]
<1>1. /\ keys'[i] = {}
      /\ dataMap'[i] = [k \in Key |-> 0]
      /\ \A l \in Impl \ {i} : Same(l)
  BY DEF IInv, TypeOK, Emptied, Same
<1>2. /\ MapOf(keys'[i], values'[i], dataMap'[i]) = [k \in Key |-> None]
      /\ DoubtOf(keys'[i], values'[i], dataMap'[i]) = [k \in Key |-> {}]
  BY <1>1 DEF MapOf, DoubtOf
<1> QED
  BY <1>1, <1>2, MapOfOne

\* The map and the doubts of i, key by key.
LEMMA MapAt ==
  ASSUME NEW i \in Impl
  PROVE  /\ map[i] = MapOf(keys[i], values[i], dataMap[i])
         /\ doubt[i] = DoubtOf(keys[i], values[i], dataMap[i])
BY DEF map, doubt, GetData, MapOf, DoubtOf

\* Replacing the value of a key of the container does so in the map.
LEMMA AssignedMap ==
  ASSUME IInv, NEW i \in Impl, NEW k \in keys[i], NEW w \in Data,
         Assigned(i, k, w),
         UNCHANGED <<keys, dataMap>>
  PROVE  /\ map' = [map EXCEPT ![i][k] = w]
         /\ doubt' = doubt
<1>1. /\ k \in Key /\ keys[i] \subseteq Key
      /\ dataMap[i][k] # 0
      /\ \A j \in keys[i] : dataMap[i][j] # 0
      /\ \A j \in Key : dataMap[i][j] = dataMap[i][k] => j = k
  BY DEF IInv, TypeOK, IndexesAgree
<1>2. /\ keys' = keys /\ dataMap' = dataMap
      /\ values'[i][dataMap[i][k]] = w
      /\ \A n \in 1 .. Len(values[i]) :
           n # dataMap[i][k] => values'[i][n] = values[i][n]
      /\ \A j \in Impl \ {i} : values'[j] = values[j]
  <2>1. keys' = keys /\ dataMap' = dataMap
    OBVIOUS
  <2>2. /\ values'[i][dataMap[i][k]] = w
        /\ \A n \in 1 .. Len(values[i]) :
             n # dataMap[i][k] => values'[i][n] = values[i][n]
        /\ \A j \in Impl \ {i} : values'[j] = values[j]
    BY <1>1, AssignedPlaces
  <2> QED
    BY <2>1, <2>2
<1>3. \A j \in Key : dataMap[i][j] # 0 => dataMap[i][j] \in 1 .. Len(values[i])
  BY KnownPlace
<1>4. \A j \in Key \ {k} : dataMap[i][j] # 0 => values'[i][dataMap[i][j]] = values[i][dataMap[i][j]]
  BY <1>1, <1>2, <1>3
<1>5. MapOf(keys'[i], values'[i], dataMap'[i]) = [MapOf(keys[i], values[i], dataMap[i]) EXCEPT ![k] = w]
  <2>1. \A j \in keys[i] : values'[i][dataMap[i][j]] = IF j = k THEN w ELSE values[i][dataMap[i][j]]
    BY <1>1, <1>2, <1>4
  <2>2. MapOf(keys'[i], values'[i], dataMap'[i]) =
          [j \in Key |-> IF j = k THEN w ELSE IF j \in keys[i] THEN values[i][dataMap[i][j]] ELSE None]
    BY <1>1, <1>2, <2>1 DEF MapOf
  <2> QED
    BY <1>1, <2>2 DEF MapOf
<1>6. DoubtOf(keys'[i], values'[i], dataMap'[i]) = DoubtOf(keys[i], values[i], dataMap[i])
  <2>1. \A j \in Key :
          j \notin keys[i] /\ dataMap[i][j] # 0 => values'[i][dataMap[i][j]] = values[i][dataMap[i][j]]
    BY <1>1, <1>4
  <2> QED
    BY <1>2, <2>1 DEF DoubtOf
<1>7. \A l \in Impl \ {i} : Same(l)
  BY <1>2 DEF Same
<1>8. /\ map' = [map EXCEPT ![i] = [map[i] EXCEPT ![k] = w]]
      /\ doubt' = [doubt EXCEPT ![i] = doubt[i]]
  BY <1>5, <1>6, <1>7, MapOfOne, MapAt
<1> QED
  BY <1>8 DEF doubt

\* emplace_back alone changes no key's value.
LEMMA LongerMap ==
  ASSUME IInv, NEW i \in Impl, NEW v \in Value, Emplaced(i, v),
         UNCHANGED <<keys, dataMap>>
  PROVE  map' = map /\ doubt' = doubt
<1>1. /\ \A n \in 1 .. Len(values[i]) : values'[i][n] = values[i][n]
      /\ \A j \in Impl \ {i} : values'[j] = values[j]
  BY EmplacedPlaces
<1>2. \A l \in Impl : \A j \in Key : dataMap[l][j] # 0 => dataMap[l][j] \in 1 .. Len(values[l])
  BY KnownPlace
<1>3. \A l \in Impl : \A j \in Key : dataMap[l][j] # 0 => values'[l][dataMap[l][j]] = values[l][dataMap[l][j]]
  BY <1>1, <1>2
<1>4. \A l \in Impl : \A j \in keys[l] : dataMap[l][j] # 0
  BY DEF IInv, IndexesAgree
<1> QED
  BY <1>3, <1>4 DEF map, doubt, GetData

\* With both emplace calls done, the new key has the new value, or the one in
\* doubt; it is in doubt itself until _keys has it.
LEMMA GrownMap ==
  ASSUME IInv, NEW i \in Impl, NEW k \in Key \ keys[i], NEW v \in Value,
         Emplaced(i, v), Indexed(i, k)
  PROVE  \E w \in {v} \cup doubt[i][k] :
           /\ keys' = [keys EXCEPT ![i] = @ \cup {k}] =>
                /\ map' = [map EXCEPT ![i][k] = w]
                /\ doubt' = [doubt EXCEPT ![i][k] = {}]
           /\ keys' = keys =>
                /\ map' = map
                /\ \/ doubt' = doubt
                   \/ doubt' = [doubt EXCEPT ![i][k] = @ \cup {v}]
<1> DEFINE n == Len(values[i])
<1>1. /\ keys \in [Impl -> SUBSET Key]
      /\ k \in Key /\ k \notin keys[i]
      /\ \A j \in keys[i] : dataMap[i][j] # 0
  BY DEF IInv, TypeOK, IndexesAgree
<1>2. /\ n \in Nat
      /\ values'[i][n + 1] = v
      /\ \A m \in 1 .. n : values'[i][m] = values[i][m]
      /\ \A l \in Impl \ {i} : values'[l] = values[l]
  BY EmplacedPlaces
<1>3. /\ dataMap[i][k] = 0 => dataMap'[i][k] = n + 1
      /\ dataMap[i][k] # 0 => dataMap'[i][k] = dataMap[i][k]
      /\ \A j \in Key \ {k} : dataMap'[i][j] = dataMap[i][j]
      /\ \A l \in Impl \ {i} : dataMap'[l] = dataMap[l]
  BY IndexedPlaces
<1>4. \A j \in Key : dataMap[i][j] # 0 => dataMap[i][j] \in 1 .. n
  BY KnownPlace
<1> HIDE DEF n
<1>5. \A j \in Key \ {k} :
        /\ dataMap'[i][j] = dataMap[i][j]
        /\ dataMap[i][j] # 0 => values'[i][dataMap'[i][j]] = values[i][dataMap[i][j]]
  BY <1>2, <1>3, <1>4
<1> DEFINE w == values'[i][dataMap'[i][k]]
<1>6. /\ dataMap'[i][k] # 0
      /\ dataMap[i][k] = 0 => w = v
      /\ dataMap[i][k] # 0 => w = values[i][dataMap[i][k]]
  BY <1>2, <1>3, <1>4
<1> HIDE DEF w
<1>7. doubt[i][k] = IF dataMap[i][k] # 0 THEN {values[i][dataMap[i][k]]} ELSE {}
  BY <1>1, MapAt DEF DoubtOf
<1>8. w \in {v} \cup doubt[i][k]
  BY <1>6, <1>7
<1>9. ASSUME keys' = [keys EXCEPT ![i] = @ \cup {k}]
      PROVE  /\ map' = [map EXCEPT ![i][k] = w]
             /\ doubt' = [doubt EXCEPT ![i][k] = {}]
  <2>1. keys'[i] = keys[i] \cup {k} /\ \A l \in Impl \ {i} : keys'[l] = keys[l]
    BY <1>1, <1>9
  <2>2. MapOf(keys'[i], values'[i], dataMap'[i]) = [MapOf(keys[i], values[i], dataMap[i]) EXCEPT ![k] = w]
    BY <1>1, <1>5, <2>1 DEF MapOf, w
  <2>3. DoubtOf(keys'[i], values'[i], dataMap'[i]) = [DoubtOf(keys[i], values[i], dataMap[i]) EXCEPT ![k] = {}]
    BY <1>1, <1>5, <2>1 DEF DoubtOf
  <2>4. \A l \in Impl \ {i} : Same(l)
    BY <1>2, <1>3, <2>1 DEF Same
  <2> QED
    BY <2>2, <2>3, <2>4, MapOfOne, MapAt
<1>10. ASSUME keys' = keys
       PROVE  /\ map' = map
              /\ \/ doubt' = doubt
                 \/ doubt' = [doubt EXCEPT ![i][k] = @ \cup {v}]
  <2>1. MapOf(keys'[i], values'[i], dataMap'[i]) = MapOf(keys[i], values[i], dataMap[i])
    BY <1>1, <1>5, <1>10 DEF MapOf
  <2>2. DoubtOf(keys'[i], values'[i], dataMap'[i]) = [DoubtOf(keys[i], values[i], dataMap[i]) EXCEPT ![k] = {w}]
    BY <1>1, <1>5, <1>6, <1>10 DEF DoubtOf, w
  <2>3. \A l \in Impl \ {i} : Same(l)
    BY <1>2, <1>3, <1>10 DEF Same
  <2>4. /\ map' = [map EXCEPT ![i] = map[i]]
        /\ doubt' = [doubt EXCEPT ![i][k] = {w}]
    BY <2>1, <2>2, <2>3, MapOfOne, MapAt
  <2>5. map' = map
    BY <2>4 DEF map
  <2>6. CASE dataMap[i][k] = 0
    BY <1>6, <1>7, <2>4, <2>5, <2>6
  <2>7. CASE dataMap[i][k] # 0
    <3>1. doubt[i][k] = {w}
      BY <1>6, <1>7, <2>7
    <3>2. [doubt[i] EXCEPT ![k] = {w}] = doubt[i]
      BY <3>1, MapAt DEF DoubtOf
    <3>3. doubt' = [doubt EXCEPT ![i] = doubt[i]]
      BY <2>4, <3>2
    <3>4. doubt' = doubt
      BY <3>3 DEF doubt
    <3> QED
      BY <2>5, <3>4
  <2> QED
    BY <2>6, <2>7
<1> QED
  BY <1>8, <1>9, <1>10

\* The values a container gives for a row.
LEMMA BoundRow ==
  ASSUME IInv, NEW i \in Impl,
         NEW first \in [{Column[k] : k \in keys[i]} -> keys[i]],
         \A c \in {Column[k] : k \in keys[i]} : Column[first[c]] = c
  PROVE  /\ Bound(i, first) \in [KVM!Columns -> Value \cup {None, Torn}]
         /\ KVM!RowOf(Bound(i, first), map[i])
<1> DEFINE named == {Column[k] : k \in keys[i]}
<1>1. /\ keys[i] \subseteq Key
      /\ \A k \in keys[i] : dataMap[i][k] # 0
  BY DEF IInv, TypeOK, IndexesAgree
<1>2. \A k \in keys[i] : GetData(i, k) \in Data /\ k \in Key
  BY <1>1, KnownPlace
<1>3. \A k \in Key : map[i][k] = IF k \in keys[i] THEN GetData(i, k) ELSE None
  BY DEF map
<1>4. KVM!Columns = Columns /\ named \subseteq Columns
  BY <1>1 DEF KVM!Columns, Columns
<1>5. \A c \in Columns :
        Bound(i, first)[c] = IF c \in named THEN GetData(i, first[c]) ELSE None
  BY DEF Bound
<1>6. Bound(i, first) \in [KVM!Columns -> Value \cup {None, Torn}]
  BY <1>2, <1>4 DEF Bound, Data
<1>7. None \notin Data
  BY NoneAssumption DEF Data
<1>8. ASSUME NEW c \in Columns,
             NEW S, S = {k \in Key : Column[k] = c /\ map[i][k] # None}
      PROVE  IF S = {} THEN Bound(i, first)[c] = None
                       ELSE \E k \in S : Bound(i, first)[c] = map[i][k]
  <2>1. S = {k \in keys[i] : Column[k] = c}
    BY <1>1, <1>2, <1>3, <1>7, <1>8
  <2>2. CASE c \in named
    <3>1. first[c] \in S
      BY <2>1, <2>2
    <3>2. Bound(i, first)[c] = map[i][first[c]]
      BY <1>1, <1>3, <1>5, <2>1, <2>2, <3>1
    <3> QED
      BY <3>1, <3>2
  <2>3. CASE c \notin named
    <3>1. S = {}
      BY <2>1, <2>3
    <3> QED
      BY <1>5, <2>3, <3>1
  <2> QED
    BY <2>2, <2>3
<1>9. KVM!RowOf(Bound(i, first), map[i])
  BY <1>4, <1>8 DEF KVM!RowOf
<1> QED
  BY <1>6, <1>9

LEMMA InitImplements == Init => KVM!Init
BY DEF Init, KVM!Init, map, doubt, Columns, KVM!Columns

\* Every step of the containers is a step of the map, or changes nothing of it.
LEMMA StepImplements == IInv /\ [Next]_vars => [KVM!Next]_KVM!vars
<1> SUFFICES ASSUME IInv, [Next]_vars
             PROVE  KVM!Next \/ UNCHANGED KVM!vars
  OBVIOUS
<1>0. /\ impl \in [Handle -> Impl \cup {None}] /\ None \notin Impl
      /\ keys \in [Impl -> SUBSET Key]
      /\ \A h \in Handle : impl[h] # None => impl[h] \in Impl
  BY NoneAssumption DEF IInv, TypeOK
<1>1. CASE UNCHANGED vars
  BY <1>1, MapKept DEF vars, KVM!vars
<1>2. ASSUME NEW h \in Handle, NEW i \in Impl, Construct(h, i)
      PROVE  KVM!Next
  <2>1. Emptied(i)
    BY <1>2 DEF Construct, Emptied
  <2>2. KVM!New(h, i)
    BY <1>2, <2>1, EmptiedMap DEF Construct, KVM!New, KVM!Unused
  <2> QED
    BY <2>2 DEF KVM!Next
<1>3. ASSUME NEW h \in Handle, NEW g \in Handle, Copy(h, g)
      PROVE  KVM!Next
  <2>1. KVM!Assign(h, impl[g])
    BY <1>3, MapKept DEF Copy, KVM!Assign
  <2> QED
    BY <2>1 DEF KVM!Next
<1>4. ASSUME NEW h \in Handle, Destroy(h)
      PROVE  KVM!Next
  <2>1. KVM!Assign(h, None)
    BY <1>4, MapKept DEF Destroy, KVM!Assign
  <2> QED
    BY <2>1 DEF KVM!Next
<1>5. ASSUME NEW h \in Handle, NEW k \in Key, NEW v \in Value, PutData(h, k, v)
      PROVE  KVM!Next
  <2> DEFINE i == impl[h]
  <2>1. i \in Impl /\ impl' = impl /\ impl[h] # None
    BY <1>0, <1>5 DEF PutData
  <2>2. v \in Data /\ Torn \in Data
    BY DEF Data
  <2>3. CASE PutKnown(i, k, v) /\ last' = <<"put", k, v>>
    <3>1. k \in keys[i] /\ Assigned(i, k, v) /\ UNCHANGED <<keys, dataMap>>
      BY <2>3 DEF PutKnown
    <3>2. map' = [map EXCEPT ![i][k] = v] /\ doubt' = doubt
      BY <2>1, <2>2, <3>1, AssignedMap
    <3>3. doubt[i] = [doubt[i] EXCEPT ![k] = {}]
      <4>1. doubt[i] = DoubtOf(keys[i], values[i], dataMap[i])
        BY <2>1, MapAt
      <4>2. DoubtOf(keys[i], values[i], dataMap[i]) =
              [DoubtOf(keys[i], values[i], dataMap[i]) EXCEPT ![k] = {}]
        BY <3>1 DEF DoubtOf
      <4> QED
        BY <4>1, <4>2
    <3>4. doubt' = [doubt EXCEPT ![i][k] = {}]
      BY <3>2, <3>3 DEF doubt
    <3>5. KVM!Put(i, k, v)
      BY <2>1, <2>3, <3>2, <3>4 DEF KVM!Put
    <3> QED
      BY <2>1, <3>5 DEF KVM!Next
  <2>4. CASE PutNew(i, k, v) /\ last' = <<"put", k, v>>
    <3>1. /\ k \in Key \ keys[i] /\ Emplaced(i, v) /\ Indexed(i, k)
          /\ keys' = [keys EXCEPT ![i] = @ \cup {k}]
      BY <2>4 DEF PutNew
    <3>2. \E w \in {v} \cup doubt[i][k] :
            /\ map' = [map EXCEPT ![i][k] = w]
            /\ doubt' = [doubt EXCEPT ![i][k] = {}]
      BY <2>1, <3>1, GrownMap
    <3>3. KVM!Put(i, k, v)
      BY <2>1, <2>4, <3>2 DEF KVM!Put
    <3> QED
      BY <2>1, <3>3 DEF KVM!Next
  <2>5. CASE AllocFails /\ AssignFails(i, k, v) /\ last' = <<"put threw", k, v>>
    <3>1. CASE values' = values
      <4>1. KVM!PutFails(i, k, v)
        BY <2>1, <2>5, <3>1, MapKept DEF AssignFails, KVM!PutFails
      <4> QED
        BY <2>1, <4>1 DEF KVM!Next
    <3>2. ASSUME NEW w \in {Torn, v}, Assigned(i, k, w)
          PROVE  KVM!Next
      <4>1. k \in keys[i] /\ UNCHANGED <<keys, dataMap>>
        BY <2>5 DEF AssignFails
      <4>2. map' = [map EXCEPT ![i][k] = w] /\ doubt' = doubt
        BY <2>1, <2>2, <3>2, <4>1, AssignedMap
      <4>3. map[i][k] # None
        <5>1. dataMap[i][k] # 0
          BY <2>1, <4>1 DEF IInv, IndexesAgree
        <5>2. GetData(i, k) \in Data
          BY <2>1, <5>1, KnownPlace
        <5> QED
          BY <2>1, <4>1, <5>2, NoneAssumption DEF map, Data
      <4>4. KVM!PutFails(i, k, v)
        BY <2>1, <2>5, <4>2, <4>3 DEF KVM!PutFails
      <4> QED
        BY <2>1, <4>4 DEF KVM!Next
    <3> QED
      BY <2>5, <3>1, <3>2 DEF AssignFails
  <2>6. CASE AllocFails /\ EmplaceFails(i, k, v) /\ last' = <<"put threw", k, v>>
    <3>1. k \in Key \ keys[i] /\ keys' = keys
      BY <2>6 DEF EmplaceFails
    <3>2. /\ map' = map
          /\ \/ doubt' = doubt
             \/ doubt' = [doubt EXCEPT ![i][k] = @ \cup {v}]
      <4>1. CASE UNCHANGED <<values, dataMap>>
        BY <3>1, <4>1, MapKept
      <4>2. CASE Emplaced(i, v) /\ UNCHANGED dataMap
        BY <2>1, <3>1, <4>2, LongerMap
      <4>3. CASE Emplaced(i, v) /\ Indexed(i, k)
        <5> HIDE DEF i
        <5>1. \E w \in {v} \cup doubt[i][k] :
                /\ keys' = [keys EXCEPT ![i] = @ \cup {k}] =>
                     /\ map' = [map EXCEPT ![i][k] = w]
                     /\ doubt' = [doubt EXCEPT ![i][k] = {}]
                /\ keys' = keys =>
                     /\ map' = map
                     /\ \/ doubt' = doubt
                        \/ doubt' = [doubt EXCEPT ![i][k] = @ \cup {v}]
          BY <2>1, <3>1, <4>3, GrownMap
        <5> QED
          BY <3>1, <5>1
      <4> QED
        BY <2>6, <4>1, <4>2, <4>3 DEF EmplaceFails
    <3>3. map[i][k] = None
      BY <2>1, <3>1 DEF map
    <3>4. KVM!PutFails(i, k, v)
      BY <2>1, <2>6, <3>2, <3>3 DEF KVM!PutFails
    <3> QED
      BY <2>1, <3>4 DEF KVM!Next
  <2> QED
    BY <1>5, <2>3, <2>4, <2>5, <2>6 DEF PutData
<1>6. ASSUME NEW h \in Handle, Clear(h)
      PROVE  KVM!Next
  <2>1. impl[h] \in Impl /\ impl[h] # None /\ Emptied(impl[h])
    BY <1>0, <1>6 DEF Clear, Emptied
  <2>2. KVM!Clear(impl[h])
    BY <1>6, <2>1, EmptiedMap DEF Clear, KVM!Clear
  <2> QED
    BY <2>1, <2>2 DEF KVM!Next
<1>7. ASSUME NEW h \in Handle, Insert(h)
      PROVE  KVM!Next
  <2> DEFINE i == impl[h]
  <2>1. i \in Impl /\ impl[h] # None /\ keys[i] # {}
    BY <1>0, <1>7 DEF Insert
  <2>2. PICK first \in [{Column[k] : k \in keys[i]} -> keys[i]] :
          /\ \A c \in {Column[k] : k \in keys[i]} : Column[first[c]] = c
          /\ last' = <<"insert", Bound(i, first)>>
    BY <1>7 DEF Insert
  <2>3. /\ Bound(i, first) \in [KVM!Columns -> Value \cup {None, Torn}]
        /\ KVM!RowOf(Bound(i, first), map[i])
    BY <2>1, <2>2, BoundRow
  <2>4. \E k \in Key : map[i][k] # None
    <3>1. PICK k \in keys[i] : TRUE
      BY <2>1
    <3>2. k \in Key /\ dataMap[i][k] # 0
      BY <1>0, <2>1, <3>1 DEF IInv, IndexesAgree
    <3>3. GetData(i, k) \in Data
      BY <2>1, <3>2, KnownPlace
    <3> QED
      BY <2>1, <3>1, <3>2, <3>3, NoneAssumption DEF map, Data
  <2>5. KVM!Insert(i)
    BY <1>7, <2>2, <2>3, <2>4, MapKept DEF Insert, KVM!Insert
  <2> QED
    BY <2>1, <2>5 DEF KVM!Next
<1>8. ASSUME NEW h \in Handle, InsertNothing(h)
      PROVE  KVM!Next
  <2>1. impl[h] \in Impl /\ impl[h] # None /\ keys[impl[h]] = {}
    BY <1>0, <1>8 DEF InsertNothing
  <2>2. \A k \in Key : map[impl[h]][k] = None
    BY <2>1 DEF map
  <2>3. KVM!InsertNothing(impl[h])
    BY <1>8, <2>2, MapKept DEF InsertNothing, KVM!InsertNothing
  <2> QED
    BY <2>1, <2>3 DEF KVM!Next
<1> QED
  BY <1>1, <1>2, <1>3, <1>4, <1>5, <1>6, <1>7, <1>8 DEF Next

\* The three containers, with their shared ownership and the puts that throw,
\* are one map from key to value: each behaviour of MadContentValues is one of
\* KeyValueMap.
THEOREM ImplementsMap == Spec => IsKeyValueMap
BY InitAgree, StepAgree, InitImplements, StepImplements, PTL DEF Spec, IsKeyValueMap, KVM!Spec
=============================================================================
