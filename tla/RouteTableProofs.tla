-------------------------- MODULE RouteTableProofs --------------------------
(***************************************************************************)
(* The route table implements a map from targets to routes, for every      *)
(* capacity and number of routes: no operation leaves a pointer behind.    *)
(***************************************************************************)
EXTENDS RouteTable, TLAPS

Live == 0..(route_count - 1)

\* The invariant of the table itself, without the routes still to load.
TableOK ==
    /\ array \in Nat
    /\ route_capacity \in Nat
    /\ route_count \in 0..route_capacity
    /\ routes \in [0..(route_capacity - 1) -> Slot \cup {Blank}]
    /\ \A i \in Live : routes[i] \in Slot
    /\ hashtable \in [Target -> [array : Nat, index : Nat] \cup {NoRoute}]
    /\ IndexAgrees

\* What lookups return, said of the array alone.
LookupReadsArray ==
    \A t \in Target :
        /\ NotFound(t) => Lookup(t) = NoRoute
        /\ \A i \in Live : routes[i].target = t => Lookup(t) = routes[i].route

\* A table whose pointers agree with its array is read through them as if the
\* array were searched.
LEMMA LookupLemma == TableOK => LookupReadsArray
<1> SUFFICES ASSUME TableOK, NEW t \in Target
             PROVE  /\ NotFound(t) => Lookup(t) = NoRoute
                    /\ \A i \in Live : routes[i].target = t => Lookup(t) = routes[i].route
  BY DEF LookupReadsArray
<1> USE RouteAssumption
<1>1. NotFound(t) => Lookup(t) = NoRoute
  BY DEF TableOK, IndexAgrees, NotFound, Lookup
<1>2. ASSUME NEW i \in Live, routes[i].target = t
      PROVE  Lookup(t) = routes[i].route
  <2>1. hashtable[t] = Pointer(array, i)
    BY <1>2 DEF TableOK, IndexAgrees, Live
  <2>2. hashtable[t] # NoRoute
    BY <2>1, <1>2 DEF Pointer, TableOK, Live
  <2> QED
    BY <2>1, <2>2 DEF Lookup, At, Pointer
<1> QED
  BY <1>1, <1>2

\* No two routes of the array have the same target.
LEMMA TargetsDiffer ==
    ASSUME TableOK, NEW i \in Live, NEW j \in Live, routes[i].target = routes[j].target
    PROVE  i = j
<1>1. Pointer(array, i) = Pointer(array, j)
  BY DEF TableOK, IndexAgrees, Live
<1> QED
  BY <1>1 DEF Pointer

\* Where the hash table leads after pointers to distinct targets were inserted.
LEMMA ReindexedLemma ==
    ASSUME NEW table, NEW range, NEW new, NEW a,
           \A i \in range : new[i] \in Slot,
           \A i, j \in range : new[i].target = new[j].target => i = j
    PROVE  /\ \A i \in range : Reindexed(table, range, new, a)[new[i].target] = Pointer(a, i)
           /\ \A t \in Target : (\A i \in range : new[i].target # t) =>
                Reindexed(table, range, new, a)[t] = table[t]
<1>1. ASSUME NEW i \in range
      PROVE  Reindexed(table, range, new, a)[new[i].target] = Pointer(a, i)
  <2> DEFINE t == new[i].target
  <2>1. t \in Target
    BY DEF Slot
  <2>2. \E k \in range : new[k].target = t
    OBVIOUS
  <2>3. (CHOOSE k \in range : new[k].target = t) = i
    <3>1. \A k \in range : new[k].target = t => k = i
      OBVIOUS
    <3> QED
      BY <3>1, <2>2
  <2> QED
    BY <2>1, <2>2, <2>3 DEF Reindexed
<1>2. ASSUME NEW t \in Target, \A i \in range : new[i].target # t
      PROVE  Reindexed(table, range, new, a)[t] = table[t]
  BY <1>2 DEF Reindexed
<1> QED
  BY <1>1, <1>2

\* Clearing the table leaves it in order, and empty.
LEMMA ClearKeeps ==
    ASSUME TableOK, ClearTable
    PROVE  TableOK' /\ \A t \in Target : Lookup(t)' = NoRoute
  BY RouteAssumption DEF TableOK, ClearTable, IndexAgrees, Live, Lookup

\* How an operation on the route of one target looks through lookups.
OthersKept(t) == \A u \in Target : u # t => Lookup(u)' = Lookup(u)

\* A route that has a slot is overwritten there.
LEMMA AddExistingKeeps ==
    ASSUME TableOK, NEW t \in Target, NEW route \in Route, AddExisting(t, route)
    PROVE  TableOK' /\ Lookup(t)' = route /\ OthersKept(t)
<1> USE RouteAssumption
<1>1. PICK i \in Live :
        /\ routes[i].target = t
        /\ routes' = [routes EXCEPT ![i] = [target |-> t, route |-> route]]
        /\ hashtable' = [hashtable EXCEPT ![t] = Pointer(array, i)]
  BY DEF AddExisting, FoundAt, Live
<1>2. UNCHANGED <<array, route_count, route_capacity>>
  BY DEF AddExisting
<1>3. hashtable[t] = Pointer(array, i)
  BY <1>1 DEF TableOK, IndexAgrees, Live
<1>4. hashtable' = hashtable
  BY <1>1, <1>3 DEF TableOK
<1>5. /\ i \in 0..(route_capacity - 1)
      /\ [target |-> t, route |-> route] \in Slot
  BY <1>1 DEF TableOK, Live, Slot
<1>6. /\ routes' \in [0..(route_capacity - 1) -> Slot \cup {Blank}]
      /\ routes'[i] = [target |-> t, route |-> route]
      /\ \A j \in 0..(route_capacity - 1) : j # i => routes'[j] = routes[j]
      /\ \A j \in Live : j \in 0..(route_capacity - 1)
  BY <1>1, <1>5 DEF TableOK, Live
<1>7. \A j \in Live : routes'[j] \in Slot /\ routes'[j].target = routes[j].target
  BY <1>1, <1>5, <1>6 DEF TableOK
<1>8. IndexAgrees'
  BY <1>2, <1>4, <1>7 DEF TableOK, IndexAgrees, Live, Pointer
<1>9. TableOK'
  BY <1>2, <1>4, <1>6, <1>7, <1>8 DEF TableOK, Live
<1>10. Lookup(t)' = route
  BY <1>2, <1>3, <1>4, <1>5, <1>6 DEF Lookup, At, Pointer, TableOK
<1>11. OthersKept(t)
  <2> SUFFICES ASSUME NEW u \in Target, u # t
               PROVE  Lookup(u)' = Lookup(u)
    BY DEF OthersKept
  <2>1. CASE hashtable[u] = NoRoute
    BY <2>1, <1>4 DEF Lookup
  <2>2. CASE hashtable[u] # NoRoute
    <3>1. /\ hashtable[u].array = array
          /\ hashtable[u].index \in 0..(route_capacity - 1)
          /\ hashtable[u].index # i
      BY <2>2, <1>1 DEF TableOK, IndexAgrees
    <3> QED
      BY <3>1, <2>2, <1>2, <1>4, <1>6 DEF Lookup, At
  <2> QED
    BY <2>1, <2>2
<1> QED
  BY <1>9, <1>10, <1>11

\* A new route in the first unused slot.
LEMMA AddInPlaceKeeps ==
    ASSUME TableOK, NEW t \in Target, NEW route \in Route,
           NEW indexed \in BOOLEAN, AddInPlace(t, route, indexed)
    PROVE  /\ TableOK'
           /\ OthersKept(t)
           /\ Lookup(t)' = IF indexed THEN route ELSE Lookup(t)
<1> USE RouteAssumption
<1> DEFINE slot == [target |-> t, route |-> route]
<1>1. /\ NotFound(t) /\ route_count < route_capacity
      /\ routes' = [routes EXCEPT ![route_count] = slot]
      /\ UNCHANGED <<array, route_capacity>>
  BY DEF AddInPlace, HasRoom
<1>2. slot \in Slot /\ slot.target = t /\ slot.route = route
  BY DEF Slot
<1>3. route_count \in 0..(route_capacity - 1) /\ Live \subseteq 0..(route_capacity - 1)
  BY <1>1 DEF TableOK, Live
<1>4. /\ routes' \in [0..(route_capacity - 1) -> Slot \cup {Blank}]
      /\ routes'[route_count] = slot
      /\ \A j \in Live : routes'[j] = routes[j]
  BY <1>1, <1>2, <1>3 DEF TableOK, Live
<1>5. hashtable[t] = NoRoute
  BY <1>1 DEF NotFound, TableOK, IndexAgrees
<1>6. CASE indexed
  <2>1. /\ hashtable' = [hashtable EXCEPT ![t] = Pointer(array, route_count)]
        /\ route_count' = route_count + 1
    BY <1>6 DEF AddInPlace
  <2>2. Pointer(array, route_count) \in [array : Nat, index : Nat]
    BY DEF Pointer, TableOK
  <2>3. Live' = Live \cup {route_count} /\ route_count' \in 0..route_capacity
    BY <2>1, <1>3 DEF Live, TableOK
  <2>4. /\ hashtable' \in [Target -> [array : Nat, index : Nat] \cup {NoRoute}]
        /\ hashtable'[t] = Pointer(array, route_count)
        /\ \A u \in Target : u # t => hashtable'[u] = hashtable[u]
    BY <2>1, <2>2 DEF TableOK
  <2>5. \A j \in Live' : routes'[j] \in Slot
    BY <2>3, <1>2, <1>4 DEF TableOK
  <2>6. ASSUME NEW u \in Target, hashtable'[u] # NoRoute
        PROVE  /\ hashtable'[u].array = array
               /\ hashtable'[u].index \in Live'
               /\ routes'[hashtable'[u].index].target = u
    <3>1. CASE u = t
      BY <3>1, <2>3, <2>4, <1>2, <1>4 DEF Pointer
    <3>2. CASE u # t
      BY <3>2, <2>6, <2>3, <2>4, <1>4 DEF TableOK, IndexAgrees, Live
    <3> QED
      BY <3>1, <3>2
  <2>7. ASSUME NEW j \in Live'
        PROVE  hashtable'[routes'[j].target] = Pointer(array, j)
    <3>1. CASE j = route_count
      BY <3>1, <2>4, <1>2, <1>4
    <3>2. CASE j \in Live
      <4>1. routes[j].target \in Target /\ routes[j].target # t
        BY <3>2, <1>1 DEF NotFound, Live, TableOK, Slot
      <4> QED
        BY <4>1, <3>2, <2>4, <1>4 DEF TableOK, IndexAgrees, Live
    <3> QED
      BY <3>1, <3>2, <2>3
  <2>8. IndexAgrees'
    BY <2>6, <2>7, <1>1 DEF IndexAgrees, Live
  <2>9. TableOK'
    BY <1>1, <1>4, <2>3, <2>4, <2>5, <2>8 DEF TableOK
  <2>10. Lookup(t)' = route
    BY <2>2, <2>4, <1>1, <1>2, <1>4 DEF Lookup, At, Pointer
  <2>11. OthersKept(t)
    BY <2>4, <1>1, <1>4 DEF OthersKept, Lookup, At, TableOK, IndexAgrees, Live
  <2> QED
    BY <2>9, <2>10, <2>11, <1>6
<1>7. CASE ~indexed
  <2>1. UNCHANGED <<hashtable, route_count>>
    BY <1>7 DEF AddInPlace
  <2>2. TableOK'
    BY <2>1, <1>1, <1>4 DEF TableOK, IndexAgrees, Live, Pointer
  <2>3. \A u \in Target : Lookup(u)' = Lookup(u)
    BY <2>1, <1>1, <1>4 DEF Lookup, At, TableOK, IndexAgrees, Live
  <2> QED
    BY <2>2, <2>3, <1>7 DEF OthersKept
<1> QED
  BY <1>6, <1>7

\* A new route that makes the array move to other memory: the pointers of all
\* routes move with it.
LEMMA AddGrownKeeps ==
    ASSUME TableOK, NEW t \in Target, NEW route \in Route,
           NEW indexed \in BOOLEAN, AddGrown(t, route, indexed)
    PROVE  /\ TableOK'
           /\ OthersKept(t)
           /\ Lookup(t)' = IF indexed THEN route ELSE Lookup(t)
<1> USE RouteAssumption
<1> DEFINE slot == [target |-> t, route |-> route]
           range == IF indexed THEN 0..route_count ELSE Live
<1>1. /\ NotFound(t) /\ ~(route_count < route_capacity)
      /\ array' = array + 1
      /\ routes' = GrownRoutes(t, route)
      /\ route_capacity' = GrownCapacity
  BY DEF AddGrown, HasRoom
<1>2. slot \in Slot /\ slot.target = t /\ slot.route = route
  BY DEF Slot
<1>3. /\ GrownCapacity \in Nat /\ route_count < GrownCapacity
      /\ array' \in Nat /\ route_count \in Nat
  BY <1>1 DEF GrownCapacity, TableOK
<1>4. /\ routes' \in [0..(route_capacity' - 1) -> Slot \cup {Blank}]
      /\ routes'[route_count] = slot
      /\ \A j \in Live : routes'[j] = routes[j]
  BY <1>1, <1>2, <1>3 DEF GrownRoutes, TableOK, Live
<1>5. /\ hashtable' = Reindexed(hashtable, range, routes', array')
      /\ route_count' = IF indexed THEN route_count + 1 ELSE route_count
  BY DEF AddGrown, Live
<1>6. /\ range = Live' /\ range \in SUBSET Nat
      /\ route_count' \in 0..route_capacity'
      /\ Live \subseteq range /\ range \subseteq Live \cup {route_count}
  BY <1>1, <1>3, <1>5 DEF Live, TableOK
<1>7. \A j \in range : routes'[j] \in Slot
  BY <1>2, <1>4, <1>6 DEF TableOK
<1>8. \A j \in Live : routes[j].target # t
  BY <1>1 DEF NotFound, Live
<1>9. ASSUME NEW j \in range, NEW k \in range, routes'[j].target = routes'[k].target
      PROVE  j = k
  <2>1. CASE j \in Live /\ k \in Live
    BY <2>1, <1>9, <1>4, TargetsDiffer
  <2>2. CASE ~(j \in Live /\ k \in Live)
    BY <2>2, <1>9, <1>2, <1>4, <1>6, <1>8
  <2> QED
    BY <2>1, <2>2
<1>10. /\ \A j \in range : hashtable'[routes'[j].target] = Pointer(array', j)
       /\ \A u \in Target : (\A j \in range : routes'[j].target # u) =>
            hashtable'[u] = hashtable[u]
  <2>1. \A j, k \in range : routes'[j].target = routes'[k].target => j = k
    BY <1>9
  <2> HIDE DEF range
  <2>2. /\ \A j \in range :
            Reindexed(hashtable, range, routes', array')[routes'[j].target] = Pointer(array', j)
        /\ \A u \in Target : (\A j \in range : routes'[j].target # u) =>
            Reindexed(hashtable, range, routes', array')[u] = hashtable[u]
    BY <2>1, <1>7, ReindexedLemma
  <2> QED
    BY <2>2, <1>5
<1>11. ASSUME NEW u \in Target, \A j \in range : routes'[j].target # u
       PROVE  hashtable'[u] = NoRoute
  <2>1. NotFound(u)
    BY <1>11, <1>4, <1>6 DEF NotFound, Live
  <2>2. hashtable[u] = NoRoute
    BY <2>1 DEF NotFound, TableOK, IndexAgrees
  <2> QED
    BY <2>2, <1>10, <1>11
<1>12. \A j \in range : Pointer(array', j) \in [array : Nat, index : Nat]
  BY <1>3, <1>6 DEF Pointer
<1>13. hashtable' \in [Target -> [array : Nat, index : Nat] \cup {NoRoute}]
  <2>1. hashtable' = [u \in Target |-> hashtable'[u]]
    BY <1>5 DEF Reindexed
  <2>2. ASSUME NEW u \in Target
        PROVE  hashtable'[u] \in [array : Nat, index : Nat] \cup {NoRoute}
    BY <1>10, <1>11, <1>12
  <2> QED
    BY <2>1, <2>2
<1>14. IndexAgrees'
  <2>1. ASSUME NEW u \in Target, hashtable'[u] # NoRoute
        PROVE  /\ hashtable'[u].array = array'
               /\ hashtable'[u].index \in range
               /\ routes'[hashtable'[u].index].target = u
    <3>1. PICK j \in range : routes'[j].target = u
      BY <2>1, <1>11
    <3>2. hashtable'[u] = Pointer(array', j)
      BY <3>1, <1>10
    <3> QED
      BY <3>1, <3>2 DEF Pointer
  <2> QED
    BY <2>1, <1>6, <1>10 DEF IndexAgrees, Live
<1>15. TableOK'
  BY <1>1, <1>3, <1>4, <1>6, <1>7, <1>13, <1>14 DEF TableOK
<1>16. LookupReadsArray /\ LookupReadsArray'
  <2>1. TableOK' => LookupReadsArray'
    BY LookupLemma, PTL
  <2> QED
    BY <2>1, <1>15, LookupLemma
<1>17. ASSUME NEW u \in Target, ~(u = t /\ indexed)
       PROVE  Lookup(u)' = Lookup(u)
  <2>1. CASE \E j \in Live : routes[j].target = u
    <3>1. PICK j \in Live : routes[j].target = u
      BY <2>1
    <3>2. Lookup(u) = routes[j].route
      BY <3>1, <1>16 DEF LookupReadsArray
    <3>3. j \in Live' /\ routes'[j] = routes[j]
      BY <3>1, <1>4, <1>6
    <3>4. Lookup(u)' = routes'[j].route
      BY <3>1, <3>3, <1>16 DEF LookupReadsArray
    <3> QED
      BY <3>2, <3>3, <3>4
  <2>2. CASE \A j \in Live : routes[j].target # u
    <3>1. NotFound(u)
      BY <2>2 DEF NotFound, Live
    <3>2. \A j \in range : routes'[j].target # u
      BY <2>2, <1>17, <1>2, <1>4, <1>6
    <3>3. NotFound(u)'
      BY <3>2, <1>6 DEF NotFound, Live
    <3> QED
      BY <3>1, <3>3, <1>16 DEF LookupReadsArray
  <2> QED
    BY <2>1, <2>2
<1>18. indexed => Lookup(t)' = route
  <2>1. indexed => route_count \in Live'
    BY <1>3, <1>6
  <2> QED
    BY <2>1, <1>2, <1>4, <1>16 DEF LookupReadsArray
<1> QED
  BY <1>15, <1>17, <1>18 DEF OthersKept

\* The routes behind the removed one move down, their pointers with them.
LEMMA RemoveKeeps ==
    ASSUME TableOK, NEW t \in Target, Remove(t)
    PROVE  TableOK' /\ Lookup(t)' = NoRoute /\ OthersKept(t)
<1> USE RouteAssumption
<1>1. PICK i \in Live :
        /\ routes[i].target = t
        /\ routes' = [j \in 0..(route_capacity - 1) |->
                        IF j \in i..(route_count - 2) THEN routes[j + 1] ELSE routes[j]]
        /\ hashtable' = Reindexed([hashtable EXCEPT ![t] = NoRoute],
                                   i..(route_count - 2), routes', array)
  BY DEF Remove, FoundAt, Live
<1> DEFINE moved == i..(route_count - 2)
           kept == [hashtable EXCEPT ![t] = NoRoute]
<1>2. /\ route_count' = route_count - 1
      /\ UNCHANGED <<array, route_capacity>>
  BY DEF Remove
<1>3. /\ i \in Nat /\ i < route_count /\ route_count \in Nat
      /\ route_capacity \in Nat /\ route_count <= route_capacity
  BY <1>1 DEF Live, TableOK
<1>4. /\ Live' = 0..(route_count - 2)
      /\ \A j \in Live' : j \in Live /\ j + 1 \in Live
      /\ moved \subseteq Live'
      /\ route_count' \in 0..route_capacity'
  BY <1>2, <1>3 DEF Live
<1>5. /\ \A j \in moved : routes'[j] = routes[j + 1]
      /\ \A j \in Live' \ moved : routes'[j] = routes[j] /\ j < i
  BY <1>1, <1>3, <1>4
<1>6. routes' \in [0..(route_capacity - 1) -> Slot \cup {Blank}]
  <2>1. ASSUME NEW j \in 0..(route_capacity - 1), j \in moved
        PROVE  j + 1 \in 0..(route_capacity - 1)
    BY <2>1, <1>3
  <2> QED
    BY <2>1, <1>1 DEF TableOK
<1>7. \A j \in Live' : routes'[j] \in Slot
  BY <1>4, <1>5 DEF TableOK
<1>8. ASSUME NEW j \in Live'
      PROVE  \E k \in Live : /\ k # i /\ routes'[j] = routes[k]
                             /\ k = IF j \in moved THEN j + 1 ELSE j
  <2>1. CASE j \in moved
    <3>1. j + 1 \in Live /\ j + 1 # i
      BY <2>1, <1>3, <1>4
    <3> QED
      BY <3>1, <2>1, <1>5
  <2>2. CASE j \notin moved
    <3>1. j \in Live /\ j < i /\ routes'[j] = routes[j]
      BY <2>2, <1>4, <1>5
    <3>2. j # i
      BY <3>1, <1>3
    <3> QED
      BY <3>1, <3>2, <2>2
  <2> QED
    BY <2>1, <2>2
<1>9. \A j \in Live' : routes'[j].target # t
  BY <1>8, <1>1, TargetsDiffer
<1>10. ASSUME NEW j \in Live', NEW k \in Live', routes'[j].target = routes'[k].target
       PROVE  j = k
  <2>1. PICK m \in Live : routes'[j] = routes[m] /\ m = IF j \in moved THEN j + 1 ELSE j
    BY <1>8
  <2>2. PICK n \in Live : routes'[k] = routes[n] /\ n = IF k \in moved THEN k + 1 ELSE k
    BY <1>8
  <2>3. m = n
    BY <2>1, <2>2, <1>10, TargetsDiffer
  <2>4. j \in Nat /\ k \in Nat /\ j < route_count - 1 /\ k < route_count - 1
    BY <1>3, <1>4
  <2> QED
    BY <2>1, <2>2, <2>3, <2>4, <1>3
<1>11. /\ \A j \in moved : hashtable'[routes'[j].target] = Pointer(array, j)
       /\ \A u \in Target : (\A j \in moved : routes'[j].target # u) =>
            hashtable'[u] = kept[u]
  <2>1. /\ \A j \in moved : routes'[j] \in Slot
        /\ \A j, k \in moved : routes'[j].target = routes'[k].target => j = k
    BY <1>4, <1>7, <1>10
  <2>2. hashtable' = Reindexed(kept, moved, routes', array)
    BY <1>1
  <2> HIDE DEF moved, kept
  <2> QED
    BY <2>1, <2>2, ReindexedLemma
<1>12. /\ hashtable'[t] = NoRoute
       /\ \A u \in Target : u # t /\ (\A j \in moved : routes'[j].target # u) =>
            hashtable'[u] = hashtable[u]
  BY <1>4, <1>9, <1>11 DEF TableOK
<1>13. ASSUME NEW j \in Live'
       PROVE  hashtable'[routes'[j].target] = Pointer(array, j)
  <2>1. routes'[j].target \in Target /\ routes'[j].target # t
    BY <1>7, <1>9 DEF Slot
  <2>2. CASE j \in moved
    BY <2>1, <2>2, <1>11, <1>12
  <2>3. CASE j \notin moved
    <3>1. \A k \in moved : routes'[k].target # routes'[j].target
      BY <2>3, <1>4, <1>10
    <3>2. hashtable'[routes'[j].target] = hashtable[routes'[j].target]
      BY <3>1, <2>1, <1>11, <1>12
    <3> QED
      BY <3>2, <2>3, <1>4, <1>5 DEF TableOK, IndexAgrees, Live
  <2> QED
    BY <2>2, <2>3
<1>14. ASSUME NEW u \in Target, \A j \in Live' : routes'[j].target # u
       PROVE  hashtable'[u] = NoRoute
  <2>1. CASE u = t
    BY <2>1, <1>12
  <2>2. CASE u # t
    <3>1. hashtable'[u] = hashtable[u]
      BY <2>2, <1>4, <1>11, <1>12, <1>14
    <3>2. ASSUME NEW k \in Live, routes[k].target = u
          PROVE  FALSE
      <4>1. k # i
        BY <3>2, <2>2, <1>1
      <4>2. CASE k < i
        <5>1. k \in Nat
          BY DEF Live
        <5>2. k \in Live' /\ k \notin moved
          BY <5>1, <4>2, <1>3, <1>4
        <5> QED
          BY <5>2, <3>2, <1>5, <1>14
      <4>3. CASE k > i
        <5>1. k - 1 \in moved /\ (k - 1) + 1 = k
          BY <4>3, <1>3 DEF Live
        <5> QED
          BY <5>1, <3>2, <1>4, <1>5, <1>14
      <4> QED
        BY <4>1, <4>2, <4>3, <1>3 DEF Live
    <3> QED
      BY <3>1, <3>2 DEF TableOK, IndexAgrees, Live
  <2> QED
    BY <2>1, <2>2
<1>15. hashtable' \in [Target -> [array : Nat, index : Nat] \cup {NoRoute}]
  <2>1. hashtable' = [u \in Target |-> hashtable'[u]]
    BY <1>1 DEF Reindexed
  <2>2. \A j \in Live' : Pointer(array, j) \in [array : Nat, index : Nat]
    BY <1>4 DEF Pointer, TableOK
  <2>3. ASSUME NEW u \in Target
        PROVE  hashtable'[u] \in [array : Nat, index : Nat] \cup {NoRoute}
    BY <2>2, <1>13, <1>14
  <2> QED
    BY <2>1, <2>3
<1>16. IndexAgrees'
  <2>1. ASSUME NEW u \in Target, hashtable'[u] # NoRoute
        PROVE  /\ hashtable'[u].array = array'
               /\ hashtable'[u].index \in Live'
               /\ routes'[hashtable'[u].index].target = u
    <3>1. PICK j \in Live' : routes'[j].target = u
      BY <2>1, <1>14
    <3>2. hashtable'[u] = Pointer(array, j)
      BY <3>1, <1>13
    <3> QED
      BY <3>1, <3>2, <1>2 DEF Pointer
  <2> QED
    BY <2>1, <1>2, <1>13 DEF IndexAgrees, Live
<1>17. TableOK'
  BY <1>2, <1>4, <1>6, <1>7, <1>15, <1>16 DEF TableOK
<1>18. LookupReadsArray /\ LookupReadsArray'
  <2>1. TableOK' => LookupReadsArray'
    BY LookupLemma, PTL
  <2> QED
    BY <2>1, <1>17, LookupLemma
<1>19. Lookup(t)' = NoRoute
  BY <1>12 DEF Lookup
<1>20. ASSUME NEW u \in Target, u # t
       PROVE  Lookup(u)' = Lookup(u)
  <2>1. CASE \E j \in Live' : routes'[j].target = u
    <3>1. PICK j \in Live' : routes'[j].target = u
      BY <2>1
    <3>2. PICK k \in Live : routes'[j] = routes[k]
      BY <1>8
    <3> QED
      BY <3>1, <3>2, <1>18 DEF LookupReadsArray
  <2>2. CASE \A j \in Live' : routes'[j].target # u
    <3>1. hashtable'[u] = NoRoute /\ hashtable'[u] = hashtable[u]
      BY <2>2, <1>4, <1>11, <1>12, <1>14, <1>20
    <3> QED
      BY <3>1 DEF Lookup
  <2> QED
    BY <2>1, <2>2
<1> QED
  BY <1>17, <1>19, <1>20 DEF OthersKept

\* The metric reaches the route of its target and no other.
LEMMA UpdateMetricKeeps ==
    ASSUME TableOK, NEW t \in Target, NEW metric \in Metric, UpdateMetric(t, metric)
    PROVE  /\ TableOK' /\ OthersKept(t) /\ Lookup(t) \in Route
           /\ Lookup(t)' = [link |-> Lookup(t).link, metric |-> metric]
<1> USE RouteAssumption
<1> DEFINE i == hashtable[t].index
           route == [link |-> routes[i].route.link, metric |-> metric]
<1>1. /\ hashtable[t] # NoRoute /\ hashtable[t].array = array /\ i \in Live
      /\ routes[i].target = t /\ i \in 0..(route_capacity - 1)
      /\ hashtable[t] = Pointer(array, i)
  BY DEF UpdateMetric, TableOK, IndexAgrees, Live
<1>2. routes[i] \in Slot /\ Lookup(t) = routes[i].route
  BY <1>1 DEF TableOK, Lookup, At
<1>3. Lookup(t) \in Route
  BY <1>2 DEF Slot
<1>4. /\ routes' = [routes EXCEPT ![i] = [target |-> t, route |-> route]]
      /\ UNCHANGED <<array, route_count, route_capacity, hashtable>>
  BY <1>1 DEF UpdateMetric, At
<1>5. route \in Route
  BY <1>2 DEF Slot, Route
<1>6. AddExisting(t, route)
  <2>1. FoundAt(t, i)
    <3>1. \A j \in 0..(i - 1) : j \in Live /\ j # i
      BY <1>1 DEF Live, TableOK
    <3>2. \A j \in 0..(i - 1) : routes[j].target # t
      BY <3>1, <1>1, TargetsDiffer
    <3> QED
      BY <3>2, <1>1 DEF FoundAt, Live
  <2>2. hashtable' = [hashtable EXCEPT ![t] = Pointer(array, i)]
    BY <1>1, <1>4 DEF TableOK
  <2> HIDE DEF route
  <2> QED
    BY <2>1, <2>2, <1>1, <1>4 DEF AddExisting, Live
<1>7. TableOK' /\ Lookup(t)' = route /\ OthersKept(t)
  BY <1>5, <1>6, AddExistingKeeps
<1> QED
  BY <1>2, <1>3, <1>7

-----------------------------------------------------------------------------
\* The table's effect, seen through lookups.
RoutePut(t, route) == Lookup(t)' = route /\ OthersKept(t)

NothingChanged == \A t \in Target : Lookup(t)' = Lookup(t)

\* Adding a route keeps the table in order, and changes the lookup of its
\* target only.
LEMMA AddSucceedsKeeps ==
    ASSUME TableOK, NEW t \in Target, NEW route \in Route, AddSucceeds(t, route)
    PROVE  TableOK' /\ RoutePut(t, route)
<1>1. CASE AddExisting(t, route)
  BY <1>1, AddExistingKeeps DEF RoutePut
<1>2. CASE AddInPlace(t, route, TRUE)
  BY <1>2, AddInPlaceKeeps DEF RoutePut
<1>3. CASE AddGrown(t, route, TRUE)
  BY <1>3, AddGrownKeeps DEF RoutePut
<1> QED
  BY <1>1, <1>2, <1>3 DEF AddSucceeds

\* An addition that fails half-way changes no lookup.
LEMMA AddFailsKeeps ==
    ASSUME TableOK, NEW t \in Target, NEW route \in Route, AddFails(t, route)
    PROVE  TableOK' /\ NothingChanged
<1>1. CASE AddInPlace(t, route, FALSE)
  BY <1>1, AddInPlaceKeeps DEF OthersKept, NothingChanged
<1>2. CASE AddGrown(t, route, FALSE)
  BY <1>2, AddGrownKeeps DEF OthersKept, NothingChanged
<1>3. CASE UNCHANGED tableVars
  BY <1>3 DEF tableVars, TableOK, IndexAgrees, Live, NothingChanged, Lookup, At
<1> QED
  BY <1>1, <1>2, <1>3 DEF AddFails

\* One of the things a map can do happened to what lookups return.
MapChanged ==
    \/ \E t \in Target, route \in Route : RoutePut(t, route)
    \/ \E t \in Target : RoutePut(t, NoRoute)
    \/ \E t \in Target, metric \in Metric :
        Lookup(t) \in Route /\ RoutePut(t, [link |-> Lookup(t).link, metric |-> metric])
    \/ \A t \in Target : Lookup(t)' = NoRoute
    \/ NothingChanged

RouteInv == TableOK /\ loading \in Seq(Slot)

\* Loading one configured route keeps the table in order and changes at most
\* the lookup of its target.
LEMMA LoadNextKeeps ==
    ASSUME RouteInv, LoadNext
    PROVE  RouteInv' /\ MapChanged
<1> DEFINE t == Head(loading).target
           route == Head(loading).route
<1>1. /\ t \in Target /\ route \in Route
      /\ Tail(loading) \in Seq(Slot)
      /\ << >> \in Seq(Slot)
  <2>1. Head(loading) \in Slot /\ Tail(loading) \in Seq(Slot) /\ << >> \in Seq(Slot)
    BY DEF RouteInv, LoadNext
  <2> QED
    BY <2>1 DEF Slot
<1>2. CASE AddSucceeds(t, route) /\ loading' = Tail(loading)
  <2>1. TableOK' /\ RoutePut(t, route)
    <3> HIDE DEF t, route
    <3> QED
      BY <1>1, <1>2, AddSucceedsKeeps DEF RouteInv
  <2> QED
    BY <2>1, <1>1, <1>2 DEF RouteInv, MapChanged
<1>3. CASE AddFails(t, route) /\ loading' = << >>
  <2>1. TableOK' /\ NothingChanged
    <3> HIDE DEF t, route
    <3> QED
      BY <1>1, <1>3, AddFailsKeeps DEF RouteInv
  <2> QED
    BY <2>1, <1>1, <1>3 DEF RouteInv, MapChanged
<1> QED
  BY <1>2, <1>3 DEF LoadNext

\* Every step keeps the invariant and does to the lookups what a map could do.
LEMMA StepKeeps ==
    ASSUME RouteInv, [Next]_vars
    PROVE  RouteInv' /\ MapChanged
<1>1. ASSUME NEW t \in Target, NEW route \in Route, Add(t, route)
      PROVE  RouteInv' /\ MapChanged
  <2>1. loading' = loading
    BY <1>1 DEF Add
  <2>2. CASE AddSucceeds(t, route)
    BY <2>1, <2>2, AddSucceedsKeeps DEF RouteInv, MapChanged
  <2>3. CASE AddFails(t, route)
    BY <2>1, <2>3, AddFailsKeeps DEF RouteInv, MapChanged
  <2> QED
    BY <1>1, <2>2, <2>3 DEF Add
<1>2. ASSUME NEW t \in Target, Remove(t)
      PROVE  RouteInv' /\ MapChanged
  <2>1. loading' = loading
    BY <1>2 DEF Remove
  <2> QED
    BY <1>2, <2>1, RemoveKeeps DEF RouteInv, MapChanged, RoutePut
<1>3. ASSUME NEW t \in Target, NEW metric \in Metric, UpdateMetric(t, metric)
      PROVE  RouteInv' /\ MapChanged
  <2>1. loading' = loading
    BY <1>3 DEF UpdateMetric
  <2>2. /\ TableOK' /\ Lookup(t) \in Route
        /\ RoutePut(t, [link |-> Lookup(t).link, metric |-> metric])
    BY <1>3, UpdateMetricKeeps DEF RouteInv, RoutePut
  <2> QED
    BY <2>1, <2>2 DEF RouteInv, MapChanged
<1>4. CASE Clear
  <2>1. ClearTable /\ loading' = loading
    BY <1>4 DEF Clear
  <2> QED
    BY <2>1, ClearKeeps DEF RouteInv, MapChanged
<1>5. ASSUME NEW n \in 0..MaxLoad, NEW new \in [1..n -> Slot], Load(new)
      PROVE  RouteInv' /\ MapChanged
  <2>1. ClearTable /\ loading' = new
    BY <1>5 DEF Load
  <2>2. new \in Seq(Slot)
    BY RouteAssumption
  <2> QED
    BY <2>1, <2>2, ClearKeeps DEF RouteInv, MapChanged
<1>6. CASE LoadNext
  BY <1>6, LoadNextKeeps
<1>7. CASE UNCHANGED vars
  BY <1>7 DEF vars, tableVars, RouteInv, TableOK, IndexAgrees, Live, MapChanged,
              NothingChanged, Lookup, At
<1> QED
  BY <1>1, <1>2, <1>3, <1>4, <1>5, <1>6, <1>7 DEF Next

\* The table's invariant: the types, the bounds of the array and the agreement
\* of array and hash table.
THEOREM TableInvariant == Spec => []RouteInv
<1>1. Init => RouteInv
  <2> USE RouteAssumption
  <2>1. Init => /\ Live = {}
                /\ routes \in [0..(route_capacity - 1) -> Slot \cup {Blank}]
    BY DEF Init, Live
  <2> QED
    BY <2>1 DEF Init, RouteInv, TableOK, IndexAgrees, Live
<1>2. RouteInv /\ [Next]_vars => RouteInv'
  BY StepKeeps
<1> QED
  BY <1>1, <1>2, PTL DEF Spec

\* The types of the table and its bounds: the count never passes the capacity.
THEOREM TableTypes == Spec => []TypeOK
<1>1. RouteInv => TypeOK
  BY DEF RouteInv, TableOK, TypeOK, Live
<1> QED
  BY <1>1, TableInvariant, PTL

\* No growth, removal or failed insertion leaves a pointer to freed memory, to an
\* unused slot or to the route of another target.
THEOREM PointersAgree == Spec => []IndexAgrees
<1>1. RouteInv => IndexAgrees
  BY DEF RouteInv, TableOK
<1> QED
  BY <1>1, TableInvariant, PTL

\* Seen through xgl_route_table_lookup the table is a map from targets to routes.
THEOREM LookupIsMap == Spec => ImplementsMap
<1> DEFINE seen == [t \in Target |-> Lookup(t)]
<1>1. Init => Map!Init
  BY DEF Init, Map!Init, Lookup
<1>2. RouteInv /\ [Next]_vars => [Map!Next]_seen
  <2> SUFFICES ASSUME RouteInv, [Next]_vars
               PROVE  Map!Next \/ seen' = seen
    OBVIOUS
  <2>1. seen' = [t \in Target |-> Lookup(t)']
    OBVIOUS
  <2>2. ASSUME NEW t \in Target, NEW route, RoutePut(t, route)
        PROVE  seen' = [seen EXCEPT ![t] = route]
    BY <2>1, <2>2 DEF RoutePut, OthersKept
  <2>3. ASSUME NEW t \in Target, NEW route \in Route, RoutePut(t, route)
        PROVE  Map!Next
    <3>1. Map!Put(t, route)
      BY <2>2, <2>3 DEF Map!Put
    <3> QED
      BY <3>1 DEF Map!Next, Route, Map!Route
  <2>4. ASSUME NEW t \in Target, RoutePut(t, NoRoute)
        PROVE  Map!Next
    <3>1. Map!Delete(t)
      BY <2>2, <2>4 DEF Map!Delete
    <3> QED
      BY <3>1 DEF Map!Next
  <2>5. ASSUME NEW t \in Target, NEW metric \in Metric, Lookup(t) \in Route,
               RoutePut(t, [link |-> Lookup(t).link, metric |-> metric])
        PROVE  Map!Next
    <3>1. seen[t] = Lookup(t) /\ seen[t] # NoRoute
      BY <2>5, RouteAssumption
    <3>2. Map!SetMetric(t, metric)
      BY <2>2, <2>5, <3>1 DEF Map!SetMetric
    <3> QED
      BY <3>2 DEF Map!Next
  <2>6. ASSUME \A t \in Target : Lookup(t)' = NoRoute
        PROVE  Map!Next
    BY <2>1, <2>6 DEF Map!Next, Map!Clear
  <2>7. ASSUME NothingChanged
        PROVE  seen' = seen
    BY <2>1, <2>7 DEF NothingChanged
  <2>8. MapChanged
    BY StepKeeps
  <2> QED
    BY <2>3, <2>4, <2>5, <2>6, <2>7, <2>8 DEF MapChanged
<1> QED
  BY <1>1, <1>2, TableInvariant, PTL DEF Spec, ImplementsMap, Map!Spec
=============================================================================
