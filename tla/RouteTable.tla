----------------------------- MODULE RouteTable -----------------------------
(***************************************************************************)
(* The route table of the network layer: an array of routes that grows by  *)
(* allocation and closes its gaps by moving, and a hash table of pointers  *)
(* into that array.  Lookups go through the pointers, so every move of a   *)
(* route must be followed by its pointer.                                  *)
(***************************************************************************)
EXTENDS Integers, Sequences

CONSTANTS
    Target,           \* target_id of routes
    Link,             \* phy and the settings that come with it
    Metric,
    NoRoute,          \* "lookup returns NULL"
    InitialCapacity,  \* of the routes array
    DefaultSize,      \* XGL_ROUTE_TABLE_DEFAULT_SIZE
    MaxLoad           \* bound: routes in one xgl_route_table_load

Route == [link : Link, metric : Metric]
Slot == [target : Target, route : Route]

\* The contents of a slot never written, and of freed memory.
Blank == [target |-> NoRoute, route |-> NoRoute]

ASSUME RouteAssumption ==
    /\ InitialCapacity \in Nat
    /\ DefaultSize \in Nat \ {0}
    /\ MaxLoad \in Nat
    /\ NoRoute \notin Target
    /\ NoRoute \notin Route
    /\ NoRoute \notin [array : Nat, index : Nat]

VARIABLES
    array,           \* which allocation the routes array is; the others are freed
    routes,          \* index -> slot of the array
    route_count,
    route_capacity,
    hashtable,       \* target -> pointer to a slot, or NoRoute
    loading          \* the routes xgl_route_table_load has still to add

tableVars == <<array, routes, route_count, route_capacity, hashtable>>
vars == <<tableVars, loading>>

Pointer(a, i) == [array |-> a, index |-> i]

\* What a pointer leads to.
At(pointer) == IF pointer.array = array THEN routes[pointer.index] ELSE Blank

\* xgl_route_table_lookup
Lookup(t) == IF hashtable[t] = NoRoute THEN NoRoute ELSE At(hashtable[t]).route

\* xgl_route_find_index
FoundAt(t, i) ==
    /\ i \in 0..(route_count - 1)
    /\ routes[i].target = t
    /\ \A j \in 0..(i - 1) : routes[j].target # t

NotFound(t) == \A i \in 0..(route_count - 1) : routes[i].target # t

\* A hash table after inserting a pointer into allocation a for each of the slots
\* of newRoutes in the range.
Reindexed(table, range, newRoutes, a) ==
    [t \in Target |->
        IF \E i \in range : newRoutes[i].target = t
        THEN Pointer(a, CHOOSE i \in range : newRoutes[i].target = t)
        ELSE table[t]]

-----------------------------------------------------------------------------
\* xgl_route_table_add

AddExisting(t, route) ==
    /\ \E i \in 0..(route_count - 1) :
        /\ FoundAt(t, i)
        /\ routes' = [routes EXCEPT ![i] = [target |-> t, route |-> route]]
        /\ hashtable' = [hashtable EXCEPT ![t] = Pointer(array, i)]
    /\ UNCHANGED <<array, route_count, route_capacity>>

\* Mutant of HasRoom: one route too many.
HasRoomForOneMore == route_count <= route_capacity

HasRoom == route_count < route_capacity

\* The route goes into the first unused slot.  With no memory left for the hash
\* table's entry the slot stays unused.
AddInPlace(t, route, indexed) ==
    /\ NotFound(t)
    /\ HasRoom
    /\ routes' = [routes EXCEPT ![route_count] = [target |-> t, route |-> route]]
    /\ IF indexed
       THEN /\ hashtable' = [hashtable EXCEPT ![t] = Pointer(array, route_count)]
            /\ route_count' = route_count + 1
       ELSE UNCHANGED <<hashtable, route_count>>
    /\ UNCHANGED <<array, route_capacity>>

GrownCapacity == IF route_capacity = 0 THEN DefaultSize ELSE 2 * route_capacity

\* The array moves to new memory and all pointers after it.
GrownRoutes(t, route) ==
    [i \in 0..(GrownCapacity - 1) |->
        IF i < route_count THEN routes[i]
        ELSE IF i = route_count THEN [target |-> t, route |-> route]
        ELSE Blank]

\* Mutant of AddGrown: the pointers stay with the freed array.
AddGrownUnmoved(t, route, indexed) ==
    /\ NotFound(t)
    /\ ~HasRoom
    /\ array' = array + 1
    /\ routes' = GrownRoutes(t, route)
    /\ route_capacity' = GrownCapacity
    /\ IF indexed
       THEN /\ hashtable' = [hashtable EXCEPT ![t] = Pointer(array', route_count)]
            /\ route_count' = route_count + 1
       ELSE UNCHANGED <<hashtable, route_count>>

AddGrown(t, route, indexed) ==
    /\ NotFound(t)
    /\ ~HasRoom
    /\ array' = array + 1
    /\ routes' = GrownRoutes(t, route)
    /\ route_capacity' = GrownCapacity
    /\ IF indexed
       THEN /\ hashtable' = Reindexed(hashtable, 0..route_count, routes', array')
            /\ route_count' = route_count + 1
       ELSE /\ hashtable' = Reindexed(hashtable, 0..(route_count - 1), routes', array')
            /\ UNCHANGED route_count

AddSucceeds(t, route) ==
    \/ AddExisting(t, route)
    \/ AddInPlace(t, route, TRUE)
    \/ AddGrown(t, route, TRUE)

\* Out of memory, for the array or for the entry, or a route without a PHY.
AddFails(t, route) ==
    \/ AddInPlace(t, route, FALSE)
    \/ AddGrown(t, route, FALSE)
    \/ UNCHANGED tableVars

-----------------------------------------------------------------------------
\* The operations

Init ==
    /\ array = 0
    /\ routes = [i \in 0..(InitialCapacity - 1) |-> Blank]
    /\ route_count = 0
    /\ route_capacity = InitialCapacity
    /\ hashtable = [t \in Target |-> NoRoute]
    /\ loading = <<>>

Add(t, route) ==
    /\ loading = <<>>
    /\ AddSucceeds(t, route) \/ AddFails(t, route)
    /\ UNCHANGED loading

\* Mutant of Remove: the moved routes keep their old pointers.
RemoveUnmoved(t) ==
    /\ loading = <<>>
    /\ hashtable[t] # NoRoute
    /\ \E i \in 0..(route_count - 1) :
        /\ FoundAt(t, i)
        /\ routes' = [j \in 0..(route_capacity - 1) |->
                        IF j \in i..(route_count - 2) THEN routes[j + 1] ELSE routes[j]]
        /\ hashtable' = [hashtable EXCEPT ![t] = NoRoute]
    /\ route_count' = route_count - 1
    /\ UNCHANGED <<array, route_capacity, loading>>

\* The routes behind the removed one move down by one slot.
Remove(t) ==
    /\ loading = <<>>
    /\ hashtable[t] # NoRoute
    /\ \E i \in 0..(route_count - 1) :
        /\ FoundAt(t, i)
        /\ routes' = [j \in 0..(route_capacity - 1) |->
                        IF j \in i..(route_count - 2) THEN routes[j + 1] ELSE routes[j]]
        /\ hashtable' = Reindexed([hashtable EXCEPT ![t] = NoRoute],
                                   i..(route_count - 2), routes', array)
    /\ route_count' = route_count - 1
    /\ UNCHANGED <<array, route_capacity, loading>>

\* The metric is written through the pointer.
UpdateMetric(t, metric) ==
    /\ loading = <<>>
    /\ hashtable[t] # NoRoute
    /\ LET slot == At(hashtable[t])
           route == [link |-> slot.route.link, metric |-> metric]
       IN  routes' = IF hashtable[t].array = array
                     THEN [routes EXCEPT ![hashtable[t].index] =
                            [target |-> slot.target, route |-> route]]
                     ELSE routes
    /\ UNCHANGED <<array, route_count, route_capacity, hashtable, loading>>

ClearTable ==
    /\ hashtable' = [t \in Target |-> NoRoute]
    /\ route_count' = 0
    /\ UNCHANGED <<array, routes, route_capacity>>

Clear ==
    /\ loading = <<>>
    /\ ClearTable
    /\ UNCHANGED loading

\* xgl_route_table_load clears the table, then adds route after route until one
\* cannot be added.  Nothing else happens to the table meanwhile.
Load(new) ==
    /\ loading = <<>>
    /\ ClearTable
    /\ loading' = new

LoadNext ==
    /\ loading # <<>>
    /\ \/ /\ AddSucceeds(Head(loading).target, Head(loading).route)
          /\ loading' = Tail(loading)
       \/ /\ AddFails(Head(loading).target, Head(loading).route)
          /\ loading' = <<>>

Next ==
    \/ \E t \in Target, route \in Route : Add(t, route)
    \/ \E t \in Target : Remove(t)
    \/ \E t \in Target, metric \in Metric : UpdateMetric(t, metric)
    \/ Clear
    \/ \E n \in 0..MaxLoad : \E new \in [1..n -> Slot] : Load(new)
    \/ LoadNext

Spec == Init /\ [][Next]_vars

-----------------------------------------------------------------------------
\* The types of the table; the count stays within the capacity.
TypeOK ==
    /\ array \in Nat
    /\ route_capacity \in Nat
    /\ route_count \in 0..route_capacity
    /\ routes \in [0..(route_capacity - 1) -> Slot \cup {Blank}]
    /\ \A i \in 0..(route_count - 1) : routes[i] \in Slot
    /\ hashtable \in [Target -> [array : Nat, index : Nat] \cup {NoRoute}]
    /\ loading \in Seq(Slot)

\* Every entry of the hash table leads into the array in use, to the slot that
\* holds the route of its target, and every route of the array has its entry:
\* no growth, removal or failed insertion leaves a pointer to freed memory, to
\* an unused slot or to the route of another target.
IndexAgrees ==
    /\ \A t \in Target : hashtable[t] # NoRoute =>
        /\ hashtable[t].array = array
        /\ hashtable[t].index \in 0..(route_count - 1)
        /\ routes[hashtable[t].index].target = t
    /\ \A i \in 0..(route_count - 1) :
        hashtable[routes[i].target] = Pointer(array, i)

Map == INSTANCE RouteMap WITH map <- [t \in Target |-> Lookup(t)]

\* Seen through xgl_route_table_lookup the table is a map: each operation
\* changes the route of its own target, as asked, or nothing.
ImplementsMap == Map!Spec
=============================================================================
