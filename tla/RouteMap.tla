------------------------------ MODULE RouteMap ------------------------------
(***************************************************************************)
(* What a route table promises the network layer: a map from targets to    *)
(* routes.                                                                 *)
(***************************************************************************)
CONSTANTS Target, Link, Metric, NoRoute

VARIABLE map  \* target -> its route, or NoRoute

Route == [link : Link, metric : Metric]

Init == map = [t \in Target |-> NoRoute]

Put(t, route) == map' = [map EXCEPT ![t] = route]

SetMetric(t, metric) ==
    /\ map[t] # NoRoute
    /\ map' = [map EXCEPT ![t] = [link |-> map[t].link, metric |-> metric]]

Delete(t) == map' = [map EXCEPT ![t] = NoRoute]

Clear == map' = [t \in Target |-> NoRoute]

Next ==
    \/ \E t \in Target :
        \/ \E route \in Route : Put(t, route)
        \/ \E metric \in Metric : SetMetric(t, metric)
        \/ Delete(t)
    \/ Clear

Spec == Init /\ [][Next]_map
=============================================================================
