------------------------------ MODULE Admission ------------------------------
(* What the concurrency guard promises: there are never more requests inside  *)
(* the application than the global limit, nor more of a route group than the  *)
(* group's limit; the exempt routes have no limit of their own.               *)
EXTENDS Naturals, FiniteSets

CONSTANTS Requests,  \* the requests that may be in the server
          Groups,    \* the route groups with a semaphore of their own
          Exempt,    \* RouteGroup.EXEMPT
          Global,    \* mm_bp_global_max_concurrent
          Limit      \* Limit[g]: the group's maximum

VARIABLES inside     \* inside[r]: the group r is inside with, or "no"

InGroup(g) == {r \in Requests : inside[r] = g}
Inside == {r \in Requests : inside[r] # "no"}

Init == inside = [r \in Requests |-> "no"]

Enter(r) == /\ inside[r] = "no"
            /\ Cardinality(Inside) < Global
            /\ \E g \in Groups \cup {Exempt} :
                 /\ g \in Groups => Cardinality(InGroup(g)) < Limit[g]
                 /\ inside' = [inside EXCEPT ![r] = g]

Leave(r) == inside' = [inside EXCEPT ![r] = "no"]

Next == \E r \in Requests : Enter(r) \/ Leave(r)

Spec == Init /\ [][Next]_inside
=============================================================================
