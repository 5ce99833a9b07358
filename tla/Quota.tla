-------------------------------- MODULE Quota --------------------------------
(* What the rate limiter promises to one route group: every principal has an  *)
(* allowance of its own that refills steadily, is spent by its requests alone *)
(* and is forgotten (renewed in full) only when it is older than Ttl, or when *)
(* Limit principals have made requests after it.                              *)
EXTENDS Naturals, FiniteSets

CONSTANTS Keys,   \* the principals
          Limit,  \* principals that are remembered at least
          Ttl,    \* ticks an allowance lasts
          Full,   \* a full allowance
          Cost,   \* what a request spends
          Rate    \* what a tick refills

VARIABLES known,  \* the principals whose allowance is remembered
          quota,  \* quota[k]: what k may spend now
          age,    \* age[k]: ticks since k's allowance began
          seen    \* seen[k]: who has made requests since k's last one

vars == <<known, quota, age, seen>>

Capped(n) == IF n > Full THEN Full ELSE n

Init == /\ known = {}
        /\ quota = [k \in Keys |-> Full]
        /\ age = [k \in Keys |-> 0]
        /\ seen = [k \in Keys |-> {}]

\* Only principals that Limit others have followed may be forgotten.
Forgettable(k) == {f \in known \ {k} : Cardinality(seen[f] \cup {k}) >= Limit}

Request(k) ==
    \E lost \in SUBSET Forgettable(k) :
        /\ known' = (known \ lost) \cup {k}
        /\ quota' = [f \in Keys |->
             IF f \in lost THEN Full
             ELSE IF f = k /\ quota[k] >= Cost THEN quota[k] - Cost
             ELSE quota[f]]
        /\ age' = [f \in Keys |-> IF f \in lost THEN 0 ELSE age[f]]
        /\ seen' = [f \in Keys |->
             IF f \in known' \ {k} THEN seen[f] \cup {k} ELSE {}]

Tick ==
    /\ known' = {k \in known : age[k] < Ttl}
    /\ quota' = [k \in Keys |->
         IF k \in known' THEN Capped(quota[k] + Rate) ELSE Full]
    /\ age' = [k \in Keys |-> IF k \in known' THEN age[k] + 1 ELSE 0]
    /\ seen' = [k \in Keys |-> IF k \in known' THEN seen[k] ELSE {}]

Next == Tick \/ \E k \in Keys : Request(k)

Spec == Init /\ [][Next]_vars
==============================================================================
