------------------------------ MODULE CrawlWork ------------------------------
(* What the crawler's work queue promises, with the leases, the timers and    *)
(* the retry counts left out.  A key (a task kind with its parameters) is     *)
(* wanted or it is not.  Workers take wanted keys, never two of them the same *)
(* key, and a key stops being wanted only when the worker that took it has    *)
(* handled it (or nothing can handle it): an abandoned key is still wanted.   *)
CONSTANTS Keys,     \* what can be crawled: one key per (kind, params)
          Handled,  \* the keys that some handler is registered for
          Workers,  \* the worker loops
          None      \* the value of doing[w] for a worker without a key

VARIABLES wanted,   \* the keys with a task in the queue
          doing,    \* doing[w]: the key worker w has taken, or None
          finished  \* the workers whose handler has committed

vars == <<wanted, doing, finished>>

Init == /\ wanted = {}
        /\ doing = [w \in Workers |-> None]
        /\ finished = {}

\* The scheduler asks for keys.
Request == /\ \E S \in SUBSET Keys : wanted' = wanted \cup S
           /\ UNCHANGED <<doing, finished>>

\* A worker takes a wanted key that no worker has.
Begin(w) == /\ doing[w] = None
            /\ \E k \in wanted :
                 /\ \A v \in Workers : doing[v] # k
                 /\ doing' = [doing EXCEPT ![w] = k]
            /\ UNCHANGED <<wanted, finished>>

\* Its handler commits, and may have asked for further keys.
Finish(w) == /\ doing[w] \in Handled
             /\ finished' = finished \cup {w}
             /\ \E S \in SUBSET Keys : wanted' = wanted \cup S
             /\ UNCHANGED doing

\* A worker is done with its key for good.
Complete(w) == /\ doing[w] # None
               /\ w \in finished \/ doing[w] \notin Handled
               /\ wanted' = wanted \ {doing[w]}
               /\ doing' = [doing EXCEPT ![w] = None]
               /\ finished' = finished \ {w}

\* A worker forgets that its handler had committed: it will be run again.
Forget(w) == /\ finished' = finished \ {w}
             /\ UNCHANGED <<wanted, doing>>

\* Workers let go of their keys: a failed handler, or a crash of them all.
Abandon == \E W \in SUBSET Workers :
             /\ doing' = [w \in Workers |-> IF w \in W THEN None ELSE doing[w]]
             /\ finished' = finished \ W
             /\ UNCHANGED wanted

Next == \/ Request
        \/ \E w \in Workers : Begin(w) \/ Finish(w) \/ Complete(w) \/ Forget(w)
        \/ Abandon

Spec == Init /\ [][Next]_vars
=============================================================================
