-------------------------------- MODULE Queues --------------------------------
(* Queues whose members occur once: the waiters of a semaphore (a deque), the *)
(* keys of the store of buckets (an OrderedDict), the rows of an answer.      *)
EXTENDS Naturals, Sequences

Members(q) == {q[i] : i \in DOMAIN q}

Once(q) == \A i, j \in DOMAIN q : q[i] = q[j] => i = j

\* The members that come after x.
Followers(q, x) == {q[j] : j \in {n \in DOMAIN q :
                                    \E i \in 1 .. n - 1 : q[i] = x}}

\* The members that are in S, in their order.
Among(q, S) ==
    LET kept[n \in 0 .. Len(q)] ==
          IF n = 0 THEN <<>>
          ELSE IF q[n] \in S THEN Append(kept[n - 1], q[n]) ELSE kept[n - 1]
    IN  kept[Len(q)]

\* deque.remove, OrderedDict.pop of a member.
Removed(q, r) ==
    LET k == CHOOSE i \in DOMAIN q : q[i] = r
    IN  [i \in 1 .. Len(q) - 1 |-> IF i < k THEN q[i] ELSE q[i + 1]]
===============================================================================
