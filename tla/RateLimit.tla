------------------------------ MODULE RateLimit ------------------------------
(* RateLimitMiddleware for one route group: an LRU store of token buckets     *)
(* (the groups have stores of their own and do not meet).  A request is       *)
(* handled without an await, so it is one action.                             *)
(*                                                                            *)
(* Time advances in ticks, Second of them to a second.  A token is Unit units *)
(* and a bucket gains Rate units a tick, so that the fractions of tokens the  *)
(* code keeps as floats are whole numbers here.                               *)
EXTENDS Integers, Queues, FiniteSets

CONSTANTS Addresses,  \* client addresses
          Agents,     \* agents, by the sub of a token that verifies
          NoAgent,    \* no bearer token, or one that does not verify
          PerAddress, \* the group is auth_login or auth_refresh
          MaxKeys,    \* mm_rl_bucket_max_keys
          Ttl,        \* mm_rl_bucket_ttl_seconds, in ticks
          Burst,      \* tokens of a full bucket
          Unit,       \* units of a token
          Rate,       \* units a bucket gains in a tick
          Second,     \* ticks of a second
          None        \* no Retry-After is pending

ASSUME BucketAssumption ==
    /\ MaxKeys \in Nat /\ Ttl \in Nat /\ Burst \in Nat /\ Rate \in Nat
    /\ Unit \in Nat \ {0} /\ Second \in Nat \ {0}
    /\ None \notin Int

Keys == Addresses \cup Agents

Full == Burst * Unit

VARIABLES order,   \* the keys in the store, the least recently used first
          bucket,  \* bucket[k]: the bucket of a key in the store
          wait     \* wait[k]: what is left, in ticks, of the Retry-After that
                   \* k's last request was refused with, or None

vars == <<order, bucket, wait>>

\* tokens: as of the last refill; since: ticks since then; age: ticks since
\* the bucket was created; granted (history): requests it has admitted.
Bucket == [tokens : 0 .. Full, since : Nat, age : Nat, granted : Nat]

NewBucket == [tokens |-> Full, since |-> 0, age |-> 0, granted |-> 0]

Init == /\ order = <<>>
        /\ bucket = [k \in Keys |-> NewBucket]
        /\ wait = [k \in Keys |-> None]

-----------------------------------------------------------------------------
Stored == Members(order)

Expired(k) == bucket[k].age > Ttl

Without(s, k) == IF k \in Members(s) THEN Removed(s, k) ELSE s

\* Login, refresh and logout are limited by address, the rest by agent.
KeyOf(address, agent) ==
    IF PerAddress \/ agent = NoAgent THEN address ELSE agent

\* Variant: the limit is tested after the insertion.
EvictLate(s) == IF Len(s) > MaxKeys /\ s # <<>> THEN Tail(s) ELSE s

\* The store never holds more than MaxKeys keys, so "while full" evicts once.
Evict(s) == IF Len(s) >= MaxKeys /\ s # <<>> THEN Tail(s) ELSE s

\* Variant: a hit leaves the key where it is.
TouchStill(k) ==
    IF k \in Stored /\ ~Expired(k) THEN order
    ELSE Append(Evict(Without(order, k)), k)

\* get_or_create: a hit moves to the end, a miss evicts and appends.
Touch(k) ==
    IF k \in Stored /\ ~Expired(k) THEN Append(Without(order, k), k)
    ELSE Append(Evict(Without(order, k)), k)

Held(k) == IF k \in Stored /\ ~Expired(k) THEN bucket[k] ELSE NewBucket

Refill(b) == LET full == b.tokens + b.since * Rate
             IN  IF full > Full THEN Full ELSE full

\* Variant: a refused request leaves last_refill as it is.
AcquireStale(b) ==
    IF Refill(b) >= Unit
      THEN [tokens |-> Refill(b) - Unit, since |-> 0,
            age |-> b.age, granted |-> b.granted + 1]
      ELSE [b EXCEPT !.tokens = Refill(b)]

\* try_acquire, on a bucket that may not have been touched for a while.
Acquire(b) ==
    IF Refill(b) >= Unit
      THEN [tokens |-> Refill(b) - Unit, since |-> 0,
            age |-> b.age, granted |-> b.granted + 1]
      ELSE [tokens |-> Refill(b), since |-> 0,
            age |-> b.age, granted |-> b.granted]

\* Variant: the header truncates the seconds.
WholeSecondsShort(units) ==
    LET n == units \div (Rate * Second)
    IN  IF n < 1 THEN 1 ELSE n

\* Retry-After is in whole seconds, rounded up and at least one.
WholeSeconds(units) ==
    LET n == (units + Rate * Second - 1) \div (Rate * Second)
    IN  IF n < 1 THEN 1 ELSE n

\* The time until there is one token; 60 seconds if there is no refill.
RetryAfter(b) ==
    Second * (IF Rate = 0 THEN 60 ELSE WholeSeconds(Unit - Refill(b)))

-----------------------------------------------------------------------------
Request(address, agent) ==
    LET k == KeyOf(address, agent)
        b == Held(k)
        kept == Touch(k)
    IN  /\ order' = kept
        /\ bucket' = [f \in Keys |->
             IF f = k THEN Acquire(b)
             ELSE IF f \in Members(kept) THEN bucket[f]
             ELSE NewBucket]
        /\ wait' = [wait EXCEPT ![k] =
             IF Refill(b) >= Unit THEN None ELSE RetryAfter(b)]

\* Time passes.  An expired bucket will be replaced when its key is next
\* used, so nothing of it matters any more and its clocks stop.
Aged(k) ==
    LET b == bucket[k]
    IN  IF k \notin Stored \/ Expired(k) THEN b
        ELSE [tokens |-> b.tokens, since |-> b.since + 1,
              age |-> b.age + 1, granted |-> b.granted]

Tick == /\ bucket' = [k \in Keys |-> Aged(k)]
        /\ wait' = [k \in Keys |->
             IF wait[k] \in {None, 0} THEN wait[k] ELSE wait[k] - 1]
        /\ UNCHANGED order

Next == \/ Tick
        \/ \E address \in Addresses, agent \in Agents \cup {NoAgent} :
             Request(address, agent)

Spec == Init /\ [][Next]_vars

-----------------------------------------------------------------------------
(* The types: the store holds every key once and never more than MaxKeys     *)
(* keys (one, if MaxKeys is 0: popitem runs before the insertion).           *)
TypeOK ==
    /\ order \in Seq(Keys)
    /\ Cardinality(Stored) = Len(order)
    /\ Len(order) <= (IF MaxKeys = 0 THEN 1 ELSE MaxKeys)
    /\ bucket \in [Keys -> Bucket]
    /\ wait \in [Keys -> Nat \cup {None}]

(* A client that was refused, and whose principal makes no other request     *)
(* until its Retry-After has passed, is admitted: whatever others do to the  *)
(* store meanwhile, and although the bucket is refilled lazily.              *)
RetryAfterHonest ==
    Burst > 0 /\ Rate > 0 =>
        \A k \in Keys : wait[k] = 0 => Refill(Held(k)) >= Unit

(* A bucket admits in its life at most the burst and what was refilled, and  *)
(* what is left in it comes on top: no refill is counted twice, also not     *)
(* over requests that were refused.                                          *)
WithinBudget ==
    \A k \in Keys :
        /\ bucket[k].since <= bucket[k].age
        /\ bucket[k].granted * Unit + bucket[k].tokens
             <= Full + Rate * (bucket[k].age - bucket[k].since)

Remembered == {k \in Stored : ~Expired(k)}

Promise == INSTANCE Quota WITH
    Limit <- IF MaxKeys = 0 THEN 1 ELSE MaxKeys,
    Cost <- Unit,
    known <- Remembered,
    quota <- [k \in Keys |-> Refill(Held(k))],
    age <- [k \in Keys |-> IF k \in Remembered THEN bucket[k].age ELSE 0],
    seen <- [k \in Keys |-> IF k \in Remembered THEN Followers(order, k) ELSE {}]

(* The lazily refilled LRU store is the eager one of Quota: nobody spends    *)
(* another principal's allowance, and only MaxKeys later principals or the   *)
(* TTL make the store forget what a principal has spent.                     *)
ImplementsQuota == Promise!Spec
==============================================================================
