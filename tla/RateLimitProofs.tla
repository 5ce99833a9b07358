--------------------------- MODULE RateLimitProofs ---------------------------
(* Proofs about RateLimit: a bucket never grants more than its budget, for    *)
(* every size of the store, burst, rate and TTL.                              *)
EXTENDS RateLimit, DataLemmas, FiniteSetTheorems, TLAPS

-----------------------------------------------------------------------------
(* Products, one fact each.                                                  *)

(* Refilling moves Rate units per tick from "since" to the tokens.           *)
LEMMA RefillDistributes ==
    ASSUME NEW r \in Nat, NEW a \in Nat, NEW s \in Nat
    PROVE  r * a = r * (a - s) + s * r
<1>1. r * (a - s) = r * a - r * s
  BY SMT
<1>2. r * s = s * r
  BY SMT
<1> QED
  BY <1>1, <1>2, SMT

(* One request more costs one Unit more.                                     *)
LEMMA OneMore == ASSUME NEW g \in Nat, NEW u \in Nat
                 PROVE  (g + 1) * u = g * u + u
  BY SMT

LEMMA ProductNat == ASSUME NEW x \in Nat, NEW y \in Nat
                    PROVE  x * y \in Nat
  BY SMT

LEMMA FullNat == Full \in Nat
  BY BucketAssumption, ProductNat DEF Full

-----------------------------------------------------------------------------
(* The invariant: what one bucket may look like.                             *)

Sound(b) == /\ b \in Bucket
            /\ b.since <= b.age
            /\ b.granted * Unit + b.tokens <= Full + Rate * (b.age - b.since)

BucketsSound == /\ bucket \in [Keys -> Bucket]
                /\ \A k \in Keys : Sound(bucket[k])

LEMMA NewSound == Sound(NewBucket)
<1>1. Rate * (0 - 0) = 0
  BY BucketAssumption, SMT
<1>2. 0 * Unit = 0
  BY BucketAssumption, SMT
<1> QED
  BY <1>1, <1>2, FullNat DEF Sound, NewBucket, Bucket

(* try_acquire keeps the budget, whether it admits or refuses.               *)
LEMMA AcquireSound ==
    ASSUME NEW b, Sound(b)
    PROVE  Sound(Acquire(b))
<1> DEFINE t == Refill(b)
<1>1. /\ b \in Bucket
      /\ b.tokens \in 0 .. Full /\ b.since \in Nat /\ b.age \in Nat
      /\ b.granted \in Nat
  BY DEF Sound, Bucket
<1>2. /\ b.since * Rate \in Nat /\ b.granted * Unit \in Nat
      /\ Rate * (b.age - b.since) \in Nat /\ Unit \in Nat /\ Full \in Nat
  <2>1. b.age - b.since \in Nat
    BY <1>1 DEF Sound
  <2> QED
    BY <1>1, <2>1, ProductNat, FullNat, BucketAssumption
<1>3. t \in 0 .. Full /\ t <= b.tokens + b.since * Rate
  BY <1>1, <1>2 DEF Refill
<1>4. Rate * b.age = Rate * (b.age - b.since) + b.since * Rate
  BY <1>1, RefillDistributes, BucketAssumption
<1>5. b.granted * Unit + t <= Full + Rate * b.age
  BY <1>1, <1>2, <1>3, <1>4 DEF Sound
<1>6. b.age - 0 = b.age
  BY <1>1
<1>7. CASE t >= Unit
  <2>1. Acquire(b) = [tokens |-> t - Unit, since |-> 0,
                      age |-> b.age, granted |-> b.granted + 1]
    BY <1>7 DEF Acquire
  <2> HIDE DEF t
  <2>2. /\ Acquire(b).tokens = t - Unit /\ Acquire(b).since = 0
        /\ Acquire(b).age = b.age /\ Acquire(b).granted = b.granted + 1
        /\ Acquire(b) \in Bucket
    BY <1>1, <1>2, <1>3, <1>7, <2>1 DEF Bucket
  <2>3. (b.granted + 1) * Unit = b.granted * Unit + Unit
    BY <1>1, <1>2, OneMore
  <2>4. b.granted * Unit + Unit + (t - Unit) <= Full + Rate * b.age
    BY <1>2, <1>3, <1>5
  <2> QED
    BY <1>1, <1>6, <2>2, <2>3, <2>4 DEF Sound
<1>8. CASE ~(t >= Unit)
  <2>1. Acquire(b) = [tokens |-> t, since |-> 0,
                      age |-> b.age, granted |-> b.granted]
    BY <1>8 DEF Acquire
  <2> HIDE DEF t
  <2>2. /\ Acquire(b).tokens = t /\ Acquire(b).since = 0
        /\ Acquire(b).age = b.age /\ Acquire(b).granted = b.granted
        /\ Acquire(b) \in Bucket
    BY <1>1, <1>2, <1>3, <2>1 DEF Bucket
  <2> QED
    BY <1>1, <1>5, <1>6, <2>2 DEF Sound
<1> QED
  BY <1>7, <1>8

(* A tick moves both clocks, and the budget with neither.                    *)
LEMMA AgedSound ==
    ASSUME NEW k \in Keys, Sound(bucket[k])
    PROVE  Sound(Aged(k))
<1>1. CASE k \notin Stored \/ Expired(k)
  BY <1>1 DEF Aged
<1>2. CASE ~(k \notin Stored \/ Expired(k))
  <2> DEFINE b == bucket[k]
             c == Aged(k)
  <2>1. b \in Bucket
    BY DEF Sound
  <2>2. c = [tokens |-> b.tokens, since |-> b.since + 1,
             age |-> b.age + 1, granted |-> b.granted]
    BY <1>2 DEF Aged
  <2> HIDE DEF b, c
  <2>3. /\ c.since = b.since + 1 /\ c.age = b.age + 1
        /\ c.tokens = b.tokens /\ c.granted = b.granted
        /\ c \in Bucket
    BY <2>1, <2>2 DEF Bucket
  <2>4. c.age - c.since = b.age - b.since
    BY <2>1, <2>3 DEF Bucket
  <2>5. c.since <= c.age
    BY <2>1, <2>3 DEF Bucket, Sound, b
  <2>6. b.granted * Unit + b.tokens <= Full + Rate * (b.age - b.since)
    BY DEF Sound, b
  <2>7. c.granted * Unit + c.tokens <= Full + Rate * (c.age - c.since)
    BY <2>3, <2>4, <2>6
  <2> QED
    BY <2>3, <2>5, <2>7 DEF Sound, c
<1> QED
  BY <1>1, <1>2

-----------------------------------------------------------------------------
LEMMA InitSound == Init => BucketsSound
<1>1. NewBucket \in Bucket
  BY NewSound DEF Sound
<1> QED
  BY <1>1, NewSound DEF Init, BucketsSound

LEMMA RequestSound ==
    ASSUME BucketsSound, NEW address \in Addresses,
           NEW agent \in Agents \cup {NoAgent},
           Request(address, agent)
    PROVE  BucketsSound'
<1> DEFINE k == KeyOf(address, agent)
<1>1. PICK kept :
        bucket' = [f \in Keys |->
          IF f = k THEN Acquire(Held(k))
          ELSE IF f \in Members(kept) THEN bucket[f]
          ELSE NewBucket]
  BY DEF Request
<1>2. k \in Keys
  BY DEF KeyOf, Keys
<1>3. Sound(Held(k))
  BY <1>2, NewSound DEF Held, BucketsSound
<1>4. Sound(Acquire(Held(k)))
  BY <1>3, AcquireSound
<1>5. ASSUME NEW f \in Keys
      PROVE  Sound(bucket'[f])
  BY <1>1, <1>4, NewSound DEF BucketsSound
<1> QED
  BY <1>1, <1>5 DEF BucketsSound, Sound

LEMMA TickSound ==
    ASSUME BucketsSound, Tick
    PROVE  BucketsSound'
<1>1. bucket' = [k \in Keys |-> Aged(k)]
  BY DEF Tick
<1>2. ASSUME NEW k \in Keys
      PROVE  Sound(bucket'[k])
  BY <1>1, AgedSound DEF BucketsSound
<1> QED
  BY <1>1, <1>2 DEF BucketsSound, Sound

(* However requests and ticks interleave, a bucket has admitted at most its  *)
(* burst and what the time since its creation refilled: try_acquire never    *)
(* counts a tick twice, whether it admits or refuses.                        *)
THEOREM BudgetKept == Spec => []WithinBudget
<1>1. Init => BucketsSound
  BY InitSound
<1>2. BucketsSound /\ [Next]_vars => BucketsSound'
  <2> SUFFICES ASSUME BucketsSound, [Next]_vars
               PROVE  BucketsSound'
    OBVIOUS
  <2>1. CASE Tick
    BY <2>1, TickSound
  <2>2. ASSUME NEW address \in Addresses,
               NEW agent \in Agents \cup {NoAgent},
               Request(address, agent)
        PROVE  BucketsSound'
    BY <2>2, RequestSound
  <2>3. CASE UNCHANGED vars
    BY <2>3 DEF vars, BucketsSound, Sound
  <2> QED
    BY <2>1, <2>2, <2>3 DEF Next
<1>3. BucketsSound => WithinBudget
  BY DEF BucketsSound, Sound, WithinBudget
<1> QED
  BY <1>1, <1>2, <1>3, PTL DEF Spec

-----------------------------------------------------------------------------
(* The store.                                                                *)

Room == IF MaxKeys = 0 THEN 1 ELSE MaxKeys

StoreInv == /\ order \in Seq(Keys)
            /\ Once(order)
            /\ Len(order) <= Room

LEMMA WithoutFacts ==
    ASSUME StoreInv, NEW k \in Keys
    PROVE  /\ Without(order, k) \in Seq(Keys)
           /\ Once(Without(order, k))
           /\ Members(Without(order, k)) = Stored \ {k}
           /\ Len(Without(order, k)) = IF k \in Stored THEN Len(order) - 1
                                       ELSE Len(order)
           /\ \A x \in Stored \ {k} :
                Followers(Without(order, k), x) = Followers(order, x) \ {k}
<1>1. order \in Seq(Keys) /\ Once(order)
  BY DEF StoreInv
<1>2. CASE k \in Members(order)
  BY <1>1, <1>2, RemovedMembers, RemovedFollowers DEF Without, Stored
<1>3. CASE k \notin Members(order)
  <2>1. Without(order, k) = order
    BY <1>3 DEF Without
  <2>2. \A x : Followers(order, x) \subseteq Members(order)
    BY DEF Followers, Members
  <2> QED
    BY <2>1, <2>2, <1>1, <1>3 DEF Stored
<1> QED
  BY <1>2, <1>3

(* What a lookup does to the store.  The key becomes the last; whoever is    *)
(* evicted (lost) is followed by as many keys as the store has room for.     *)
Touches(k, p, lost) ==
    /\ lost \in SUBSET (Stored \ {k})
    /\ k \in Stored /\ ~Expired(k) => lost = {}
    /\ p \in Seq(Keys) /\ Once(p) /\ Len(p) <= Room
    /\ Members(p) = (Stored \ lost) \cup {k}
    /\ Followers(p, k) = {}
    /\ \A x \in Members(p) \ {k} :
         Followers(p, x) = Followers(order, x) \cup {k}
    /\ \A x \in lost : Cardinality(Followers(order, x) \cup {k}) >= Room

LEMMA TouchFacts ==
    ASSUME StoreInv, NEW k \in Keys
    PROVE  \E lost : Touches(k, Touch(k), lost)
<1> DEFINE q == Without(order, k)
<1>1. /\ q \in Seq(Keys) /\ Once(q)
      /\ Members(q) = Stored \ {k} /\ k \notin Members(q)
      /\ Len(q) = IF k \in Stored THEN Len(order) - 1 ELSE Len(order)
      /\ \A x \in Members(q) : Followers(q, x) = Followers(order, x) \ {k}
  BY WithoutFacts
<1>2. /\ Len(order) \in Nat /\ Len(order) <= Room /\ Len(q) \in Nat
      /\ MaxKeys \in Nat /\ Room \in Nat
  BY <1>1, BucketAssumption DEF StoreInv, Room
<1>3. Touch(k) = IF k \in Stored /\ ~Expired(k) THEN Append(q, k)
                 ELSE Append(Evict(q), k)
  BY DEF Touch
<1> HIDE DEF q
<1>4. CASE Touch(k) = Append(q, k) /\ Len(q) + 1 <= Room
  <2>1. /\ Append(q, k) \in Seq(Keys) /\ Once(Append(q, k))
        /\ Members(Append(q, k)) = Members(q) \cup {k}
    BY <1>1, AppendMembers
  <2>2. /\ Followers(Append(q, k), k) = {}
        /\ \A x \in Members(q) :
             Followers(Append(q, k), x) = Followers(q, x) \cup {k}
    BY <1>1, AppendFollowers
  <2>3. Len(Append(q, k)) = Len(q) + 1
    BY <1>1
  <2>4. \A x \in Members(q) :
           Followers(Append(q, k), x) = Followers(order, x) \cup {k}
    BY <2>2, <1>1
  <2>5. Touches(k, Append(q, k), {})
    BY <2>1, <2>2, <2>3, <2>4, <1>1, <1>4 DEF Touches
  <2> QED
    BY <2>5, <1>4
<1>5. CASE /\ Touch(k) = Append(Tail(q), k) /\ Len(q) >= MaxKeys /\ q # <<>>
           /\ ~(k \in Stored /\ ~Expired(k))
  <2> DEFINE h == Head(q)
             p == Tail(q)
  <2>1. /\ h \in Members(q) /\ Followers(q, h) = Members(q) \ {h}
        /\ p \in Seq(Keys) /\ Once(p) /\ Len(p) = Len(q) - 1
        /\ Members(p) = Members(q) \ {h}
        /\ \A x \in Members(q) \ {h} : Followers(p, x) = Followers(q, x)
    BY <1>1, <1>5, TailFollowers
  <2> HIDE DEF h, p
  <2>2. k \notin Members(p)
    BY <2>1, <1>1
  <2>3. /\ Append(p, k) \in Seq(Keys) /\ Once(Append(p, k))
        /\ Members(Append(p, k)) = Members(p) \cup {k}
    BY <2>1, <2>2, AppendMembers
  <2>4. /\ Followers(Append(p, k), k) = {}
        /\ \A x \in Members(p) :
             Followers(Append(p, k), x) = Followers(p, x) \cup {k}
    BY <2>1, <2>2, AppendFollowers
  <2>5. Len(Append(p, k)) <= Room
    <3>1. Len(Append(p, k)) = Len(p) + 1
      BY <2>1
    <3>2. Len(q) <= Len(order) /\ Len(p) + 1 = Len(q)
      BY <2>1, <1>1, <1>2
    <3> QED
      BY <3>1, <3>2, <1>2
  <2>6. \A x \in Members(p) :
           Followers(Append(p, k), x) = Followers(order, x) \cup {k}
    BY <2>1, <2>4, <1>1
  <2>7. Cardinality(Followers(order, h) \cup {k}) >= Room
    <3>1. Followers(order, h) \cup {k} = (Members(q) \ {h}) \cup {k}
      BY <2>1, <1>1
    <3>2. IsFiniteSet(Members(q)) /\ Cardinality(Members(q)) = Len(q)
      BY <1>1, OnceLength
    <3>3. /\ IsFiniteSet(Members(q) \ {h})
          /\ Cardinality(Members(q) \ {h}) = Len(q) - 1
      BY <2>1, <3>2, FS_RemoveElement
    <3>4. k \notin Members(q) \ {h}
      BY <1>1
    <3>5. Cardinality((Members(q) \ {h}) \cup {k}) = Len(q) - 1 + 1
      BY <3>3, <3>4, FS_AddElement
    <3>6. Len(q) > 0
      BY <1>1, <1>5
    <3>7. Len(q) >= Room
      BY <3>6, <1>2, <1>5 DEF Room
    <3>8. Len(q) - 1 + 1 = Len(q)
      BY <1>2
    <3> QED
      BY <3>1, <3>5, <3>7, <3>8
  <2>8. Touches(k, Append(p, k), {h})
    <3>1. {h} \in SUBSET (Stored \ {k})
      BY <2>1, <1>1
    <3>2. Members(Append(p, k)) = (Stored \ {h}) \cup {k}
      BY <2>1, <2>3, <1>1
    <3>3. Members(Append(p, k)) \ {k} = Members(p)
      BY <2>2, <2>3
    <3> QED
      BY <3>1, <3>2, <3>3, <2>3, <2>4, <2>5, <2>6, <2>7, <1>5 DEF Touches
  <2> QED
    BY <2>8, <1>5 DEF p
<1>6. CASE k \in Stored /\ ~Expired(k)
  BY <1>1, <1>2, <1>3, <1>4, <1>6
<1>7. CASE ~(k \in Stored /\ ~Expired(k))
  <2>1. CASE Len(q) >= MaxKeys /\ q # <<>>
    BY <2>1, <1>3, <1>5, <1>7 DEF Evict
  <2>2. CASE ~(Len(q) >= MaxKeys /\ q # <<>>)
    <3>1. Touch(k) = Append(q, k)
      BY <2>2, <1>3, <1>7 DEF Evict
    <3>2. q = <<>> => Len(q) = 0
      BY <1>1
    <3>3. Len(q) + 1 <= Room
      BY <2>2, <3>2, <1>2 DEF Room
    <3> QED
      BY <3>1, <3>3, <1>4
  <2> QED
    BY <2>1, <2>2
<1> QED
  BY <1>6, <1>7

-----------------------------------------------------------------------------
(* Retry-After.                                                              *)

LEMMA Ceiling ==
    ASSUME NEW u \in Nat, NEW d \in Nat \ {0}
    PROVE  /\ (u + d - 1) \div d \in Int
           /\ d * ((u + d - 1) \div d) >= u
<1> DEFINE a == u + d - 1
<1>1. a \in Nat
  OBVIOUS
<1> HIDE DEF a
<1>2. (a \div d) \in Int /\ d * (a \div d) \in Int
  BY <1>1, SMT
<1>3. d * (a \div d) > a - d
  BY <1>1, SMT
<1>4. a - d = u - 1
  BY DEF a
<1>5. d * (a \div d) >= u
  BY <1>2, <1>3, <1>4, SMT
<1> QED
  BY <1>2, <1>5 DEF a

LEMMA Positive == ASSUME NEW x \in Nat \ {0}, NEW y \in Nat \ {0}
                  PROVE  x * y \in Nat \ {0}
  BY SMT

(* The header, in whole seconds, lasts until the missing units are refilled. *)
LEMMA SecondsEnough ==
    ASSUME NEW u \in Nat, Rate > 0
    PROVE  /\ WholeSeconds(u) \in Nat
           /\ (Rate * Second) * WholeSeconds(u) >= u
<1> DEFINE d == Rate * Second
           n == (u + d - 1) \div d
<1>1. d \in Nat \ {0}
  BY BucketAssumption, Positive
<1> HIDE DEF d
<1>2. n \in Int /\ d * n >= u
  BY <1>1, Ceiling
<1>3. WholeSeconds(u) = IF n < 1 THEN 1 ELSE n
  BY DEF WholeSeconds, d
<1> HIDE DEF n
<1>4. CASE n < 1
  <2>1. d * n <= d * 1
    BY <1>1, <1>2, <1>4, SMT
  <2>2. d * 1 >= u
    <3>1. d * n \in Int /\ d * 1 \in Int
      BY <1>1, <1>2, SMT
    <3> QED
      BY <2>1, <3>1, <1>2
  <2> QED
    BY <2>2, <1>3, <1>4 DEF d
<1>5. CASE ~(n < 1)
  BY <1>2, <1>3, <1>5 DEF d
<1> QED
  BY <1>4, <1>5

LEMMA RetryTyped ==
    ASSUME NEW b, Sound(b), ~(Refill(b) >= Unit)
    PROVE  RetryAfter(b) \in Nat
<1>1. Refill(b) \in Nat /\ Unit - Refill(b) \in Nat
  <2>1. b.tokens \in Nat /\ b.since * Rate \in Nat
    BY ProductNat, BucketAssumption, FullNat DEF Sound, Bucket
  <2>2. Refill(b) \in Nat
    BY <2>1, FullNat DEF Refill
  <2> QED
    BY <2>2, BucketAssumption
<1>2. CASE Rate = 0
  BY <1>2, BucketAssumption DEF RetryAfter
<1>3. CASE Rate # 0
  <2>1. Rate > 0
    BY <1>3, BucketAssumption
  <2>2. WholeSeconds(Unit - Refill(b)) \in Nat
    BY <2>1, <1>1, SecondsEnough
  <2>3. RetryAfter(b) = Second * WholeSeconds(Unit - Refill(b))
    BY <1>3 DEF RetryAfter
  <2> QED
    BY <2>2, <2>3, ProductNat, BucketAssumption
<1> QED
  BY <1>2, <1>3

LEMMA Reordered == ASSUME NEW x \in Nat, NEW y \in Nat, NEW z \in Nat
                   PROVE  (x * y) * z = (z * x) * y
  BY SMT

LEMMA RetryEnough ==
    ASSUME NEW b, Sound(b), ~(Refill(b) >= Unit), Rate > 0
    PROVE  Refill(b) + RetryAfter(b) * Rate >= Unit
<1> DEFINE t == Refill(b)
           n == WholeSeconds(Unit - t)
<1>1. t \in Nat /\ Unit - t \in Nat
  <2>1. b.tokens \in Nat /\ b.since * Rate \in Nat
    BY ProductNat, BucketAssumption, FullNat DEF Sound, Bucket
  <2>2. Refill(b) \in Nat
    BY <2>1, FullNat DEF Refill
  <2> QED
    BY <2>2, BucketAssumption
<1>2. RetryAfter(b) = Second * n
  BY BucketAssumption DEF RetryAfter
<1> HIDE DEF t
<1>3. n \in Nat /\ (Rate * Second) * n >= Unit - t
  BY <1>1, SecondsEnough
<1> HIDE DEF n
<1>4. (Second * n) * Rate = (Rate * Second) * n
  BY <1>3, Reordered, BucketAssumption
<1>5. (Rate * Second) * n \in Nat /\ Unit \in Nat
  BY <1>3, ProductNat, BucketAssumption
<1>6. t + (Rate * Second) * n >= Unit
  BY <1>1, <1>3, <1>5
<1> QED
  BY <1>2, <1>4, <1>6 DEF t

(* The invariant behind Retry-After: what a live bucket has, what it gains   *)
(* since its last refill and what it will gain until the header has passed   *)
(* make a token.  A key without a live bucket gets a full one.               *)
Promised(k) == bucket[k].tokens + (bucket[k].since + wait[k]) * Rate >= Unit

RateInv ==
    /\ BucketsSound
    /\ StoreInv
    /\ wait \in [Keys -> Nat \cup {None}]
    /\ Rate > 0 => \A k \in Keys :
         wait[k] # None /\ k \in Stored /\ ~Expired(k) => Promised(k)

LEMMA RateInit == Init => RateInv
<1> SUFFICES ASSUME Init PROVE RateInv
  OBVIOUS
<1>1. StoreInv
  BY BucketAssumption DEF Init, StoreInv, Once, Room
<1> QED
  BY <1>1, InitSound DEF Init, RateInv

LEMMA RateRequest ==
    ASSUME RateInv, NEW address \in Addresses,
           NEW agent \in Agents \cup {NoAgent}, Request(address, agent)
    PROVE  RateInv'
<1> PICK k, b, kept : k = KeyOf(address, agent) /\ b = Held(k) /\ kept = Touch(k)
  OBVIOUS
<1>1. k \in Keys
  BY DEF KeyOf, Keys
<1>2. /\ order' = kept
      /\ bucket' = [f \in Keys |-> IF f = k THEN Acquire(b)
                                   ELSE IF f \in Members(kept) THEN bucket[f]
                                   ELSE NewBucket]
      /\ wait' = [wait EXCEPT ![k] = IF Refill(b) >= Unit THEN None
                                     ELSE RetryAfter(b)]
  BY DEF Request
<1>3. BucketsSound'
  BY RequestSound DEF RateInv
<1>4. Sound(b)
  BY <1>1, NewSound DEF Held, BucketsSound, RateInv
<1>5. PICK lost : Touches(k, kept, lost)
  BY <1>1, TouchFacts DEF RateInv
<1>6. StoreInv'
  BY <1>2, <1>5 DEF Touches, StoreInv
<1>7. wait' \in [Keys -> Nat \cup {None}]
  <2>1. ~(Refill(b) >= Unit) => RetryAfter(b) \in Nat
    BY <1>4, RetryTyped
  <2> QED
    BY <2>1, <1>1, <1>2 DEF RateInv
<1>8. ASSUME Rate > 0, NEW f \in Keys,
             wait'[f] # None, f \in Stored', ~Expired(f)'
      PROVE  Promised(f)'
  <2>1. CASE f = k
    <3>1. ~(Refill(b) >= Unit) /\ wait'[k] = RetryAfter(b)
      BY <2>1, <1>1, <1>2, <1>8 DEF RateInv
    <3>2. bucket'[k] = [tokens |-> Refill(b), since |-> 0,
                        age |-> b.age, granted |-> b.granted]
      BY <3>1, <1>1, <1>2 DEF Acquire
    <3>3. bucket'[k].tokens = Refill(b) /\ bucket'[k].since = 0
      BY <3>2
    <3>4. Refill(b) + RetryAfter(b) * Rate >= Unit
      BY <3>1, <1>4, <1>8, RetryEnough
    <3>5. 0 + RetryAfter(b) = RetryAfter(b)
      BY <3>1, <1>4, RetryTyped
    <3> QED
      BY <2>1, <3>1, <3>3, <3>4, <3>5 DEF Promised
  <2>2. CASE f # k
    <3>1. f \in Members(kept) /\ f \in Stored
      BY <2>2, <1>2, <1>5, <1>8 DEF Touches, Stored
    <3>2. bucket'[f] = bucket[f] /\ wait'[f] = wait[f]
      BY <3>1, <2>2, <1>2 DEF RateInv
    <3>3. ~Expired(f)
      BY <3>2, <1>8 DEF Expired
    <3>4. Promised(f)
      BY <3>1, <3>2, <3>3, <1>8 DEF RateInv
    <3> QED
      BY <3>2, <3>4 DEF Promised
  <2> QED
    BY <2>1, <2>2
<1> QED
  BY <1>3, <1>6, <1>7, <1>8 DEF RateInv

LEMMA RateTick ==
    ASSUME RateInv, Tick
    PROVE  RateInv'
<1>1. /\ bucket' = [k \in Keys |-> Aged(k)]
      /\ wait' = [k \in Keys |->
           IF wait[k] \in {None, 0} THEN wait[k] ELSE wait[k] - 1]
      /\ order' = order
  BY DEF Tick
<1>2. BucketsSound'
  BY TickSound DEF RateInv
<1>3. StoreInv' /\ Stored' = Stored
  BY <1>1 DEF RateInv, StoreInv, Stored
<1>4. wait' \in [Keys -> Nat \cup {None}]
  <2> SUFFICES ASSUME NEW k \in Keys
               PROVE  wait'[k] \in Nat \cup {None}
    BY <1>1
  <2>1. wait[k] \in Nat \cup {None}
    BY DEF RateInv
  <2> QED
    BY <2>1, <1>1
<1>5. ASSUME Rate > 0, NEW k \in Keys,
             wait'[k] # None, k \in Stored', ~Expired(k)'
      PROVE  Promised(k)'
  <2>1. k \in Stored /\ wait[k] # None /\ wait[k] \in Nat
    BY <1>1, <1>3, <1>5 DEF RateInv
  <2>2. ~Expired(k)
    <3>1. Expired(k) => bucket'[k] = bucket[k]
      BY <1>1 DEF Aged
    <3> QED
      BY <3>1, <1>5 DEF Expired
  <2>3. /\ bucket'[k].tokens = bucket[k].tokens
        /\ bucket'[k].since = bucket[k].since + 1
    BY <2>1, <2>2, <1>1 DEF Aged
  <2>4. Promised(k)
    BY <2>1, <2>2, <1>5 DEF RateInv
  <2>5. /\ bucket[k].tokens \in Nat /\ bucket[k].since \in Nat
        /\ Rate \in Nat /\ Unit \in Nat
    BY BucketAssumption, FullNat DEF RateInv, BucketsSound, Sound, Bucket
  <2>6. CASE wait[k] = 0
    <3>1. wait'[k] = 0
      BY <2>6, <1>1
    <3>2. /\ bucket[k].since + 0 = bucket[k].since
          /\ bucket[k].since + 1 + 0 = bucket[k].since + 1
      BY <2>5
    <3>3. /\ (bucket[k].since + 1) * Rate = bucket[k].since * Rate + Rate
          /\ bucket[k].since * Rate \in Nat
      BY <2>5, OneMore, ProductNat
    <3>4. bucket[k].tokens + bucket[k].since * Rate >= Unit
      BY <2>4, <2>6, <3>2 DEF Promised
    <3>5. bucket[k].tokens + (bucket[k].since * Rate + Rate) >= Unit
      BY <2>5, <3>3, <3>4
    <3>6. /\ bucket'[k].tokens = bucket[k].tokens
          /\ bucket'[k].since + wait'[k] = bucket[k].since + 1
      BY <2>3, <3>1, <3>2
    <3> QED
      BY <3>3, <3>5, <3>6 DEF Promised
  <2>7. CASE wait[k] # 0
    <3>1. wait'[k] = wait[k] - 1
      BY <2>1, <2>7, <1>1
    <3>2. bucket[k].since + 1 + (wait[k] - 1) = bucket[k].since + wait[k]
      BY <2>1, <2>5
    <3>3. bucket'[k].since + wait'[k] = bucket[k].since + wait[k]
      BY <2>3, <3>1, <3>2
    <3> QED
      BY <2>3, <2>4, <3>3 DEF Promised
  <2> QED
    BY <2>6, <2>7
<1> QED
  BY <1>2, <1>3, <1>4, <1>5 DEF RateInv

LEMMA RateNext == RateInv /\ [Next]_vars => RateInv'
<1> SUFFICES ASSUME RateInv, [Next]_vars PROVE RateInv'
  OBVIOUS
<1>1. CASE Tick
  BY <1>1, RateTick
<1>2. ASSUME NEW address \in Addresses, NEW agent \in Agents \cup {NoAgent},
             Request(address, agent)
      PROVE  RateInv'
  BY <1>2, RateRequest
<1>3. CASE UNCHANGED vars
  BY <1>3 DEF vars, RateInv, BucketsSound, Sound, StoreInv, Stored, Expired,
              Promised
<1> QED
  BY <1>1, <1>2, <1>3 DEF Next

LEMMA RateInvariant == Spec => []RateInv
  BY RateInit, RateNext, PTL DEF Spec

(* The store holds every key once and never more keys than it may.           *)
THEOREM TypeCorrect == Spec => []TypeOK
<1>1. ASSUME RateInv PROVE TypeOK
  <2>1. order \in Seq(Keys) /\ Cardinality(Stored) = Len(order)
    BY <1>1, OnceLength DEF RateInv, StoreInv, Stored
  <2> QED
    BY <2>1, <1>1 DEF RateInv, StoreInv, BucketsSound, Room, TypeOK
<1> QED
  BY <1>1, RateInvariant, PTL

(* A client that waits as long as Retry-After said is admitted, whatever     *)
(* others do to the store meanwhile.                                         *)
THEOREM RetryAfterIsHonest == Spec => []RetryAfterHonest
<1>1. ASSUME RateInv, Burst > 0, Rate > 0, NEW k \in Keys, wait[k] = 0
      PROVE  Refill(Held(k)) >= Unit
  <2>1. Full >= Unit
    <3>1. Burst = (Burst - 1) + 1 /\ Burst - 1 \in Nat
      BY <1>1, BucketAssumption
    <3>2. Full = (Burst - 1) * Unit + Unit
      BY <3>1, OneMore, BucketAssumption DEF Full
    <3> QED
      BY <3>1, <3>2, ProductNat, BucketAssumption
  <2>2. Full \in Nat /\ Unit \in Nat /\ Rate \in Nat
    BY FullNat, BucketAssumption
  <2>3. CASE k \in Stored /\ ~Expired(k)
    <3>1. Held(k) = bucket[k] /\ Promised(k)
      BY <2>3, <1>1, BucketAssumption DEF Held, RateInv
    <3>2. bucket[k].since \in Nat
      BY <1>1 DEF RateInv, BucketsSound, Sound, Bucket
    <3>3. bucket[k].tokens + bucket[k].since * Rate >= Unit
      BY <3>1, <3>2, <1>1 DEF Promised
    <3> QED
      BY <3>1, <3>3, <2>1 DEF Refill
  <2>4. CASE ~(k \in Stored /\ ~Expired(k))
    <3>1. Held(k) = NewBucket
      BY <2>4 DEF Held
    <3>2. NewBucket.tokens = Full /\ NewBucket.since = 0 /\ 0 * Rate = 0
      BY <2>2, SMT DEF NewBucket
    <3>3. Refill(NewBucket) = Full
      BY <3>2, <2>2 DEF Refill
    <3> QED
      BY <3>1, <3>3, <2>1
  <2> QED
    BY <2>3, <2>4
<1>2. RateInv => RetryAfterHonest
  BY <1>1 DEF RetryAfterHonest
<1> QED
  BY <1>2, RateInvariant, PTL

-----------------------------------------------------------------------------
(* The store implements Quota.                                               *)

(* The instance's own copy of the library's cardinality.                     *)
LEMMA SameCount == \A S : Promise!Cardinality(S) = Cardinality(S)
  BY Zenon DEF Promise!Cardinality, Cardinality, Promise!IsFiniteSet,
               IsFiniteSet

quotas == [k \in Keys |-> Refill(Held(k))]
ages == [k \in Keys |-> IF k \in Remembered THEN bucket[k].age ELSE 0]
followers == [k \in Keys |-> IF k \in Remembered THEN Followers(order, k) ELSE {}]

LEMMA HeldIs ==
    /\ \A k : Held(k) = IF k \in Remembered THEN bucket[k] ELSE NewBucket
    /\ Refill(NewBucket) = Full
<1>1. \A k : Held(k) = IF k \in Remembered THEN bucket[k] ELSE NewBucket
  BY DEF Held, Remembered
<1>2. NewBucket.tokens = Full /\ NewBucket.since = 0 /\ 0 * Rate = 0
  BY BucketAssumption, SMT DEF NewBucket
<1>3. Full + 0 = Full
  BY FullNat
<1> QED
  BY <1>1, <1>2, <1>3 DEF Refill

(* A bucket that was just used is refilled to what it has.                   *)
LEMMA AcquireIs ==
    ASSUME NEW b, Sound(b)
    PROVE  /\ Acquire(b).age = b.age
           /\ Refill(Acquire(b)) = IF Refill(b) >= Unit THEN Refill(b) - Unit
                                   ELSE Refill(b)
<1> DEFINE a == Acquire(b)
<1>1. /\ a.age = b.age /\ a.since = 0
      /\ a.tokens = IF Refill(b) >= Unit THEN Refill(b) - Unit ELSE Refill(b)
  BY DEF Acquire
<1>2. a.tokens \in 0 .. Full
  BY AcquireSound DEF Sound, Bucket
<1> HIDE DEF a
<1>3. 0 * Rate = 0
  BY BucketAssumption, SMT
<1>4. Refill(a) = a.tokens
  BY <1>1, <1>2, <1>3, FullNat DEF Refill
<1> QED
  BY <1>1, <1>4 DEF a

LEMMA RequestMapped ==
    ASSUME RateInv, NEW address \in Addresses,
           NEW agent \in Agents \cup {NoAgent}, Request(address, agent)
    PROVE  \E k \in Keys : Promise!Request(k)
<1> PICK k, b, kept : k = KeyOf(address, agent) /\ b = Held(k) /\ kept = Touch(k)
  OBVIOUS
<1>1. k \in Keys
  BY DEF KeyOf, Keys
<1>2. /\ order' = kept
      /\ bucket' = [f \in Keys |-> IF f = k THEN Acquire(b)
                                   ELSE IF f \in Members(kept) THEN bucket[f]
                                   ELSE NewBucket]
  BY DEF Request
<1>3. Sound(b) /\ b.age <= Ttl
  <2>1. CASE k \in Remembered
    <3>1. b = bucket[k] /\ ~(bucket[k].age > Ttl)
      BY <2>1, HeldIs DEF Remembered, Expired
    <3>2. Sound(b) /\ b.age \in Nat
      BY <3>1, <1>1 DEF RateInv, BucketsSound, Sound, Bucket
    <3> QED
      BY <3>1, <3>2, BucketAssumption
  <2>2. CASE k \notin Remembered
    <3>1. b = NewBucket /\ NewBucket.age = 0
      BY <2>2, HeldIs DEF NewBucket
    <3> QED
      BY <3>1, NewSound, BucketAssumption
  <2> QED
    BY <2>1, <2>2
<1>4. PICK lost : Touches(k, kept, lost)
  BY <1>1, TouchFacts DEF RateInv
<1>5. /\ Stored' = (Stored \ lost) \cup {k}
      /\ lost \in SUBSET (Stored \ {k})
      /\ Stored \subseteq Keys
  <2>1. Stored \subseteq Keys
    BY DEF Stored, Members, RateInv, StoreInv
  <2> QED
    BY <2>1, <1>2, <1>4 DEF Touches, Stored
<1>6. \A f \in Stored' \ {k} : bucket'[f] = bucket[f]
  BY <1>1, <1>2, <1>5 DEF Stored
<1>7. bucket'[k] = Acquire(b) /\ bucket'[k].age = b.age
  BY <1>1, <1>2, <1>3, AcquireIs
<1>8. Remembered' = (Remembered \ lost) \cup {k}
  <2>1. k \in Remembered'
    <3>1. ~(b.age > Ttl)
      BY <1>3, BucketAssumption DEF Sound, Bucket
    <3> QED
      BY <3>1, <1>5, <1>7 DEF Remembered, Expired
  <2>2. \A f \in Stored' \ {k} : Expired(f)' = Expired(f)
    BY <1>6 DEF Expired
  <2> QED
    BY <2>1, <2>2, <1>5 DEF Remembered
<1> DEFINE L == lost \cap Remembered
<1>9. L \in SUBSET Promise!Forgettable(k)
  <2> SUFFICES ASSUME NEW f \in L PROVE f \in Promise!Forgettable(k)
    OBVIOUS
  <2>1. f \in Remembered \ {k} /\ f \in Keys
    BY <1>5
  <2>2. followers[f] = Followers(order, f)
    BY <2>1 DEF followers
  <2>3. Cardinality(followers[f] \cup {k}) >= Room
    BY <2>2, <1>4 DEF Touches
  <2> QED
    BY <2>1, <2>3, SameCount DEF Promise!Forgettable, followers, Room
<1>10. Remembered' = (Remembered \ L) \cup {k}
  BY <1>8
<1>11. ages' = [f \in Keys |-> IF f \in L THEN 0 ELSE ages[f]]
  <2> SUFFICES ASSUME NEW f \in Keys
               PROVE  ages'[f] = IF f \in L THEN 0 ELSE ages[f]
    BY DEF ages
  <2>1. ages'[f] = IF f \in Remembered' THEN bucket'[f].age ELSE 0
    BY DEF ages
  <2>2. CASE f = k
    <3>1. b.age = IF k \in Remembered THEN bucket[k].age ELSE 0
      BY HeldIs DEF NewBucket
    <3> QED
      BY <2>1, <2>2, <3>1, <1>5, <1>7, <1>10 DEF ages
  <2>3. CASE f # k /\ f \in Remembered'
    <3>1. bucket'[f] = bucket[f] /\ f \in Remembered /\ f \notin L
      BY <2>3, <1>6, <1>10 DEF Remembered
    <3> QED
      BY <2>1, <2>3, <3>1 DEF ages
  <2>4. CASE f # k /\ f \notin Remembered'
    BY <2>1, <2>4, <1>10 DEF ages
  <2> QED
    BY <2>2, <2>3, <2>4
<1>12. quotas' = [f \in Keys |->
                    IF f \in L THEN Full
                    ELSE IF f = k /\ quotas[k] >= Unit THEN quotas[k] - Unit
                    ELSE quotas[f]]
  <2> SUFFICES ASSUME NEW f \in Keys
               PROVE  quotas'[f] =
                        IF f \in L THEN Full
                        ELSE IF f = k /\ quotas[k] >= Unit THEN quotas[k] - Unit
                        ELSE quotas[f]
    BY DEF quotas
  <2>1. quotas'[f] = Refill(Held(f)')
    BY DEF quotas, Refill
  <2>2. Held(f)' = IF f \in Remembered' THEN bucket'[f] ELSE NewBucket
    BY DEF Held, Remembered, NewBucket
  <2>3. quotas[f] = Refill(IF f \in Remembered THEN bucket[f] ELSE NewBucket)
    BY HeldIs DEF quotas
  <2>4. CASE f = k
    <3>1. quotas'[f] = Refill(Acquire(b)) /\ k \notin L
      BY <2>1, <2>2, <2>4, <1>5, <1>7, <1>10
    <3>2. quotas[k] = Refill(b)
      BY <1>1 DEF quotas
    <3> QED
      BY <2>4, <3>1, <3>2, <1>3, AcquireIs
  <2>5. CASE f # k /\ f \in Remembered'
    <3>1. bucket'[f] = bucket[f] /\ f \in Remembered /\ f \notin L
      BY <2>5, <1>6, <1>10 DEF Remembered
    <3> QED
      BY <2>1, <2>2, <2>3, <2>5, <3>1
  <2>6. CASE f # k /\ f \notin Remembered'
    <3>1. f \in L \/ f \notin Remembered
      BY <2>6, <1>10
    <3>2. quotas'[f] = Full
      BY <2>1, <2>2, <2>6, HeldIs
    <3>3. f \notin Remembered => quotas[f] = Full
      BY <2>3, HeldIs
    <3> QED
      BY <2>6, <3>1, <3>2, <3>3
  <2> QED
    BY <2>4, <2>5, <2>6
<1>13. followers' = [f \in Keys |-> IF f \in Remembered' \ {k}
                                    THEN followers[f] \cup {k} ELSE {}]
  <2> SUFFICES ASSUME NEW f \in Keys
               PROVE  followers'[f] = IF f \in Remembered' \ {k}
                                      THEN followers[f] \cup {k} ELSE {}
    BY DEF followers
  <2>1. followers'[f] = IF f \in Remembered' THEN Followers(kept, f) ELSE {}
    BY <1>2 DEF followers
  <2>2. CASE f = k
    BY <2>1, <2>2, <1>4 DEF Touches
  <2>3. CASE f # k /\ f \in Remembered'
    <3>1. f \in Members(kept) \ {k} /\ f \in Remembered
      BY <2>3, <1>2, <1>5, <1>10 DEF Remembered, Stored
    <3>2. Followers(kept, f) = Followers(order, f) \cup {k}
      BY <3>1, <1>4 DEF Touches
    <3> QED
      BY <2>1, <2>3, <3>1, <3>2 DEF followers
  <2>4. CASE f # k /\ f \notin Remembered'
    BY <2>1, <2>4
  <2> QED
    BY <2>2, <2>3, <2>4
<1> HIDE DEF L
<1>14. Promise!Request(k)
  BY <1>9, <1>10, <1>11, <1>12, <1>13
     DEF Promise!Request, quotas, ages, followers
<1> QED
  BY <1>1, <1>14

(* The lazy refill of many ticks is the eager refill of each.                *)
LEMMA RefillStep ==
    ASSUME NEW b, NEW c, Sound(b),
           c.tokens = b.tokens, c.since = b.since + 1
    PROVE  Refill(c) = Promise!Capped(Refill(b) + Rate)
<1>1. /\ b.tokens \in Nat /\ b.since \in Nat /\ Rate \in Nat /\ Full \in Nat
      /\ b.tokens <= Full
  BY BucketAssumption, FullNat DEF Sound, Bucket
<1>2. /\ (b.since + 1) * Rate = b.since * Rate + Rate
      /\ b.since * Rate \in Nat
  BY <1>1, OneMore, ProductNat
<1> PICK t, s : t = b.tokens /\ s = b.since * Rate
  OBVIOUS
<1>3. t \in Nat /\ s \in Nat
  BY <1>1, <1>2
<1>4. Refill(c) = IF t + (s + Rate) > Full THEN Full ELSE t + (s + Rate)
  BY <1>2 DEF Refill
<1>5. Refill(b) = IF t + s > Full THEN Full ELSE t + s
  BY DEF Refill
<1>6. CASE t + s > Full
  <2>1. t + (s + Rate) > Full
    BY <1>1, <1>3, <1>6
  <2>2. Refill(c) = Full
    BY <2>1, <1>4
  <2>3. Refill(b) = Full
    BY <1>5, <1>6
  <2>4. Full + Rate > Full \/ Full + Rate = Full
    BY <1>1
  <2> QED
    BY <2>2, <2>3, <2>4 DEF Promise!Capped
<1>7. CASE ~(t + s > Full)
  <2>1. Refill(b) + Rate = t + (s + Rate)
    BY <1>1, <1>3, <1>5, <1>7
  <2> QED
    BY <2>1, <1>4 DEF Promise!Capped
<1> QED
  BY <1>6, <1>7

LEMMA TickMapped ==
    ASSUME RateInv, Tick
    PROVE  Promise!Tick
<1>1. bucket' = [k \in Keys |-> Aged(k)] /\ order' = order
  BY DEF Tick
<1>2. Stored' = Stored /\ Stored \subseteq Keys
  BY <1>1 DEF Stored, Members, RateInv, StoreInv
<1>3. \A k \in Keys : k \notin Remembered => bucket'[k] = bucket[k]
  BY <1>1 DEF Aged, Remembered
<1>4. \A k \in Remembered : /\ bucket'[k].tokens = bucket[k].tokens
                            /\ bucket'[k].since = bucket[k].since + 1
                            /\ bucket'[k].age = bucket[k].age + 1
  BY <1>1, <1>2 DEF Aged, Remembered
<1>5. \A k \in Keys : bucket[k].age \in Nat /\ Sound(bucket[k])
  BY DEF RateInv, BucketsSound, Sound, Bucket
<1>6. Remembered' = {k \in Remembered : ages[k] < Ttl}
  <2>1. \A k \in Stored : k \notin Remembered => k \notin Remembered'
    BY <1>2, <1>3 DEF Remembered, Expired
  <2>2. ASSUME NEW k \in Remembered
        PROVE  k \in Remembered' <=> ages[k] < Ttl
    <3>1. k \in Stored /\ k \in Keys /\ bucket[k].age \in Nat
      BY <1>2, <1>5 DEF Remembered
    <3>2. ages[k] = bucket[k].age
      BY <3>1 DEF ages
    <3>3. ~(bucket[k].age + 1 > Ttl) <=> bucket[k].age < Ttl
      BY <3>1, BucketAssumption
    <3>4. k \in Remembered' <=> ~(bucket[k].age + 1 > Ttl)
      BY <3>1, <1>2, <1>4 DEF Remembered, Expired
    <3> QED
      BY <3>2, <3>3, <3>4
  <2>3. Remembered' \subseteq Stored /\ Remembered \subseteq Stored
    BY <1>2 DEF Remembered
  <2> QED
    BY <2>1, <2>2, <2>3
<1>7. quotas' = [k \in Keys |-> IF k \in Remembered'
                                THEN Promise!Capped(quotas[k] + Rate) ELSE Full]
  <2> SUFFICES ASSUME NEW k \in Keys
               PROVE  quotas'[k] = IF k \in Remembered'
                                   THEN Promise!Capped(quotas[k] + Rate)
                                   ELSE Full
    BY DEF quotas
  <2>1. quotas'[k] = Refill(IF k \in Remembered' THEN bucket'[k] ELSE NewBucket)
    BY DEF quotas, Held, Remembered, Refill, NewBucket
  <2>2. CASE k \in Remembered'
    <3>1. k \in Remembered
      BY <2>2, <1>6
    <3>2. quotas[k] = Refill(bucket[k])
      BY <3>1, HeldIs DEF quotas
    <3>3. Refill(bucket'[k]) = Promise!Capped(Refill(bucket[k]) + Rate)
      BY <3>1, <1>4, <1>5, RefillStep
    <3> QED
      BY <2>1, <2>2, <3>2, <3>3
  <2>3. CASE k \notin Remembered'
    BY <2>1, <2>3, HeldIs
  <2> QED
    BY <2>2, <2>3
<1>8. ages' = [k \in Keys |-> IF k \in Remembered' THEN ages[k] + 1 ELSE 0]
  <2> SUFFICES ASSUME NEW k \in Keys
               PROVE  ages'[k] = IF k \in Remembered' THEN ages[k] + 1 ELSE 0
    BY DEF ages
  <2>1. k \in Remembered' => k \in Remembered
    BY <1>6
  <2> QED
    BY <2>1, <1>4 DEF ages
<1>9. followers' = [k \in Keys |->
                      IF k \in Remembered' THEN followers[k] ELSE {}]
  <2> SUFFICES ASSUME NEW k \in Keys
               PROVE  followers'[k] = IF k \in Remembered' THEN followers[k]
                                      ELSE {}
    BY DEF followers
  <2>1. k \in Remembered' => k \in Remembered
    BY <1>6
  <2> QED
    BY <2>1, <1>1 DEF followers
<1> QED
  BY <1>6, <1>7, <1>8, <1>9 DEF Promise!Tick, quotas, ages, followers

(* The lazily refilled store, with its eviction and expiry, keeps what Quota *)
(* promises: an allowance of his own to every principal, which only the TTL  *)
(* or as many later principals as the store has room for can renew.          *)
THEOREM StoreImplementsQuota == Spec => ImplementsQuota
<1>1. Init => Promise!Init
  <2> SUFFICES ASSUME Init PROVE Promise!Init
    OBVIOUS
  <2>1. Remembered = {}
    BY DEF Init, Remembered, Stored, Members
  <2>2. \A k \in Keys : Refill(Held(k)) = Full
    BY <2>1, HeldIs
  <2> QED
    BY <2>1, <2>2 DEF Promise!Init
<1>2. RateInv /\ [Next]_vars => [Promise!Next]_<<Remembered, quotas, ages, followers>>
  <2> SUFFICES ASSUME RateInv, [Next]_vars
               PROVE  \/ Promise!Next
                      \/ <<Remembered, quotas, ages, followers>>'
                           = <<Remembered, quotas, ages, followers>>
    OBVIOUS
  <2>1. CASE Tick
    BY <2>1, TickMapped DEF Promise!Next
  <2>2. ASSUME NEW address \in Addresses, NEW agent \in Agents \cup {NoAgent},
               Request(address, agent)
        PROVE  Promise!Next
    BY <2>2, RequestMapped DEF Promise!Next
  <2>3. CASE UNCHANGED vars
    <3>1. bucket' = bucket /\ order' = order
      BY <2>3 DEF vars
    <3>2. Stored' = Stored
      BY <3>1 DEF Stored
    <3>3. Remembered' = Remembered
      BY <3>1, <3>2 DEF Remembered, Expired
    <3>4. quotas' = quotas
      BY <3>1, <3>3 DEF quotas, Held, Remembered, Expired, Stored, Refill,
                        NewBucket
    <3>5. ages' = ages /\ followers' = followers
      BY <3>1, <3>3 DEF ages, followers
    <3> QED
      BY <3>3, <3>4, <3>5
  <2> QED
    BY <2>1, <2>2, <2>3 DEF Next
<1>3. [Promise!Next]_<<Remembered, quotas, ages, followers>>
        => [Promise!Next]_(Promise!vars)
  BY DEF quotas, ages, followers, Promise!vars
<1> QED
  BY <1>1, <1>2, <1>3, RateInvariant, PTL
     DEF Spec, ImplementsQuota, Promise!Spec

==============================================================================
