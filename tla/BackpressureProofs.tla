-------------------------- MODULE BackpressureProofs --------------------------
(* Proofs about Backpressure, for any number of requests, route groups and    *)
(* permits: no permit is lost or made up, no wake-up is lost, the queues hold *)
(* exactly who waits, and the guard implements Admission.                     *)
EXTENDS Backpressure, DataLemmas, FiniteSetTheorems, TLAPS

-----------------------------------------------------------------------------
(* asyncio.Semaphore.                                                        *)

(* What _wake_next finds: at most n waiters that are asleep, and somebody if *)
(* there is somebody asleep.                                                 *)
LEMMA WokenFacts ==
    ASSUME NEW S \in Semaphore, NEW n \in Nat, n <= S.value,
           Once(S.queue), S.woken \subseteq Members(S.queue)
    PROVE  LET T == Woken(S, n)
           IN  /\ T \in Semaphore
               /\ T.queue = S.queue
               /\ T.woken \subseteq Members(S.queue)
               /\ S.woken \subseteq T.woken
               /\ T.value + Cardinality(T.woken)
                    = S.value + Cardinality(S.woken)
               /\ n > 0 /\ Members(S.queue) # S.woken => T.woken # {}
<1> DEFINE q == S.queue
           asleep(i) == q[i] \notin S.woken
           before(i) == {j \in 1 .. i - 1 : asleep(j)}
           first == {i \in DOMAIN q : asleep(i) /\ Cardinality(before(i)) < n}
           wake == {q[i] : i \in first}
<1>1. /\ q \in Seq(Requests) /\ S.value \in Nat /\ S.woken \subseteq Requests
      /\ DOMAIN q = 1 .. Len(q) /\ Len(q) \in Nat
  BY DEF Semaphore
<1>2. Woken(S, n) = [S EXCEPT !.value = @ - Cardinality(wake),
                              !.woken = @ \cup wake]
  BY DEF Woken
<1> HIDE DEF q
<1>3. \A i \in 1 .. Len(q) : /\ IsFiniteSet(before(i))
                             /\ Cardinality(before(i)) \in Nat
  <2> SUFFICES ASSUME NEW i \in 1 .. Len(q)
               PROVE  /\ IsFiniteSet(before(i))
                      /\ Cardinality(before(i)) \in Nat
    OBVIOUS
  <2>1. IsFiniteSet(1 .. i - 1)
    BY <1>1, FS_Interval
  <2>2. before(i) \in SUBSET (1 .. i - 1)
    OBVIOUS
  <2> QED
    BY <2>1, <2>2, FS_Subset, FS_CardinalityType
<1>4. \A i, j \in 1 .. Len(q) :
        asleep(i) /\ i < j => Cardinality(before(i)) < Cardinality(before(j))
  <2> SUFFICES ASSUME NEW i \in 1 .. Len(q), NEW j \in 1 .. Len(q),
                      asleep(i), i < j
               PROVE  Cardinality(before(i)) < Cardinality(before(j))
    OBVIOUS
  <2>1. before(i) \cup {i} \in SUBSET before(j)
    BY <1>1
  <2>2. i \notin before(i)
    BY <1>1
  <2>3. Cardinality(before(i) \cup {i}) = Cardinality(before(i)) + 1
    BY <2>2, <1>3, FS_AddElement
  <2>4. Cardinality(before(i) \cup {i}) <= Cardinality(before(j))
    BY <2>1, <1>3, FS_Subset
  <2> HIDE DEF before
  <2> QED
    BY <2>3, <2>4, <1>3
<1>5. wake \subseteq Members(q) \ S.woken
  BY <1>1 DEF Members
<1>6. IsFiniteSet(wake) /\ Cardinality(wake) <= n
  <2> DEFINE at0(w) == CHOOSE i \in first : q[i] = w
             f == [w \in wake |-> Cardinality(before(at0(w)))]
  <2>1. \A w \in wake : at0(w) \in first /\ q[at0(w)] = w
    OBVIOUS
  <2>2. first \subseteq 1 .. Len(q)
    BY <1>1
  <2>3. \A i \in first : asleep(i) /\ Cardinality(before(i)) \in 0 .. n - 1
    <3> SUFFICES ASSUME NEW i \in first
                 PROVE  asleep(i) /\ Cardinality(before(i)) \in 0 .. n - 1
      OBVIOUS
    <3>1. asleep(i) /\ Cardinality(before(i)) < n
      OBVIOUS
    <3>2. Cardinality(before(i)) \in Nat
      BY <1>3, <2>2
    <3> HIDE DEF before
    <3> QED
      BY <3>1, <3>2
  <2> HIDE DEF at0, first, before
  <2>4. f \in [wake -> 0 .. n - 1]
    BY <2>1, <2>3
  <2>5. \A v, w \in wake : f[v] = f[w] => v = w
    <3> SUFFICES ASSUME NEW v \in wake, NEW w \in wake, f[v] = f[w]
                 PROVE  v = w
      OBVIOUS
    <3>1. Cardinality(before(at0(v))) = Cardinality(before(at0(w)))
      OBVIOUS
    <3>2. /\ at0(v) \in 1 .. Len(q) /\ at0(w) \in 1 .. Len(q)
          /\ asleep(at0(v)) /\ asleep(at0(w))
      BY <2>1, <2>2, <2>3
    <3>3. Cardinality(before(at0(v))) \in Nat
      BY <3>2, <1>3
    <3>4. ~(at0(v) < at0(w)) /\ ~(at0(w) < at0(v))
      BY <3>1, <3>2, <3>3, <1>4
    <3>5. at0(v) = at0(w)
      BY <3>2, <3>4
    <3> QED
      BY <3>5, <2>1
  <2>6. f \in Injection(wake, 0 .. n - 1)
    BY <2>4, <2>5 DEF Injection, IsInjective
  <2>7. IsFiniteSet(0 .. n - 1) /\ Cardinality(0 .. n - 1) = n
    <3>1. 0 \in Int /\ n - 1 \in Int
      OBVIOUS
    <3>2. Cardinality(0 .. n - 1) = IF 0 > n - 1 THEN 0 ELSE n - 1 - 0 + 1
      BY <3>1, FS_Interval
    <3> QED
      BY <3>1, <3>2, FS_Interval
  <2> QED
    BY <2>6, <2>7, FS_Injection
<1>7. IsFiniteSet(Members(q))
  BY <1>1, OnceLength DEF q
<1>8. IsFiniteSet(S.woken) /\ Cardinality(S.woken) \in Nat
  BY <1>7, FS_Subset, FS_CardinalityType DEF q
<1>9. Cardinality(S.woken \cup wake) = Cardinality(S.woken) + Cardinality(wake)
  <2>1. S.woken \cap wake = {}
    BY <1>5
  <2>2. Cardinality({}) = 0
    BY FS_EmptySet
  <2>3. Cardinality(wake) \in Nat
    BY <1>6, FS_CardinalityType
  <2> HIDE DEF wake
  <2>4. Cardinality(S.woken \cup wake) = Cardinality(S.woken)
          + Cardinality(wake) - Cardinality(S.woken \cap wake)
    BY <1>6, <1>8, FS_Union
  <2>5. Cardinality(S.woken \cap wake) = 0
    BY <2>1, <2>2
  <2> QED
    BY <2>3, <2>4, <2>5, <1>8
<1>10. n > 0 /\ Members(q) # S.woken => wake # {}
  <2> SUFFICES ASSUME n > 0, Members(q) # S.woken PROVE wake # {}
    OBVIOUS
  <2> DEFINE slept == {i \in 1 .. Len(q) : asleep(i)}
  <2>1. slept # {}
    BY <1>1 DEF Members, q
  <2>2. slept \in SUBSET Nat
    BY <1>1
  <2>3. PICK i \in slept : \A j \in slept : i <= j
    BY <2>1, <2>2, LeastOf
  <2>4. before(i) = {}
    BY <2>3, <1>1
  <2>5. Cardinality(before(i)) = 0
    BY <2>4, FS_EmptySet
  <2>6. i \in first
    BY <2>3, <2>5, <1>1
  <2> QED
    BY <2>6
<1>11. Cardinality(wake) \in Nat
  BY <1>6, FS_CardinalityType
<1> HIDE DEF wake
<1>12. Members(q) \subseteq Requests
  BY <1>1 DEF Members
<1> DEFINE T == Woken(S, n)
<1>13. /\ T.queue = q /\ T.value = S.value - Cardinality(wake)
       /\ T.woken = S.woken \cup wake
  BY <1>2 DEF Semaphore, q
<1>14. T \in Semaphore
  <2>1. S.value - Cardinality(wake) \in Nat
    BY <1>1, <1>6, <1>11
  <2>2. S.woken \cup wake \in SUBSET Requests
    BY <1>1, <1>5, <1>12
  <2> QED
    BY <2>1, <2>2, <1>2 DEF Semaphore
<1> HIDE DEF T
<1>15. T.woken \subseteq Members(q) /\ S.woken \subseteq T.woken
  BY <1>5, <1>13 DEF q
<1>16. T.value + Cardinality(T.woken) = S.value + Cardinality(S.woken)
  BY <1>1, <1>8, <1>9, <1>11, <1>13
<1>17. n > 0 /\ Members(q) # S.woken => T.woken # {}
  BY <1>10, <1>13
<1> QED
  BY <1>13, <1>14, <1>15, <1>16, <1>17 DEF q, T

-----------------------------------------------------------------------------
(* A semaphore of capacity c with the holders H and the waiters W.           *)

Awake(S) == S.value > 0 /\ Members(S.queue) # S.woken => S.woken # {}

Sound(S, H, W, c) ==
    /\ S \in Semaphore
    /\ Once(S.queue) /\ Members(S.queue) = W
    /\ S.woken \subseteq W
    /\ S.value + Cardinality(H) + Cardinality(S.woken) = c
    /\ Awake(S)

(* The sets of requests that the counts are about.                           *)
LEMMA Counts ==
    ASSUME NEW T \in SUBSET Requests
    PROVE  IsFiniteSet(T) /\ Cardinality(T) \in Nat
  BY LimitsAssumption, FS_Subset, FS_CardinalityType

LEMMA OneIn ==
    ASSUME NEW T \in SUBSET Requests, NEW r, r \notin T
    PROVE  Cardinality(T \cup {r}) = Cardinality(T) + 1
  BY Counts, FS_AddElement

LEMMA OneOut ==
    ASSUME NEW T \in SUBSET Requests, NEW r \in T
    PROVE  Cardinality(T \ {r}) = Cardinality(T) - 1
  BY Counts, FS_RemoveElement

(* A permit that is released, or given back by who was woken with it, stays. *)
LEMMA Balance ==
    ASSUME NEW v \in Nat, NEW h \in Nat, NEW w \in Nat, NEW c \in Nat,
           v + h + w = c
    PROVE  /\ v + 1 + h + (w - 1) = c
           /\ v + (h + 1) + (w - 1) = c
  OBVIOUS

LEMMA Passed ==
    \A v, h, w, c, u, x \in Nat :
        v + h + w = c /\ u + x = v + 1 + w => u + (h - 1) + x = c
  OBVIOUS

(* acquire without a wait.                                                   *)
LEMMA TakenSound ==
    ASSUME NEW S, NEW H \in SUBSET Requests, NEW W, NEW c \in Nat,
           Sound(S, H, W, c), NEW r \in Requests \ H, ~Locked(S)
    PROVE  Sound(Taken(S), H \cup {r}, W, c)
<1>1. /\ S \in Semaphore /\ S.value \in Nat /\ S.woken \in SUBSET Requests
      /\ S.value # 0 /\ S.queue = <<>>
  BY DEF Sound, Locked, Semaphore
<1>2. /\ Taken(S) \in Semaphore /\ Taken(S).queue = S.queue
      /\ Taken(S).woken = S.woken /\ Taken(S).value = S.value - 1
  BY <1>1 DEF Taken, Semaphore
<1>3. Members(S.queue) = {}
  BY <1>1 DEF Members
<1>4. Cardinality(H \cup {r}) = Cardinality(H) + 1
  BY OneIn
<1>5. Cardinality(H) \in Nat /\ Cardinality(S.woken) \in Nat
  BY <1>1, Counts
<1>6. S.value - 1 + (Cardinality(H) + 1) + Cardinality(S.woken) = c
  BY <1>1, <1>5 DEF Sound
<1>7. Awake(Taken(S))
  BY <1>2, <1>3 DEF Awake, Sound
<1> QED
  BY <1>2, <1>4, <1>6, <1>7 DEF Sound

(* acquire with a wait.                                                      *)
LEMMA QueuedSound ==
    ASSUME NEW S, NEW H, NEW W, NEW c,
           Sound(S, H, W, c), NEW r \in Requests \ W, Locked(S)
    PROVE  Sound(Queued(S, r), H, W \cup {r}, c)
<1>1. /\ S \in Semaphore /\ S.value \in Nat /\ S.queue \in Seq(Requests)
      /\ Once(S.queue) /\ r \notin Members(S.queue) /\ Awake(S)
      /\ Members(S.queue) = W /\ S.woken \subseteq W
  BY DEF Sound, Semaphore
<1>2. /\ Append(S.queue, r) \in Seq(Requests)
      /\ Members(Append(S.queue, r)) = W \cup {r}
      /\ Once(Append(S.queue, r))
  BY <1>1, AppendMembers
<1>3. /\ Queued(S, r) \in Semaphore
      /\ Queued(S, r).queue = Append(S.queue, r)
      /\ Queued(S, r).woken = S.woken /\ Queued(S, r).value = S.value
  BY <1>1, <1>2 DEF Queued, Semaphore
<1>4. S.value > 0 => S.woken # {}
  <2> SUFFICES ASSUME S.value > 0, S.woken = {} PROVE FALSE
    OBVIOUS
  <2>1. S.queue # <<>>
    BY <1>1 DEF Locked
  <2>2. 1 \in DOMAIN S.queue
    BY <2>1, <1>1
  <2>3. Members(S.queue) # {}
    BY <2>2 DEF Members
  <2> QED
    BY <2>3, <1>1 DEF Awake
<1> QED
  BY <1>1, <1>2, <1>3, <1>4 DEF Sound, Awake

(* release.                                                                  *)
LEMMA ReleasedSound ==
    ASSUME NEW S, NEW H \in SUBSET Requests, NEW W, NEW c \in Nat,
           Sound(S, H, W, c), NEW r \in H
    PROVE  Sound(Released(S), H \ {r}, W, c)
<1> DEFINE P == [S EXCEPT !.value = @ + 1]
           T == Woken(P, 1)
<1>1. /\ S \in Semaphore /\ S.value \in Nat /\ S.woken \in SUBSET Requests
      /\ S.queue \in Seq(Requests) /\ Members(S.queue) = W
      /\ Once(S.queue) /\ S.woken \subseteq W
  BY DEF Sound, Semaphore
<1>2. /\ P \in Semaphore /\ P.value = S.value + 1
      /\ P.queue = S.queue /\ P.woken = S.woken
  BY <1>1 DEF Semaphore
<1> HIDE DEF P
<1>3. 1 \in Nat /\ 1 <= P.value
  BY <1>1, <1>2
<1>4. /\ T \in Semaphore /\ T.queue = P.queue
      /\ T.woken \subseteq W /\ S.woken \subseteq T.woken
      /\ T.value + Cardinality(T.woken) = P.value + Cardinality(S.woken)
      /\ W # S.woken => T.woken # {}
  BY <1>1, <1>2, <1>3, WokenFacts
<1>5. T = Released(S)
  BY DEF Released, P
<1> HIDE DEF T
<1>6. Cardinality(H \ {r}) = Cardinality(H) - 1
  BY OneOut
<1>7. /\ Cardinality(H) \in Nat /\ Cardinality(S.woken) \in Nat
      /\ T.value \in Nat /\ Cardinality(T.woken) \in Nat
  <2>1. T.woken \in SUBSET Requests /\ T.value \in Nat
    BY <1>4 DEF Semaphore
  <2> QED
    BY <2>1, <1>1, Counts
<1>8. T.value + (Cardinality(H) - 1) + Cardinality(T.woken) = c
  <2>1. S.value + Cardinality(H) + Cardinality(S.woken) = c
    BY DEF Sound
  <2>2. T.value + Cardinality(T.woken) = S.value + 1 + Cardinality(S.woken)
    BY <1>2, <1>4
  <2>3. /\ S.value \in Nat /\ Cardinality(H) \in Nat /\ c \in Nat
        /\ Cardinality(S.woken) \in Nat /\ T.value \in Nat
        /\ Cardinality(T.woken) \in Nat
    BY <1>1, <1>7
  <2> QED
    BY <2>1, <2>2, <2>3, Passed
<1>9. Awake(T)
  BY <1>1, <1>2, <1>4 DEF Awake
<1> QED
  BY <1>1, <1>2, <1>4, <1>5, <1>6, <1>8, <1>9 DEF Sound

(* The end of a wait: the waiter that resumes holds what it was woken with;  *)
(* the one that is cancelled gives it back and passes the wake-up on.        *)
LEMMA LeftSound ==
    ASSUME NEW S, NEW H \in SUBSET Requests, NEW W, NEW c \in Nat,
           Sound(S, H, W, c), NEW r \in W
    PROVE  /\ Sound(Left(S, r, TRUE), H, W \ {r}, c)
           /\ r \in S.woken /\ r \notin H
                => Sound(Left(S, r, FALSE), H \cup {r}, W \ {r}, c)
<1>1. /\ S \in Semaphore /\ S.value \in Nat /\ S.woken \in SUBSET Requests
      /\ S.queue \in Seq(Requests) /\ Members(S.queue) = W
      /\ Once(S.queue) /\ S.woken \subseteq W
      /\ W \subseteq Requests
  <2>1. S \in Semaphore /\ S.queue \in Seq(Requests) /\ Members(S.queue) = W
    BY DEF Sound, Semaphore
  <2>2. W \subseteq Requests
    BY <2>1 DEF Members
  <2> QED
    BY <2>1, <2>2 DEF Sound, Semaphore
<1>2. /\ Removed(S.queue, r) \in Seq(Requests)
      /\ Members(Removed(S.queue, r)) = W \ {r}
      /\ Once(Removed(S.queue, r))
  BY <1>1, RemovedMembers
<1>3. ASSUME NEW d \in BOOLEAN, NEW K \in SUBSET Requests,
             (IF d /\ r \in S.woken THEN S.value + 1 ELSE S.value)
               + Cardinality(K) + Cardinality(S.woken \ {r}) = c
      PROVE  Sound(Left(S, r, d), K, W \ {r}, c)
  <2> DEFINE P == [S EXCEPT !.queue = Removed(@, r),
                            !.woken = @ \ {r},
                            !.value = IF d /\ r \in S.woken
                                      THEN @ + 1 ELSE @]
             T == Woken(P, P.value)
  <2>1. /\ P.queue = Removed(S.queue, r)
        /\ P.woken = S.woken \ {r}
        /\ P.value = IF d /\ r \in S.woken THEN S.value + 1 ELSE S.value
    BY <1>1 DEF Semaphore
  <2>2. P \in Semaphore /\ P.value \in Nat
    <3>1. (IF d /\ r \in S.woken THEN S.value + 1 ELSE S.value) \in Nat
      BY <1>1
    <3>2. S.woken \ {r} \in SUBSET Requests
      BY <1>1
    <3> QED
      BY <3>1, <3>2, <1>1, <1>2 DEF Semaphore
  <2>3. T = Left(S, r, d)
    BY DEF Left
  <2> HIDE DEF P
  <2>4. P.woken \subseteq Members(P.queue) /\ Once(P.queue)
    BY <1>1, <1>2, <2>1
  <2>5. P.value <= P.value
    BY <2>2
  <2>6. /\ T \in Semaphore /\ T.queue = P.queue
        /\ T.woken \subseteq Members(P.queue) /\ P.woken \subseteq T.woken
        /\ T.value + Cardinality(T.woken) = P.value + Cardinality(P.woken)
        /\ P.value > 0 /\ Members(P.queue) # P.woken => T.woken # {}
    BY <2>2, <2>4, <2>5, WokenFacts
  <2> HIDE DEF T
  <2>7. /\ T.value \in Nat /\ Cardinality(T.woken) \in Nat
        /\ Cardinality(P.woken) \in Nat /\ Cardinality(K) \in Nat
    <3>1. /\ T.woken \in SUBSET Requests /\ T.value \in Nat
          /\ P.woken \in SUBSET Requests
      BY <2>2, <2>6 DEF Semaphore
    <3> QED
      BY <3>1, Counts
  <2>8. T.value + Cardinality(K) + Cardinality(T.woken) = c
    BY <2>1, <2>2, <2>6, <2>7, <1>3
  <2>9. Awake(T)
    <3> SUFFICES ASSUME T.value > 0, T.woken = {}, Members(T.queue) # T.woken
                 PROVE  FALSE
      BY DEF Awake
    <3>1. P.woken = {}
      BY <2>6
    <3>2. P.value = T.value
      BY <3>1, <2>2, <2>6, <2>7
    <3> QED
      BY <3>1, <3>2, <2>6
  <2> QED
    BY <1>2, <2>1, <2>3, <2>6, <2>8, <2>9 DEF Sound
<1>4. Cardinality(H) \in Nat /\ Cardinality(S.woken) \in Nat
  BY <1>1, Counts
<1>5. r \in S.woken => Cardinality(S.woken \ {r}) = Cardinality(S.woken) - 1
  BY <1>1, OneOut
<1>6. r \notin S.woken => S.woken \ {r} = S.woken
  OBVIOUS
<1>7. S.value + Cardinality(H) + Cardinality(S.woken) = c
  BY DEF Sound
<1>8. Sound(Left(S, r, TRUE), H, W \ {r}, c)
  <2>1. (IF TRUE /\ r \in S.woken THEN S.value + 1 ELSE S.value)
          + Cardinality(H) + Cardinality(S.woken \ {r}) = c
    <3>1. CASE r \in S.woken
      <4>1. S.value + 1 + Cardinality(H) + (Cardinality(S.woken) - 1) = c
        BY <1>1, <1>4, <1>7, Balance
      <4> QED
        BY <4>1, <3>1, <1>5
    <3>2. CASE r \notin S.woken
      BY <3>2, <1>6, <1>7
    <3> QED
      BY <3>1, <3>2
  <2> QED
    BY <2>1, <1>3
<1>9. ASSUME r \in S.woken, r \notin H
      PROVE  Sound(Left(S, r, FALSE), H \cup {r}, W \ {r}, c)
  <2>1. H \cup {r} \in SUBSET Requests
    BY <1>1
  <2>2. Cardinality(H \cup {r}) = Cardinality(H) + 1
    BY <1>9, OneIn
  <2>3. (IF FALSE /\ r \in S.woken THEN S.value + 1 ELSE S.value)
          + Cardinality(H \cup {r}) + Cardinality(S.woken \ {r}) = c
    BY <2>2, <1>1, <1>4, <1>5, <1>7, <1>9
  <2> QED
    BY <2>1, <2>3, <1>3
<1> QED
  BY <1>8, <1>9

-----------------------------------------------------------------------------
(* The invariant.  Every semaphore is sound for those that hold it and those *)
(* that wait for it: the permits, the queue and the wake-ups have to be      *)
(* followed together, since each operation moves a request from one to       *)
(* another.                                                                  *)

Waiters(s) == IF s = "global"
              THEN {r \in Requests : at[r] = "global"}
              ELSE {r \in Requests : at[r] = "group" /\ group[r] = s}

Places == /\ at \in [Requests -> Place]
          /\ group \in [Requests -> Groups \cup {Exempt}]
          /\ replied \in [Requests -> BOOLEAN]
          /\ \A r \in Requests : at[r] = "group" => group[r] \in Groups

USE DEF Place

SemsSound == /\ DOMAIN sem = Sems
             /\ \A s \in Sems :
                  Sound(sem[s], Holders(s), Waiters(s), Capacity(s))

GuardInv == Places /\ SemsSound /\ sem = [s \in Sems |-> sem[s]]

LEMMA GroupNames ==
    /\ "global" \in Sems /\ \A g \in Groups : g \in Sems /\ g # "global"
    /\ Exempt \notin Sems /\ Exempt \notin Groups /\ Reads \in Groups
    /\ \A g \in Groups \cup {Exempt} : g # "no"
  BY GroupsAssumption DEF Sems

LEMMA CapacityNat == \A s \in Sems : Capacity(s) \in Nat
  BY LimitsAssumption, GroupNames DEF Capacity, Sems

LEMMA HoldersAndWaiters ==
    \A s \in Sems : /\ Holders(s) \in SUBSET Requests
                    /\ Waiters(s) \in SUBSET Requests
  BY DEF Holders, Waiters

LEMMA InvInit == Init => GuardInv
<1> SUFFICES ASSUME Init PROVE GuardInv
  OBVIOUS
<1>1. Places
  BY GroupNames DEF Init, Places
<1>2. ASSUME NEW s \in Sems
      PROVE  Sound(sem[s], Holders(s), Waiters(s), Capacity(s))
  <2>1. Holders(s) = {} /\ Waiters(s) = {}
    BY DEF Init, Holders, Waiters, Inside
  <2>2. sem[s] = [value |-> Capacity(s), queue |-> <<>>, woken |-> {}]
    BY DEF Init
  <2>3. /\ sem[s] \in Semaphore /\ Members(sem[s].queue) = {}
        /\ sem[s].value = Capacity(s) /\ sem[s].woken = {}
        /\ Once(sem[s].queue)
    BY <2>2, CapacityNat DEF Semaphore, Members, Once
  <2>4. Cardinality({}) = 0 /\ Capacity(s) \in Nat
    BY FS_EmptySet, CapacityNat
  <2>5. Capacity(s) + 0 + 0 = Capacity(s)
    BY <2>4
  <2> QED
    BY <2>1, <2>3, <2>4, <2>5 DEF Sound, Awake
<1> QED
  BY <1>1, <1>2 DEF GuardInv, SemsSound, Init

(* A step that says what becomes of each semaphore keeps them sound.         *)
LEMMA SoundAfter ==
    ASSUME GuardInv, Places', DOMAIN sem' = Sems,
           sem' = [s \in Sems |-> sem'[s]],
           \A s \in Sems :
               Sound(sem'[s], Holders(s)', Waiters(s)', Capacity(s))
    PROVE  GuardInv'
<1>1. \A s \in Sems : Capacity(s)' = Capacity(s)
  BY DEF Capacity
<1> QED
  BY <1>1 DEF GuardInv, SemsSound, Sems

-----------------------------------------------------------------------------
(* One lemma per way in, wait and way out.                                   *)

(* With a global permit in hand.                                             *)
LEMMA EnterKeeps ==
    ASSUME GuardInv, NEW r \in Requests, NEW g \in Groups \cup {Exempt}, NEW G,
           at[r] = "away" \/ at[r] = "global",
           Sound(G, Holders("global") \cup {r}, Waiters("global") \ {r}, Global),
           EnterGroup(r, g, G),
           group' = [group EXCEPT ![r] = g],
           replied' \in [Requests -> BOOLEAN]
    PROVE  GuardInv'
<1>1. /\ at \in [Requests -> Place]
      /\ group \in [Requests -> Groups \cup {Exempt}]
      /\ \A f \in Requests : at[f] = "group" => group[f] \in Groups
      /\ sem = [s \in Sems |-> sem[s]]
      /\ \A s \in Sems : Sound(sem[s], Holders(s), Waiters(s), Capacity(s))
  BY DEF GuardInv, Places, SemsSound
<1>2. Capacity("global") = Global
  BY DEF Capacity
<1>3. CASE g = Exempt
  <2>1. sem' = [sem EXCEPT !["global"] = G] /\ at' = [at EXCEPT ![r] = "running"]
    BY <1>3 DEF EnterGroup
  <2>2. /\ sem'["global"] = G /\ sem' = [s \in Sems |-> sem'[s]]
        /\ \A s \in Sems \ {"global"} : sem'[s] = sem[s]
    BY <2>1, <1>1, GroupNames
  <2>3. Places'
    BY <2>1, <1>1, <1>3 DEF Places
  <2>4. /\ Holders("global")' = Holders("global") \cup {r}
        /\ Waiters("global")' = Waiters("global") \ {r}
    BY <2>1, <1>1 DEF Holders, Waiters, Inside
  <2>5. \A s \in Sems \ {"global"} :
           Holders(s)' = Holders(s) /\ Waiters(s)' = Waiters(s)
    BY <2>1, <1>1, <1>3, GroupNames DEF Holders, Waiters, Inside
  <2>6. \A s \in Sems : Sound(sem'[s], Holders(s)', Waiters(s)', Capacity(s))
    BY <2>2, <2>4, <2>5, <1>1, <1>2
  <2> QED
    BY <2>2, <2>3, <2>6, SoundAfter
<1>4. CASE g # Exempt /\ Locked(sem[g])
  <2>1. /\ sem' = [sem EXCEPT !["global"] = G, ![g] = Queued(@, r)]
        /\ at' = [at EXCEPT ![r] = "group"]
    BY <1>4 DEF EnterGroup
  <2>2. g \in Sems /\ g # "global" /\ g \in Groups
    BY <1>4, GroupNames
  <2>3. /\ sem'["global"] = G /\ sem' = [s \in Sems |-> sem'[s]]
        /\ sem'[g] = Queued(sem[g], r)
        /\ \A s \in Sems \ {"global", g} : sem'[s] = sem[s]
    BY <2>1, <2>2, <1>1, GroupNames
  <2>4. Places'
    BY <2>1, <2>2, <1>1 DEF Places
  <2>5. /\ Holders("global")' = Holders("global") \cup {r}
        /\ Waiters("global")' = Waiters("global") \ {r}
    BY <2>1, <1>1 DEF Holders, Waiters, Inside
  <2>6. Holders(g)' = Holders(g) /\ Waiters(g)' = Waiters(g) \cup {r}
    BY <2>1, <2>2, <1>1 DEF Holders, Waiters, Inside
  <2>7. \A s \in Sems \ {"global", g} :
           Holders(s)' = Holders(s) /\ Waiters(s)' = Waiters(s)
    BY <2>1, <2>2, <1>1 DEF Holders, Waiters, Inside
  <2>8. r \in Requests \ Waiters(g)
    BY <2>2 DEF Waiters
  <2>9. Sound(Queued(sem[g], r), Holders(g), Waiters(g) \cup {r}, Capacity(g))
    BY <2>2, <2>8, <1>1, <1>4, QueuedSound
  <2>10. \A s \in Sems : Sound(sem'[s], Holders(s)', Waiters(s)', Capacity(s))
    <3>1. Sound(sem'["global"], Holders("global")', Waiters("global")',
                Capacity("global"))
      BY <2>3, <2>5, <1>2
    <3>2. Sound(sem'[g], Holders(g)', Waiters(g)', Capacity(g))
      BY <2>3, <2>6, <2>9
    <3>3. \A s \in Sems \ {"global", g} :
             Sound(sem'[s], Holders(s)', Waiters(s)', Capacity(s))
      BY <2>3, <2>7, <1>1
    <3> QED
      BY <3>1, <3>2, <3>3
  <2> QED
    BY <2>3, <2>4, <2>10, SoundAfter
<1>5. CASE g # Exempt /\ ~Locked(sem[g])
  <2>1. /\ sem' = [sem EXCEPT !["global"] = G, ![g] = Taken(@)]
        /\ at' = [at EXCEPT ![r] = "running"]
    BY <1>5 DEF EnterGroup
  <2>2. g \in Sems /\ g # "global" /\ g \in Groups
    BY <1>5, GroupNames
  <2>3. /\ sem'["global"] = G /\ sem' = [s \in Sems |-> sem'[s]]
        /\ sem'[g] = Taken(sem[g])
        /\ \A s \in Sems \ {"global", g} : sem'[s] = sem[s]
    BY <2>1, <2>2, <1>1, GroupNames
  <2>4. Places'
    BY <2>1, <2>2, <1>1 DEF Places
  <2>5. /\ Holders("global")' = Holders("global") \cup {r}
        /\ Waiters("global")' = Waiters("global") \ {r}
    BY <2>1, <1>1 DEF Holders, Waiters, Inside
  <2>6. Holders(g)' = Holders(g) \cup {r} /\ Waiters(g)' = Waiters(g)
    BY <2>1, <2>2, <1>1 DEF Holders, Waiters, Inside
  <2>7. \A s \in Sems \ {"global", g} :
           Holders(s)' = Holders(s) /\ Waiters(s)' = Waiters(s)
    BY <2>1, <2>2, <1>1 DEF Holders, Waiters, Inside
  <2>8. r \in Requests \ Holders(g)
    BY <2>2 DEF Holders, Inside
  <2>9. Sound(Taken(sem[g]), Holders(g) \cup {r}, Waiters(g), Capacity(g))
    BY <2>2, <2>8, <1>1, <1>5, TakenSound, CapacityNat, HoldersAndWaiters
  <2>10. \A s \in Sems : Sound(sem'[s], Holders(s)', Waiters(s)', Capacity(s))
    <3>1. Sound(sem'["global"], Holders("global")', Waiters("global")',
                Capacity("global"))
      BY <2>3, <2>5, <1>2
    <3>2. Sound(sem'[g], Holders(g)', Waiters(g)', Capacity(g))
      BY <2>3, <2>6, <2>9
    <3>3. \A s \in Sems \ {"global", g} :
             Sound(sem'[s], Holders(s)', Waiters(s)', Capacity(s))
      BY <2>3, <2>7, <1>1
    <3> QED
      BY <3>1, <3>2, <3>3
  <2> QED
    BY <2>3, <2>4, <2>10, SoundAfter
<1> QED
  BY <1>3, <1>4, <1>5

LEMMA ArriveKeeps ==
    ASSUME GuardInv, NEW r \in Requests, Arrive(r)
    PROVE  GuardInv'
<1>1. PICK g \in Groups \cup {Exempt} :
        /\ group' = [group EXCEPT ![r] = g]
        /\ IF Locked(sem["global"])
           THEN /\ sem' = [sem EXCEPT !["global"] = Queued(@, r)]
                /\ at' = [at EXCEPT ![r] = "global"]
           ELSE EnterGroup(r, g, Taken(sem["global"]))
  BY DEF Arrive
<1>2. at[r] = "away" /\ replied' = [replied EXCEPT ![r] = FALSE]
  BY DEF Arrive
<1>3. /\ at \in [Requests -> Place]
      /\ group \in [Requests -> Groups \cup {Exempt}]
      /\ replied \in [Requests -> BOOLEAN]
      /\ \A f \in Requests : at[f] = "group" => group[f] \in Groups
      /\ sem = [s \in Sems |-> sem[s]] /\ "global" \in Sems
      /\ \A s \in Sems : Sound(sem[s], Holders(s), Waiters(s), Capacity(s))
  BY GroupNames DEF GuardInv, Places, SemsSound
<1>4. Capacity("global") = Global
  BY DEF Capacity
<1>5. /\ r \in Requests \ Holders("global")
      /\ r \in Requests \ Waiters("global")
  BY <1>2 DEF Holders, Waiters, Inside
<1>6. replied' \in [Requests -> BOOLEAN]
  BY <1>2, <1>3
<1>7. CASE Locked(sem["global"])
  <2>1. /\ sem' = [sem EXCEPT !["global"] = Queued(@, r)]
        /\ at' = [at EXCEPT ![r] = "global"]
    BY <1>1, <1>7
  <2>2. /\ sem'["global"] = Queued(sem["global"], r)
        /\ sem' = [s \in Sems |-> sem'[s]]
        /\ \A s \in Sems \ {"global"} : sem'[s] = sem[s]
    BY <2>1, <1>3
  <2>3. Places'
    BY <2>1, <1>1, <1>3, <1>6 DEF Places
  <2>4. /\ Holders("global")' = Holders("global")
        /\ Waiters("global")' = Waiters("global") \cup {r}
    BY <2>1, <1>2, <1>3 DEF Holders, Waiters, Inside
  <2>5. \A s \in Sems \ {"global"} :
           Holders(s)' = Holders(s) /\ Waiters(s)' = Waiters(s)
    BY <2>1, <1>1, <1>2, <1>3, GroupNames DEF Holders, Waiters, Inside
  <2>6. Sound(Queued(sem["global"], r), Holders("global"),
              Waiters("global") \cup {r}, Capacity("global"))
    BY <1>3, <1>5, <1>7, QueuedSound
  <2>7. \A s \in Sems : Sound(sem'[s], Holders(s)', Waiters(s)', Capacity(s))
    BY <2>2, <2>4, <2>5, <2>6, <1>3
  <2> QED
    BY <2>2, <2>3, <2>7, SoundAfter
<1>8. CASE ~Locked(sem["global"])
  <2> PICK G : G = Taken(sem["global"])
    OBVIOUS
  <2>1. Sound(G, Holders("global") \cup {r}, Waiters("global"), Global)
    BY <1>3, <1>4, <1>5, <1>8, TakenSound, CapacityNat, HoldersAndWaiters
  <2>2. Waiters("global") \ {r} = Waiters("global")
    BY <1>5
  <2>3. /\ EnterGroup(r, g, G)
        /\ group' = [group EXCEPT ![r] = g]
        /\ at[r] = "away" \/ at[r] = "global"
    BY <1>1, <1>2, <1>8 DEF EnterGroup
  <2> QED
    BY <2>1, <2>2, <2>3, <1>6, EnterKeeps
<1> QED
  BY <1>7, <1>8

LEMMA ResumeGlobalKeeps ==
    ASSUME GuardInv, NEW r \in Requests, ResumeGlobal(r)
    PROVE  GuardInv'
<1> PICK S, G, g : S = sem["global"] /\ G = Left(S, r, FALSE) /\ g = group[r]
  OBVIOUS
<1>1. /\ at[r] = "global" /\ r \in S.woken
      /\ EnterGroup(r, g, G)
      /\ UNCHANGED <<group, replied>>
  BY DEF ResumeGlobal, EnterGroup
<1>2. /\ group \in [Requests -> Groups \cup {Exempt}]
      /\ replied \in [Requests -> BOOLEAN]
      /\ Sound(S, Holders("global"), Waiters("global"), Global)
  BY GroupNames DEF GuardInv, Places, SemsSound, Capacity
<1>3. /\ r \in Waiters("global") /\ r \notin Holders("global")
  BY <1>1 DEF Holders, Waiters, Inside
<1>4. Sound(G, Holders("global") \cup {r}, Waiters("global") \ {r}, Global)
  <2>1. Holders("global") \in SUBSET Requests /\ Global \in Nat
    BY HoldersAndWaiters, GroupNames, LimitsAssumption
  <2> QED
    BY <2>1, <1>1, <1>2, <1>3, LeftSound
<1>5. /\ group' = [group EXCEPT ![r] = g]
      /\ g \in Groups \cup {Exempt}
      /\ replied' \in [Requests -> BOOLEAN]
  BY <1>1, <1>2
<1> QED
  BY <1>1, <1>4, <1>5, EnterKeeps

LEMMA ResumeGroupKeeps ==
    ASSUME GuardInv, NEW r \in Requests, ResumeGroup(r)
    PROVE  GuardInv'
<1> PICK g : g = group[r]
  OBVIOUS
<1>1. /\ at[r] = "group" /\ r \in sem[g].woken /\ g = group[r]
      /\ sem' = [sem EXCEPT ![g] = Left(@, r, FALSE)]
      /\ at' = [at EXCEPT ![r] = "running"]
      /\ group' = group /\ replied' = replied
  BY DEF ResumeGroup
<1>2. /\ at \in [Requests -> Place]
      /\ group \in [Requests -> Groups \cup {Exempt}]
      /\ replied \in [Requests -> BOOLEAN]
      /\ \A f \in Requests : at[f] = "group" => group[f] \in Groups
      /\ sem = [s \in Sems |-> sem[s]]
      /\ \A s \in Sems : Sound(sem[s], Holders(s), Waiters(s), Capacity(s))
  BY DEF GuardInv, Places, SemsSound
<1>3. g \in Groups /\ g \in Sems /\ g # "global"
  BY <1>1, <1>2, GroupNames
<1>4. /\ sem'[g] = Left(sem[g], r, FALSE) /\ sem' = [s \in Sems |-> sem'[s]]
      /\ \A s \in Sems \ {g} : sem'[s] = sem[s]
  BY <1>1, <1>2, <1>3
<1>5. Places'
  BY <1>1, <1>2 DEF Places
<1>6. /\ Holders(g)' = Holders(g) \cup {r}
      /\ Waiters(g)' = Waiters(g) \ {r}
      /\ r \in Waiters(g) /\ r \notin Holders(g)
  BY <1>1, <1>2, <1>3 DEF Holders, Waiters, Inside
<1>7. \A s \in Sems \ {g} :
         Holders(s)' = Holders(s) /\ Waiters(s)' = Waiters(s)
  BY <1>1, <1>2, <1>3 DEF Holders, Waiters, Inside
<1>8. Sound(Left(sem[g], r, FALSE), Holders(g) \cup {r}, Waiters(g) \ {r},
            Capacity(g))
  <2>1. /\ Holders(g) \in SUBSET Requests /\ Capacity(g) \in Nat
        /\ Sound(sem[g], Holders(g), Waiters(g), Capacity(g))
    BY <1>2, <1>3, HoldersAndWaiters, CapacityNat
  <2> QED
    BY <2>1, <1>1, <1>6, LeftSound
<1>9. \A s \in Sems : Sound(sem'[s], Holders(s)', Waiters(s)', Capacity(s))
  <2>1. Sound(sem'[g], Holders(g)', Waiters(g)', Capacity(g))
    BY <1>4, <1>6, <1>8
  <2>2. \A s \in Sems \ {g} :
           Sound(sem'[s], Holders(s)', Waiters(s)', Capacity(s))
    BY <1>2, <1>4, <1>7
  <2> QED
    BY <2>1, <2>2
<1> QED
  BY <1>4, <1>5, <1>9, SoundAfter

LEMMA TimeoutGlobalKeeps ==
    ASSUME GuardInv, NEW r \in Requests, TimeoutGlobal(r)
    PROVE  GuardInv'
<1>1. /\ at[r] = "global"
      /\ sem' = [sem EXCEPT !["global"] = Left(@, r, TRUE)]
      /\ at' = [at EXCEPT ![r] = "away"]
      /\ group' = [group EXCEPT ![r] = Exempt]
      /\ replied' = [replied EXCEPT ![r] = TRUE]
  BY DEF TimeoutGlobal, Gone
<1>2. /\ at \in [Requests -> Place]
      /\ group \in [Requests -> Groups \cup {Exempt}]
      /\ replied \in [Requests -> BOOLEAN]
      /\ \A f \in Requests : at[f] = "group" => group[f] \in Groups
      /\ sem = [s \in Sems |-> sem[s]] /\ "global" \in Sems
      /\ \A s \in Sems : Sound(sem[s], Holders(s), Waiters(s), Capacity(s))
  BY GroupNames DEF GuardInv, Places, SemsSound
<1>3. /\ sem'["global"] = Left(sem["global"], r, TRUE)
      /\ sem' = [s \in Sems |-> sem'[s]]
      /\ \A s \in Sems \ {"global"} : sem'[s] = sem[s]
  BY <1>1, <1>2
<1>4. Places'
  BY <1>1, <1>2 DEF Places
<1>5. /\ Holders("global")' = Holders("global")
      /\ Waiters("global")' = Waiters("global") \ {r}
      /\ r \in Waiters("global")
  BY <1>1, <1>2 DEF Holders, Waiters, Inside
<1>6. \A s \in Sems \ {"global"} :
         Holders(s)' = Holders(s) /\ Waiters(s)' = Waiters(s)
  BY <1>1, <1>2, GroupNames DEF Holders, Waiters, Inside
<1>7. Sound(Left(sem["global"], r, TRUE), Holders("global"),
            Waiters("global") \ {r}, Capacity("global"))
  <2>1. /\ Holders("global") \in SUBSET Requests /\ Capacity("global") \in Nat
        /\ Sound(sem["global"], Holders("global"), Waiters("global"),
                 Capacity("global"))
    BY <1>2, HoldersAndWaiters, CapacityNat
  <2> QED
    BY <2>1, <1>5, LeftSound
<1>8. \A s \in Sems : Sound(sem'[s], Holders(s)', Waiters(s)', Capacity(s))
  BY <1>2, <1>3, <1>5, <1>6, <1>7
<1> QED
  BY <1>3, <1>4, <1>8, SoundAfter

LEMMA TimeoutGroupKeeps ==
    ASSUME GuardInv, NEW r \in Requests, TimeoutGroup(r)
    PROVE  GuardInv'
<1> PICK g : g = group[r]
  OBVIOUS
<1>1. /\ at[r] = "group" /\ g = group[r]
      /\ sem' = [sem EXCEPT ![g] = Left(@, r, TRUE), !["global"] = Released(@)]
      /\ at' = [at EXCEPT ![r] = "away"]
      /\ group' = [group EXCEPT ![r] = Exempt]
      /\ replied' = [replied EXCEPT ![r] = TRUE]
  BY DEF TimeoutGroup, Gone
<1>2. /\ at \in [Requests -> Place]
      /\ group \in [Requests -> Groups \cup {Exempt}]
      /\ replied \in [Requests -> BOOLEAN]
      /\ \A f \in Requests : at[f] = "group" => group[f] \in Groups
      /\ sem = [s \in Sems |-> sem[s]] /\ "global" \in Sems
      /\ \A s \in Sems : Sound(sem[s], Holders(s), Waiters(s), Capacity(s))
  BY GroupNames DEF GuardInv, Places, SemsSound
<1>3. g \in Groups /\ g \in Sems /\ g # "global"
  BY <1>1, <1>2, GroupNames
<1>4. /\ sem'[g] = Left(sem[g], r, TRUE)
      /\ sem'["global"] = Released(sem["global"])
      /\ sem' = [s \in Sems |-> sem'[s]]
      /\ \A s \in Sems \ {"global", g} : sem'[s] = sem[s]
  BY <1>1, <1>2, <1>3
<1>5. Places'
  BY <1>1, <1>2 DEF Places
<1>6. /\ Holders(g)' = Holders(g)
      /\ Waiters(g)' = Waiters(g) \ {r}
      /\ r \in Waiters(g)
  BY <1>1, <1>2, <1>3, GroupNames DEF Holders, Waiters, Inside
<1>7. /\ Holders("global")' = Holders("global") \ {r}
      /\ Waiters("global")' = Waiters("global")
      /\ r \in Holders("global")
  BY <1>1, <1>2 DEF Holders, Waiters, Inside
<1>8. \A s \in Sems \ {"global", g} :
         Holders(s)' = Holders(s) /\ Waiters(s)' = Waiters(s)
  BY <1>1, <1>2, <1>3, GroupNames DEF Holders, Waiters, Inside
<1>9. Sound(Left(sem[g], r, TRUE), Holders(g), Waiters(g) \ {r}, Capacity(g))
  <2>1. /\ Holders(g) \in SUBSET Requests /\ Capacity(g) \in Nat
        /\ Sound(sem[g], Holders(g), Waiters(g), Capacity(g))
    BY <1>2, <1>3, HoldersAndWaiters, CapacityNat
  <2> QED
    BY <2>1, <1>6, LeftSound
<1>10. Sound(Released(sem["global"]), Holders("global") \ {r},
             Waiters("global"), Capacity("global"))
  <2>1. /\ Holders("global") \in SUBSET Requests /\ Capacity("global") \in Nat
        /\ Sound(sem["global"], Holders("global"), Waiters("global"),
                 Capacity("global"))
    BY <1>2, HoldersAndWaiters, CapacityNat
  <2> QED
    BY <2>1, <1>7, ReleasedSound
<1>11. \A s \in Sems : Sound(sem'[s], Holders(s)', Waiters(s)', Capacity(s))
  <2>1. Sound(sem'["global"], Holders("global")', Waiters("global")',
              Capacity("global"))
    BY <1>4, <1>7, <1>10
  <2>2. Sound(sem'[g], Holders(g)', Waiters(g)', Capacity(g))
    BY <1>4, <1>6, <1>9
  <2>3. \A s \in Sems \ {"global", g} :
           Sound(sem'[s], Holders(s)', Waiters(s)', Capacity(s))
    BY <1>2, <1>4, <1>8
  <2> QED
    BY <2>1, <2>2, <2>3
<1> QED
  BY <1>4, <1>5, <1>11, SoundAfter

(* release, whoever ends the request: its answer, its exception, its deadline. *)
LEMMA LeaveKeeps ==
    ASSUME GuardInv, NEW r \in Requests, Inside(r),
           Leave(r, sem["global"]), replied' \in [Requests -> BOOLEAN]
    PROVE  GuardInv'
<1> PICK g : g = group[r]
  OBVIOUS
<1>1. /\ at' = [at EXCEPT ![r] = "away"]
      /\ group' = [group EXCEPT ![r] = Exempt]
      /\ sem' = IF g = Exempt
                THEN [sem EXCEPT !["global"] = Released(@)]
                ELSE [sem EXCEPT ![g] = Released(@), !["global"] = Released(@)]
      /\ g = group[r] /\ at[r] \in {"running", "closing", "late"}
  BY DEF Leave, Gone, Inside
<1>2. /\ at \in [Requests -> Place]
      /\ group \in [Requests -> Groups \cup {Exempt}]
      /\ \A f \in Requests : at[f] = "group" => group[f] \in Groups
      /\ sem = [s \in Sems |-> sem[s]] /\ "global" \in Sems
      /\ \A s \in Sems : Sound(sem[s], Holders(s), Waiters(s), Capacity(s))
  BY GroupNames DEF GuardInv, Places, SemsSound
<1>3. Places'
  BY <1>1, <1>2 DEF Places
<1>4. /\ Holders("global")' = Holders("global") \ {r}
      /\ Waiters("global")' = Waiters("global")
      /\ r \in Holders("global")
  BY <1>1, <1>2 DEF Holders, Waiters, Inside
<1>5. Sound(Released(sem["global"]), Holders("global") \ {r},
            Waiters("global"), Capacity("global"))
  <2>1. /\ Holders("global") \in SUBSET Requests /\ Capacity("global") \in Nat
        /\ Sound(sem["global"], Holders("global"), Waiters("global"),
                 Capacity("global"))
    BY <1>2, HoldersAndWaiters, CapacityNat
  <2> QED
    BY <2>1, <1>4, ReleasedSound
<1>6. \A s \in Sems \ {"global", g} :
         Holders(s)' = Holders(s) /\ Waiters(s)' = Waiters(s)
  BY <1>1, <1>2, GroupNames DEF Holders, Waiters, Inside
<1>7. CASE g = Exempt
  <2>1. /\ sem'["global"] = Released(sem["global"])
        /\ sem' = [s \in Sems |-> sem'[s]]
        /\ \A s \in Sems \ {"global"} : sem'[s] = sem[s]
    BY <1>1, <1>2, <1>7
  <2>2. g \notin Sems
    BY <1>7, GroupNames
  <2>3. \A s \in Sems : Sound(sem'[s], Holders(s)', Waiters(s)', Capacity(s))
    BY <2>1, <2>2, <1>2, <1>4, <1>5, <1>6
  <2> QED
    BY <2>1, <2>3, <1>3, SoundAfter
<1>8. CASE g # Exempt
  <2>1. g \in Groups /\ g \in Sems /\ g # "global"
    BY <1>1, <1>2, <1>8, GroupNames
  <2>2. /\ sem'[g] = Released(sem[g])
        /\ sem'["global"] = Released(sem["global"])
        /\ sem' = [s \in Sems |-> sem'[s]]
        /\ \A s \in Sems \ {"global", g} : sem'[s] = sem[s]
    BY <2>1, <1>1, <1>2, <1>8
  <2>3. /\ Holders(g)' = Holders(g) \ {r}
        /\ Waiters(g)' = Waiters(g)
        /\ r \in Holders(g)
    BY <2>1, <1>1, <1>2, GroupNames DEF Holders, Waiters, Inside
  <2>4. Sound(Released(sem[g]), Holders(g) \ {r}, Waiters(g), Capacity(g))
    <3>1. /\ Holders(g) \in SUBSET Requests /\ Capacity(g) \in Nat
          /\ Sound(sem[g], Holders(g), Waiters(g), Capacity(g))
      BY <2>1, <1>2, HoldersAndWaiters, CapacityNat
    <3> QED
      BY <3>1, <2>3, ReleasedSound
  <2>5. \A s \in Sems : Sound(sem'[s], Holders(s)', Waiters(s)', Capacity(s))
    <3>1. Sound(sem'[g], Holders(g)', Waiters(g)', Capacity(g))
      BY <2>2, <2>3, <2>4
    <3>2. Sound(sem'["global"], Holders("global")', Waiters("global")',
                Capacity("global"))
      BY <2>2, <1>4, <1>5
    <3>3. \A s \in Sems \ {"global", g} :
             Sound(sem'[s], Holders(s)', Waiters(s)', Capacity(s))
      BY <2>2, <1>2, <1>6
    <3> QED
      BY <3>1, <3>2, <3>3
  <2> QED
    BY <2>2, <2>5, <1>3, SoundAfter
<1> QED
  BY <1>7, <1>8

(* Whoever stays inside keeps what it holds.                                 *)
LEMMA InsideKeeps ==
    ASSUME GuardInv, NEW r \in Requests, Answer(r) \/ Deadline(r)
    PROVE  GuardInv'
<1>1. /\ at[r] \in {"running", "closing"}
      /\ \/ at' = [at EXCEPT ![r] = "closing"]
         \/ at' = [at EXCEPT ![r] = "late"]
      /\ \/ replied' = [replied EXCEPT ![r] = TRUE]
         \/ replied' = replied
      /\ sem' = sem /\ group' = group
  BY DEF Answer, Deadline
<1>2. /\ at \in [Requests -> Place]
      /\ sem = [s \in Sems |-> sem[s]]
      /\ \A s \in Sems : Sound(sem[s], Holders(s), Waiters(s), Capacity(s))
  BY DEF GuardInv, Places, SemsSound
<1>3. Places'
  BY <1>1 DEF Places, GuardInv
<1>4. \A s \in Sems : Holders(s)' = Holders(s) /\ Waiters(s)' = Waiters(s)
  BY <1>1, <1>2 DEF Holders, Waiters, Inside
<1>5. /\ sem' = [s \in Sems |-> sem'[s]]
      /\ \A s \in Sems : Sound(sem'[s], Holders(s)', Waiters(s)', Capacity(s))
  BY <1>1, <1>2, <1>4
<1> QED
  BY <1>3, <1>5, SoundAfter

(* A step of one request, whichever it is, that keeps the invariant.         *)
LEMMA StepKeeps ==
    ASSUME GuardInv, NEW r \in Requests, Arrive(r) \/ Step(r)
    PROVE  GuardInv'
<1>1. replied \in [Requests -> BOOLEAN]
  BY DEF GuardInv, Places
<1>2. CASE Arrive(r)
  BY <1>2, ArriveKeeps
<1>3. CASE ResumeGlobal(r)
  BY <1>3, ResumeGlobalKeeps
<1>4. CASE ResumeGroup(r)
  BY <1>4, ResumeGroupKeeps
<1>5. CASE TimeoutGlobal(r)
  BY <1>5, TimeoutGlobalKeeps
<1>6. CASE TimeoutGroup(r)
  BY <1>6, TimeoutGroupKeeps
<1>7. CASE Answer(r) \/ Deadline(r)
  BY <1>7, InsideKeeps
<1>8. CASE Finish(r)
  <2>1. Inside(r) /\ Leave(r, sem["global"]) /\ replied' \in [Requests -> BOOLEAN]
    BY <1>1, <1>8 DEF Finish, Inside
  <2> QED
    BY <2>1, LeaveKeeps
<1>9. CASE Raise(r)
  <2>1. Inside(r) /\ Leave(r, sem["global"]) /\ replied' \in [Requests -> BOOLEAN]
    BY <1>1, <1>9 DEF Raise, Inside
  <2> QED
    BY <2>1, LeaveKeeps
<1>10. CASE Refuse(r)
  <2>1. Inside(r) /\ Leave(r, sem["global"]) /\ replied' \in [Requests -> BOOLEAN]
    BY <1>1, <1>10 DEF Refuse, Inside
  <2> QED
    BY <2>1, LeaveKeeps
<1> QED
  BY <1>2, <1>3, <1>4, <1>5, <1>6, <1>7, <1>8, <1>9, <1>10 DEF Step

LEMMA InvNext == GuardInv /\ [Next]_vars => GuardInv'
<1> SUFFICES ASSUME GuardInv, [Next]_vars PROVE GuardInv'
  OBVIOUS
<1>1. CASE Next
  BY <1>1, StepKeeps DEF Next
<1>2. CASE UNCHANGED vars
  <2>1. sem' = sem /\ at' = at /\ group' = group /\ replied' = replied
    BY <1>2 DEF vars
  <2> QED
    BY <2>1 DEF GuardInv, Places, SemsSound, Holders, Waiters, Inside,
                Capacity, Sems
<1> QED
  BY <1>1, <1>2

LEMMA GuardInvariant == Spec => []GuardInv
  BY InvInit, InvNext, PTL DEF Spec

-----------------------------------------------------------------------------
(* What follows at every moment.                                             *)

(* The variables keep their types, whatever the limits, 0 included: no        *)
(* semaphore's value ever becomes negative (backpressure.py:20-57).           *)
THEOREM TypeCorrect == Spec => []TypeOK
<1>1. GuardInv => TypeOK
  BY DEF GuardInv, Places, SemsSound, Sound, TypeOK
<1> QED
  BY <1>1, GuardInvariant, PTL

(* No permit is lost or made up: each is free, held by a request inside, or  *)
(* on its way to a waiter, whatever timeout meets whatever wake-up.          *)
THEOREM PermitsAreConserved == Spec => []PermitsConserved
<1>1. GuardInv => PermitsConserved
  BY DEF GuardInv, SemsSound, Sound, PermitsConserved
<1> QED
  BY <1>1, GuardInvariant, PTL

(* Nobody sleeps beside a free permit, unless a waiter that is awake will    *)
(* pass it on.                                                               *)
THEOREM WakeupsAreKept == Spec => []NoLostWakeup
<1>1. GuardInv => NoLostWakeup
  BY DEF GuardInv, SemsSound, Sound, Awake, Members, NoLostWakeup
<1> QED
  BY <1>1, GuardInvariant, PTL

(* The queue of a semaphore holds exactly those that wait for it, once, and  *)
(* only they are given permits.                                              *)
THEOREM QueuesAreExact == Spec => []QueuesExact
<1>1. ASSUME GuardInv PROVE QueuesExact
  <2> SUFFICES ASSUME NEW s \in Sems
               PROVE  /\ Members(sem[s].queue) = Waiters(s)
                      /\ Len(sem[s].queue) = Cardinality(Waiters(s))
                      /\ sem[s].woken \subseteq Waiters(s)
    BY DEF QueuesExact, Members, Waiters
  <2>1. Sound(sem[s], Holders(s), Waiters(s), Capacity(s))
    BY <1>1 DEF GuardInv, SemsSound
  <2>2. /\ sem[s].queue \in Seq(Requests) /\ Once(sem[s].queue)
        /\ Members(sem[s].queue) = Waiters(s)
        /\ sem[s].woken \subseteq Waiters(s)
    BY <2>1 DEF Sound, Semaphore
  <2>3. Len(sem[s].queue) = Cardinality(Members(sem[s].queue))
    BY <2>2, OnceLength
  <2> QED
    BY <2>2, <2>3
<1> QED
  BY <1>1, GuardInvariant, PTL

-----------------------------------------------------------------------------
(* The guard implements Admission.                                           *)

mapped == [r \in Requests |-> IF Inside(r) THEN group[r] ELSE "no"]

(* The instance's own copy of the library's cardinality.                     *)
LEMMA SameCount == \A S : AD!Cardinality(S) = Cardinality(S)
  BY Zenon DEF AD!Cardinality, Cardinality, AD!IsFiniteSet, IsFiniteSet

(* Whoever gets inside finds the limits kept: the permits of those inside    *)
(* are taken, and the newcomer's was one more.                               *)
LEMMA EnterMapped ==
    ASSUME GuardInv, GuardInv', NEW r \in Requests,
           ~Inside(r), Inside(r)',
           \A f \in Requests \ {r} : Inside(f)' = Inside(f)
                                     /\ group'[f] = group[f]
    PROVE  AD!Enter(r)
<1>1. /\ group \in [Requests -> Groups \cup {Exempt}]
      /\ group' \in [Requests -> Groups \cup {Exempt}]
      /\ \A s \in Sems : Sound(sem[s], Holders(s), Waiters(s), Capacity(s))
      /\ \A s \in Sems : Sound(sem'[s], Holders(s)', Waiters(s)', Capacity(s)')
  BY DEF GuardInv, Places, SemsSound, Sems
<1>2. \A s \in Sems : Cardinality(Holders(s)') <= Capacity(s)
  <2> SUFFICES ASSUME NEW s \in Sems
               PROVE  Cardinality(Holders(s)') <= Capacity(s)
    OBVIOUS
  <2>1. /\ sem'[s] \in Semaphore /\ Capacity(s)' = Capacity(s)
        /\ sem'[s].value + Cardinality(Holders(s)')
             + Cardinality(sem'[s].woken) = Capacity(s)
    BY <1>1 DEF Sound, Capacity
  <2>2. sem'[s].value \in Nat /\ sem'[s].woken \in SUBSET Requests
    BY <2>1 DEF Semaphore
  <2>3. Holders(s)' \in SUBSET Requests
    BY DEF Holders
  <2>4. /\ Cardinality(Holders(s)') \in Nat
        /\ Cardinality(sem'[s].woken) \in Nat
    BY <2>2, <2>3, Counts
  <2>5. Capacity(s) \in Nat
    BY CapacityNat
  <2> QED
    BY <2>1, <2>2, <2>4, <2>5
<1>3. /\ AD!Inside = {f \in Requests : Inside(f)}
      /\ \A g \in Groups : AD!InGroup(g) = Holders(g)
  BY <1>1, GroupNames DEF AD!Inside, AD!InGroup, Holders
<1>4. mapped[r] = "no"
  BY DEF mapped
<1>5. mapped' = [mapped EXCEPT ![r] = group'[r]]
  BY <1>1 DEF mapped
<1>6. Cardinality(AD!Inside) < Global
  <2> DEFINE I == {f \in Requests : Inside(f)}
  <2>1. /\ I \cup {r} \subseteq Holders("global")' /\ r \notin I
        /\ I \in SUBSET Requests /\ Holders("global")' \in SUBSET Requests
    BY DEF Holders
  <2>2. Cardinality(I \cup {r}) = Cardinality(I) + 1
    BY <2>1, OneIn
  <2>3. Cardinality(I \cup {r}) <= Cardinality(Holders("global")')
    BY <2>1, Counts, FS_Subset
  <2>4. Cardinality(Holders("global")') <= Global
    BY <1>2, GroupNames DEF Capacity
  <2>5. /\ Cardinality(I) \in Nat /\ Global \in Nat
        /\ Cardinality(Holders("global")') \in Nat
    BY <2>1, Counts, LimitsAssumption
  <2> HIDE DEF I
  <2>6. Cardinality(I) < Global
    BY <2>2, <2>3, <2>4, <2>5
  <2> QED
    BY <2>6, <1>3 DEF I
<1>7. ASSUME group'[r] \in Groups
      PROVE  Cardinality(AD!InGroup(group'[r])) < Limit[group'[r]]
  <2> PICK g \in Groups : g = group'[r]
    BY <1>7
  <2>1. g \in Sems /\ g # "global" /\ Capacity(g) = Limit[g]
    BY GroupNames DEF Capacity
  <2>2. /\ Holders(g) \cup {r} \subseteq Holders(g)' /\ r \notin Holders(g)
        /\ Holders(g) \in SUBSET Requests /\ Holders(g)' \in SUBSET Requests
    BY <2>1, <1>1 DEF Holders
  <2>3. Cardinality(Holders(g) \cup {r}) = Cardinality(Holders(g)) + 1
    BY <2>2, OneIn
  <2>4. Cardinality(Holders(g) \cup {r}) <= Cardinality(Holders(g)')
    BY <2>2, Counts, FS_Subset
  <2>5. Cardinality(Holders(g)') <= Limit[g]
    BY <2>1, <1>2
  <2>6. /\ Cardinality(Holders(g)) \in Nat /\ Limit[g] \in Nat
        /\ Cardinality(Holders(g)') \in Nat
    BY <2>2, Counts, LimitsAssumption
  <2>7. Cardinality(Holders(g)) < Limit[g]
    BY <2>3, <2>4, <2>5, <2>6
  <2> QED
    BY <2>7, <1>3
<1> QED
  BY <1>1, <1>4, <1>5, <1>6, <1>7, SameCount DEF AD!Enter, mapped

LEMMA LeaveMapped ==
    ASSUME NEW r \in Requests, Places,
           at' = [at EXCEPT ![r] = "away"], group' = [group EXCEPT ![r] = Exempt]
    PROVE  AD!Leave(r)
<1>1. /\ at \in [Requests -> Place]
      /\ group \in [Requests -> Groups \cup {Exempt}]
  BY DEF Places
<1>2. mapped' = [mapped EXCEPT ![r] = "no"]
  BY <1>1 DEF mapped, Inside
<1> QED
  BY <1>2 DEF mapped, AD!Leave

(* A request that stays outside, or stays inside, is a stutter.              *)
LEMMA StayMapped ==
    ASSUME \A r \in Requests : /\ Inside(r)' = Inside(r)
                               /\ Inside(r) => group'[r] = group[r]
    PROVE  mapped' = mapped
  BY DEF mapped

LEMMA EnterGroupMapped ==
    ASSUME GuardInv, GuardInv', NEW r \in Requests, NEW g, NEW G,
           EnterGroup(r, g, G), group' = [group EXCEPT ![r] = g],
           ~Inside(r)
    PROVE  AD!Enter(r) \/ mapped' = mapped
<1>1. /\ at \in [Requests -> Place]
      /\ group \in [Requests -> Groups \cup {Exempt}]
  BY DEF GuardInv, Places
<1>2. at' = [at EXCEPT ![r] = "running"] \/ at' = [at EXCEPT ![r] = "group"]
  BY DEF EnterGroup
<1>3. \A f \in Requests \ {r} : Inside(f)' = Inside(f) /\ group'[f] = group[f]
  BY <1>1, <1>2 DEF Inside
<1>4. CASE at' = [at EXCEPT ![r] = "running"]
  <2>1. Inside(r)'
    BY <1>1, <1>4 DEF Inside
  <2> QED
    BY <2>1, <1>3, EnterMapped
<1>5. CASE at' = [at EXCEPT ![r] = "group"]
  <2>1. Inside(r)' = Inside(r)
    BY <1>1, <1>5 DEF Inside
  <2> QED
    BY <2>1, <1>3, StayMapped
<1> QED
  BY <1>2, <1>4, <1>5

LEMMA StepMapped ==
    ASSUME GuardInv, GuardInv', NEW r \in Requests, Arrive(r) \/ Step(r)
    PROVE  AD!Enter(r) \/ AD!Leave(r) \/ mapped' = mapped
<1>1. /\ at \in [Requests -> Place]
      /\ group \in [Requests -> Groups \cup {Exempt}] /\ Places
  BY DEF GuardInv, Places
<1>2. CASE Arrive(r)
  <2> PICK G : G = Taken(sem["global"])
    OBVIOUS
  <2>1. PICK g \in Groups \cup {Exempt} :
          /\ group' = [group EXCEPT ![r] = g]
          /\ \/ at' = [at EXCEPT ![r] = "global"]
             \/ EnterGroup(r, g, G)
    BY <1>2 DEF Arrive, EnterGroup
  <2>2. ~Inside(r)
    BY <1>2 DEF Arrive, Inside
  <2>3. CASE at' = [at EXCEPT ![r] = "global"]
    <3>1. \A f \in Requests : /\ Inside(f)' = Inside(f)
                              /\ Inside(f) => group'[f] = group[f]
      BY <2>1, <2>2, <2>3, <1>1 DEF Inside
    <3> QED
      BY <3>1, StayMapped
  <2>4. CASE EnterGroup(r, g, G)
    BY <2>1, <2>2, <2>4, EnterGroupMapped
  <2> QED
    BY <2>1, <2>3, <2>4
<1>3. CASE ResumeGlobal(r)
  <2> PICK G, g : G = Left(sem["global"], r, FALSE) /\ g = group[r]
    OBVIOUS
  <2>1. EnterGroup(r, g, G)
    BY <1>3 DEF ResumeGlobal, EnterGroup
  <2>2. group' = [group EXCEPT ![r] = g]
    BY <1>1, <1>3 DEF ResumeGlobal
  <2>3. ~Inside(r)
    BY <1>3 DEF ResumeGlobal, Inside
  <2> QED
    BY <2>1, <2>2, <2>3, EnterGroupMapped
<1>4. CASE ResumeGroup(r)
  <2>1. /\ at[r] = "group" /\ at' = [at EXCEPT ![r] = "running"]
        /\ group' = group
    BY <1>4 DEF ResumeGroup
  <2>2. /\ ~Inside(r) /\ Inside(r)'
        /\ \A f \in Requests \ {r} : Inside(f)' = Inside(f)
                                     /\ group'[f] = group[f]
    BY <2>1, <1>1 DEF Inside
  <2> QED
    BY <2>2, EnterMapped
<1>5. CASE TimeoutGlobal(r) \/ TimeoutGroup(r)
  BY <1>1, <1>5, LeaveMapped DEF TimeoutGlobal, TimeoutGroup, Gone
<1>6. CASE Answer(r) \/ Deadline(r)
  <2>1. /\ at[r] \in {"running", "closing"} /\ group' = group
        /\ \/ at' = [at EXCEPT ![r] = "closing"]
           \/ at' = [at EXCEPT ![r] = "late"]
    BY <1>6 DEF Answer, Deadline
  <2>2. \A f \in Requests : Inside(f)' = Inside(f)
    BY <2>1, <1>1 DEF Inside
  <2> QED
    BY <2>1, <2>2, StayMapped
<1>7. CASE Finish(r) \/ Raise(r) \/ Refuse(r)
  BY <1>1, <1>7, LeaveMapped DEF Finish, Raise, Refuse, Leave, Gone
<1> QED
  BY <1>2, <1>3, <1>4, <1>5, <1>6, <1>7 DEF Step

(* The guard keeps the limits of Admission: what it does looks, to the       *)
(* application behind it, like requests that enter while there is room and   *)
(* leave (backpressure.py:76-135).                                           *)
THEOREM GuardImplementsAdmission == Spec => ImplementsAdmission
<1>1. Init => AD!Init
  BY DEF Init, AD!Init, Inside
<1>2. GuardInv /\ GuardInv' /\ [Next]_vars => [AD!Next]_mapped
  <2> SUFFICES ASSUME GuardInv, GuardInv', [Next]_vars
               PROVE  AD!Next \/ mapped' = mapped
    OBVIOUS
  <2>1. CASE Next
    BY <2>1, StepMapped DEF Next, AD!Next
  <2>2. CASE UNCHANGED vars
    BY <2>2 DEF vars, mapped, Inside
  <2> QED
    BY <2>1, <2>2
<1>3. [AD!Next]_mapped
        => [AD!Next]_[r \in Requests |-> IF Inside(r) THEN group[r] ELSE "no"]
  BY DEF mapped
<1> QED
  BY <1>1, <1>2, <1>3, GuardInvariant, PTL
     DEF Spec, ImplementsAdmission, AD!Spec

=============================================================================
