--------------------------- MODULE WorkQueueProofs ---------------------------
(* Theorems about WorkQueue, for any number of workers and keys and for any   *)
(* values of the times.                                                       *)
EXTENDS WorkQueue, FiniteSets, FiniteSetTheorems, TLAPS

LEMMA NewRowType == NewRow \in Row
BY TimesAssumption DEF NewRow, Row, Queued, Passed

LEMMA EnqueuedType ==
    ASSUME TypeOK, NEW S
    PROVE  Enqueued(S) \in [Keys -> Row \cup {None}]
BY NewRowType DEF TypeOK, Enqueued

LEMMA WithoutType ==
    ASSUME TypeOK, NEW k
    PROVE  Without(k) \in [Keys -> Row \cup {None}]
<1> SUFFICES ASSUME NEW j \in Keys, table[j] # None
             PROVE  [table[j] EXCEPT !.older = @ \ {k}] \in Row
    BY DEF Without
<1>1. table[j] \in Row
    BY DEF TypeOK
<1> QED BY <1>1 DEF Row

LEMMA LeftType ==
    ASSUME TypeOK, NEW w \in Workers, NEW d \in Nat
    PROVE  Left(w, d) \in Nat
BY TimesAssumption DEF Left, TypeOK

LEMMA BackoffType ==
    ASSUME NEW n \in Nat
    PROVE  Backoff(n) \in Nat
\* 2^n is the number of subsets of 1 .. n.
<1>1. IsFiniteSet(1 .. n) /\ Cardinality(1 .. n) = n
    BY FS_Interval
<1>2. IsFiniteSet(SUBSET (1 .. n)) /\ Cardinality(SUBSET (1 .. n)) = 2 ^ n
    BY <1>1, FS_SUBSET
<1>3. 2 ^ n \in Nat
    BY <1>2, FS_CardinalityType
<1> QED BY <1>3, TimesAssumption DEF Backoff

LEMMA ReleasedType ==
    ASSUME TypeOK, NEW w \in Workers, key[w] \in Keys, table[key[w]] # None,
           NEW a \in Nat, NEW d \in Nat
    PROVE  Released(w, a, d) \in [Keys -> Row \cup {None}]
<1>1. table[key[w]] \in Row /\ age[w] \in Nat
    BY TimesAssumption DEF TypeOK
<1> DEFINE r == [table[key[w]] EXCEPT
                   !.attempts = a, !.wait = d, !.holder = None,
                   !.lease = Passed,
                   !.idle = IF age[w] > RecoverAfter
                            THEN RecoverAfter + 1 ELSE age[w]]
<1>2. r \in Row
  <2>1. (IF age[w] > RecoverAfter THEN RecoverAfter + 1 ELSE age[w])
           \in 0 .. RecoverAfter + 1
    BY <1>1, TimesAssumption
  <2> QED BY <1>1, <2>1 DEF Row, Passed
<1>3. Released(w, a, d) = IF gone[w] THEN table ELSE [table EXCEPT ![key[w]] = r]
    BY DEF Released
<1> HIDE DEF r
<1> QED BY <1>2, <1>3 DEF TypeOK

LEMMA RevivedType ==
    ASSUME NEW t \in [Keys -> Row \cup {None}]
    PROVE  Revived(t) \in [Keys -> Row \cup {None}]
<1> SUFFICES ASSUME NEW k \in Keys, t[k] # None
             PROVE  [t[k] EXCEPT !.attempts = 0, !.wait = 0, !.idle = 0] \in Row
    BY DEF Revived
<1>1. t[k] \in Row /\ 0 \in 0 .. RecoverAfter + 1
    BY TimesAssumption
<1> QED BY <1>1 DEF Row

-----------------------------------------------------------------------------
(* Type correctness.  TypeOK alone is not inductive: the failure path updates *)
(* a row it takes to be there.                                                *)

RowFound == \A w \in Workers :
              key[w] # None /\ ~gone[w] => table[key[w]] # None

TypeInv == TypeOK /\ RowFound

LEMMA TypeInit == Init => TypeInv
BY KeysAssumption, TimesAssumption, NoneAssumption
   DEF Init, TypeInv, TypeOK, RowFound

LEMMA TypeClaim ==
    ASSUME TypeInv, NEW w \in Workers, Claim(w)
    PROVE  TypeInv'
<1>1. PICK k \in Keys :
        /\ Claimable(k)
        /\ table' = [table EXCEPT ![k] = [@ EXCEPT !.holder = w, !.lease = Lease]]
        /\ key' = [key EXCEPT ![w] = k]
    BY DEF Claim, First
<1>2. table[k] \in Row /\ table[k] # None
    BY <1>1 DEF TypeInv, TypeOK, Claimable
<1>3. [table[k] EXCEPT !.holder = w, !.lease = Lease] \in Row
    BY <1>2, TimesAssumption DEF Row
<1>4. /\ pc' = [pc EXCEPT ![w] = "running"]
      /\ gone' = [gone EXCEPT ![w] = FALSE] /\ age' = [age EXCEPT ![w] = 0]
      /\ UNCHANGED <<seen, since, recovery>>
    BY DEF Claim, scheduler
<1>5. TypeOK'
    BY <1>1, <1>3, <1>4, NoneAssumption, TimesAssumption DEF TypeInv, TypeOK, Busy
<1>6. RowFound'
    BY <1>1, <1>3, <1>4, NoneIsNoRow DEF TypeInv, TypeOK, RowFound
<1> QED BY <1>5, <1>6 DEF TypeInv

LEMMA TypeHandler ==
    ASSUME TypeInv, NEW w \in Workers, HandlerCommits(w) \/ HandlerRaises(w)
    PROVE  TypeInv'
<1>1. CASE HandlerCommits(w)
  <2>1. PICK S : table' = Enqueued(S)
      BY <1>1 DEF HandlerCommits
  <2>2. table' \in [Keys -> Row \cup {None}]
      BY <2>1, EnqueuedType DEF TypeInv
  <2>3. \A k \in Keys : table[k] # None => table'[k] # None
      BY <2>1 DEF Enqueued, Queued
  <2> QED BY <1>1, <2>2, <2>3
          DEF HandlerCommits, TypeInv, TypeOK, RowFound, Busy, scheduler
<1>2. CASE HandlerRaises(w)
    BY <1>2 DEF HandlerRaises, TypeInv, TypeOK, RowFound, Busy, scheduler
<1> QED BY <1>1, <1>2

\* A worker that is idle again has the type of an idle worker.
LEMMA TypeIdle ==
    ASSUME TypeOK, NEW w \in Workers, Idle(w)
    PROVE  /\ pc' \in [Workers -> Busy \cup {"idle"}]
           /\ key' \in [Workers -> Keys \cup {None}]
           /\ \A v \in Workers : key'[v] = None <=> pc'[v] = "idle"
           /\ age' \in [Workers -> 0 .. HandlerMax]
           /\ seen' \in [Workers -> Nat]
BY TimesAssumption DEF TypeOK, Idle, Busy

LEMMA TypeDelete ==
    ASSUME TypeInv, NEW w \in Workers, DeleteTask(w)
    PROVE  TypeInv'
<1>1. table' = IF gone[w] THEN table ELSE Without(key[w])
    BY DEF DeleteTask
<1>2. gone' = [v \in Workers |->
                 IF v = w THEN FALSE
                 ELSE gone[v] \/ (~gone[w] /\ key[v] = key[w])]
    BY DEF DeleteTask
<1>3. Idle(w) /\ UNCHANGED <<since, recovery>>
    BY DEF DeleteTask, scheduler
<1>4. table' \in [Keys -> Row \cup {None}]
    BY <1>1, WithoutType DEF TypeInv, TypeOK
<1>5. gone' \in [Workers -> BOOLEAN]
    BY <1>2 DEF TypeInv, TypeOK
<1>6. TypeOK'
    BY <1>3, <1>4, <1>5, TypeIdle DEF TypeInv, TypeOK
<1>7. ASSUME NEW k \in Keys, k # key[w], table[k] # None
      PROVE  table'[k] # None
  <2>1. [table[k] EXCEPT !.older = @ \ {key[w]}] \in Row
      BY <1>7 DEF TypeInv, TypeOK, Row
  <2> QED BY <1>1, <1>7, <2>1, NoneIsNoRow DEF Without
<1>8. RowFound'
  <2> SUFFICES ASSUME NEW v \in Workers, key'[v] # None, ~gone'[v]
               PROVE  table'[key'[v]] # None
      BY DEF RowFound
  <2>1. v # w /\ key'[v] = key[v] /\ key[v] \in Keys
      BY <1>3 DEF Idle, TypeInv, TypeOK
  <2>2. ~gone[v] /\ table[key[v]] # None
      BY <1>2, <2>1 DEF TypeInv, RowFound
  <2>3. CASE gone[w]
      BY <1>1, <2>1, <2>2, <2>3
  <2>4. CASE ~gone[w]
      BY <1>2, <1>7, <2>1, <2>2, <2>4
  <2> QED BY <2>3, <2>4
<1> QED BY <1>6, <1>8 DEF TypeInv

\* Both failure paths end in Released: the row stays, with a new count.
LEMMA TypeRelease ==
    ASSUME TypeInv, NEW w \in Workers, key[w] # None,
           NEW a, NEW d \in Nat, ~gone[w] => a \in Nat,
           table' = Released(w, a, d), gone' = [gone EXCEPT ![w] = FALSE],
           Idle(w), UNCHANGED <<since, recovery>>
    PROVE  TypeInv'
<1>1. key[w] \in Keys /\ (~gone[w] => table[key[w]] # None)
    BY DEF TypeInv, TypeOK, RowFound
<1>2. table' \in [Keys -> Row \cup {None}]
  <2>1. CASE gone[w]
      BY <2>1 DEF Released, TypeInv, TypeOK
  <2>2. CASE ~gone[w]
      BY <1>1, <2>2, ReleasedType DEF TypeInv
  <2> QED BY <2>1, <2>2
<1>3. \A k \in Keys : table[k] # None => table'[k] # None
  <2>1. CASE gone[w]
      BY <2>1 DEF Released
  <2>2. CASE ~gone[w]
    <3> DEFINE r == [table[key[w]] EXCEPT
                       !.attempts = a, !.wait = d, !.holder = None,
                       !.lease = Passed,
                       !.idle = IF age[w] > RecoverAfter
                                THEN RecoverAfter + 1 ELSE age[w]]
    <3>1. table' = [table EXCEPT ![key[w]] = r]
        BY <2>2 DEF Released
    <3>2. r = table'[key[w]]
        BY <1>1, <3>1 DEF TypeInv, TypeOK
    <3>3. r \in Row
      <4>1. (IF age[w] > RecoverAfter THEN RecoverAfter + 1 ELSE age[w])
               \in 0 .. RecoverAfter + 1
          BY TimesAssumption DEF TypeInv, TypeOK
      <4>2. table[key[w]] \in Row
          BY <1>1, <2>2 DEF TypeInv, TypeOK
      <4> QED BY <2>2, <4>1, <4>2 DEF Row, Passed
    <3> HIDE DEF r
    <3> QED BY <1>1, <3>1, <3>3, NoneIsNoRow DEF TypeInv, TypeOK
  <2> QED BY <2>1, <2>2
<1>4. TypeOK'
    BY <1>2, TypeIdle DEF TypeInv, TypeOK
<1>5. RowFound'
  <2> SUFFICES ASSUME NEW v \in Workers, key'[v] # None, ~gone'[v]
               PROVE  table'[key'[v]] # None
      BY DEF RowFound
  <2>1. v # w /\ key'[v] = key[v] /\ key[v] \in Keys
      BY DEF Idle, TypeInv, TypeOK
  <2> QED BY <1>3, <2>1 DEF TypeInv, TypeOK, RowFound
<1> QED BY <1>4, <1>5 DEF TypeInv

LEMMA TypeThrottle ==
    ASSUME TypeInv, NEW w \in Workers, RecordThrottle(w)
    PROVE  TypeInv'
<1>1. PICK d \in ResetDelays \cup {Left(w, TransientDelay)} :
        table' = Released(w, table[key[w]].attempts + 1, d)
    BY DEF RecordThrottle
<1>2. d \in Nat
    BY LeftType, TimesAssumption DEF TypeInv
<1>3. key[w] \in Keys /\ key[w] # None
    BY NoneAssumption DEF RecordThrottle, TypeInv, TypeOK
<1>4. ~gone[w] => table[key[w]].attempts + 1 \in Nat
    BY <1>3 DEF TypeInv, TypeOK, RowFound, Row
<1> QED BY <1>1, <1>2, <1>3, <1>4, TypeRelease DEF RecordThrottle, scheduler

LEMMA TypeWriteFailure ==
    ASSUME TypeInv, NEW w \in Workers, WriteFailure(w)
    PROVE  TypeInv'
<1> DEFINE a == seen[w] + 1
           d == IF a >= MaxAttempts THEN Park ELSE Backoff(a)
<1>1. a \in Nat
    BY DEF TypeInv, TypeOK
<1>2. Left(w, d) \in Nat
    BY <1>1, BackoffType, LeftType, TimesAssumption DEF TypeInv
<1>3. key[w] # None /\ table' = Released(w, a, Left(w, d))
    BY DEF WriteFailure, TypeInv, TypeOK
<1> HIDE DEF a, d
<1> QED BY <1>1, <1>2, <1>3, TypeRelease DEF WriteFailure, scheduler

LEMMA TypeOtherFinalise ==
    ASSUME TypeInv, NEW w \in Workers,
           DeleteRaises(w) \/ ReadAttempts(w) \/ FinaliseRaises(w)
    PROVE  TypeInv'
<1>1. CASE DeleteRaises(w)
    BY <1>1 DEF DeleteRaises, TypeInv, TypeOK, RowFound, Busy, scheduler
<1>2. CASE ReadAttempts(w) /\ ~gone[w]
  <2>1. key[w] \in Keys /\ table[key[w]] \in Row
      BY <1>2, NoneAssumption DEF ReadAttempts, TypeInv, TypeOK, RowFound
  <2>2. table[key[w]].attempts \in Nat
      BY <2>1 DEF Row
  <2> QED BY <1>2, <2>2
          DEF ReadAttempts, TypeInv, TypeOK, RowFound, Busy, scheduler
<1>3. CASE (ReadAttempts(w) /\ gone[w]) \/ FinaliseRaises(w)
  <2>1. /\ Idle(w) /\ gone' = [gone EXCEPT ![w] = FALSE]
        /\ UNCHANGED <<table, since, recovery>>
      BY <1>3 DEF ReadAttempts, FinaliseRaises, scheduler
  <2>2. TypeOK'
      BY <2>1, TypeIdle DEF TypeInv, TypeOK
  <2>3. RowFound'
      BY <2>1 DEF TypeInv, TypeOK, RowFound, Idle
  <2> QED BY <2>2, <2>3 DEF TypeInv
<1> QED BY <1>1, <1>2, <1>3

LEMMA TypeScheduler ==
    ASSUME TypeInv, SchedulerPass \/ SchedulerPassRaises
    PROVE  TypeInv'
<1>1. CASE SchedulerPass
  <2>1. table' = IF RecoveryDue THEN Revived(Enqueued(Due)) ELSE Enqueued(Due)
      BY <1>1 DEF SchedulerPass
  <2>2. Enqueued(Due) \in [Keys -> Row \cup {None}]
      BY EnqueuedType DEF TypeInv
  <2>3. table' \in [Keys -> Row \cup {None}]
      BY <2>1, <2>2, RevivedType
  <2>4. \A k \in Keys : table[k] # None => Enqueued(Due)[k] # None
      BY DEF Enqueued, Queued
  <2>5. \A k \in Keys : Enqueued(Due)[k] # None =>
                          Revived(Enqueued(Due))[k] # None
    <3> SUFFICES ASSUME NEW k \in Keys, Enqueued(Due)[k] # None
                 PROVE  [Enqueued(Due)[k] EXCEPT
                           !.attempts = 0, !.wait = 0, !.idle = 0] # None
        BY DEF Revived
    <3>1. Enqueued(Due)[k] \in Row /\ 0 \in 0 .. RecoverAfter + 1
        BY <2>2, TimesAssumption
    <3>2. [Enqueued(Due)[k] EXCEPT !.attempts = 0, !.wait = 0, !.idle = 0] \in Row
        BY <3>1 DEF Row
    <3> QED BY <3>2, NoneIsNoRow
  <2>6. RowFound'
      BY <1>1, <2>1, <2>4, <2>5 DEF SchedulerPass, TypeInv, TypeOK, RowFound
  <2>7. since' \in [Recurring -> Nat] /\ \A k \in Recurring : since'[k] <= Every[k]
      BY <1>1, KeysAssumption DEF SchedulerPass, TypeInv, TypeOK
  <2>8. recovery' \in 0 .. RecoverEvery
      BY <1>1, TimesAssumption DEF SchedulerPass, TypeInv, TypeOK
  <2> QED BY <1>1, <2>3, <2>6, <2>7, <2>8 DEF SchedulerPass, TypeInv, TypeOK
<1>2. CASE SchedulerPassRaises
  <2>1. since' \in [Recurring -> Nat] /\ \A k \in Recurring : since'[k] <= Every[k]
      BY <1>2, KeysAssumption DEF SchedulerPassRaises, TypeInv, TypeOK
  <2>2. recovery' \in 0 .. RecoverEvery
      BY <1>2, TimesAssumption DEF SchedulerPassRaises, TypeInv, TypeOK
  <2> QED BY <1>2, <2>1, <2>2 DEF SchedulerPassRaises, TypeInv, TypeOK, RowFound
<1> QED BY <1>1, <1>2

LEMMA TypeCrash ==
    ASSUME TypeInv, Crash
    PROVE  TypeInv'
BY KeysAssumption, TimesAssumption DEF Crash, TypeInv, TypeOK, RowFound

LEMMA TypeTick ==
    ASSUME TypeInv, Tick
    PROVE  TypeInv'
<1>1. ASSUME NEW k \in Keys, table[k] # None
      PROVE  table'[k] \in Row
  <2>1. table[k] \in Row
      BY <1>1 DEF TypeInv, TypeOK
  <2> DEFINE wt == IF table[k].wait > 0 THEN table[k].wait - 1 ELSE 0
             ls == IF table[k].lease >= 0 THEN table[k].lease - 1 ELSE Passed
             id == IF table[k].idle <= RecoverAfter
                   THEN table[k].idle + 1 ELSE RecoverAfter + 1
  <2>2. wt \in Nat
      BY <2>1 DEF Row
  <2>3. ls \in Nat \cup {Passed}
      BY <2>1 DEF Row, Passed
  <2>4. id \in 0 .. RecoverAfter + 1
      BY <2>1, TimesAssumption DEF Row
  <2>5. table'[k] = [table[k] EXCEPT !.wait = wt, !.lease = ls, !.idle = id]
      BY <1>1 DEF Tick
  <2> HIDE DEF wt, ls, id
  <2> QED BY <2>1, <2>2, <2>3, <2>4, <2>5 DEF Row
<1>2. \A k \in Keys : table[k] = None => table'[k] = None
    BY DEF Tick
<1>3. table' \in [Keys -> Row \cup {None}]
  <2>1. \A k \in Keys : table'[k] \in Row \cup {None}
      BY <1>1, <1>2
  <2>2. table' = [k \in Keys |-> table'[k]]
      BY DEF Tick
  <2> QED BY <2>1, <2>2
<1>4. age' \in [Workers -> 0 .. HandlerMax]
  <2>1. \A w \in Workers : pc[w] # "idle" => age[w] < HandlerMax
      BY DEF Tick
  <2>2. age' = [w \in Workers |-> IF pc[w] = "idle" THEN 0 ELSE age[w] + 1]
      BY DEF Tick
  <2>3. age \in [Workers -> 0 .. HandlerMax]
      BY DEF TypeInv, TypeOK
  <2> QED BY <2>1, <2>2, <2>3, TimesAssumption
<1>5. since' \in [Recurring -> Nat] /\ \A k \in Recurring : since'[k] <= Every[k]
  <2>1. since' = [k \in Recurring |->
                    IF since[k] < Every[k] THEN since[k] + 1 ELSE Every[k]]
      BY DEF Tick
  <2>2. since \in [Recurring -> Nat] /\ Every \in [Recurring -> Nat]
      BY KeysAssumption DEF TypeInv, TypeOK
  <2> QED BY <2>1, <2>2
<1>6. recovery' \in 0 .. RecoverEvery
  <2>1. recovery' = IF recovery < RecoverEvery THEN recovery + 1 ELSE RecoverEvery
      BY DEF Tick
  <2>2. recovery \in 0 .. RecoverEvery
      BY DEF TypeInv, TypeOK
  <2> QED BY <2>1, <2>2, TimesAssumption
<1>7. RowFound'
  <2> SUFFICES ASSUME NEW w \in Workers, key'[w] # None, ~gone'[w]
               PROVE  table'[key'[w]] # None
      BY DEF RowFound
  <2>1. key' = key /\ gone' = gone
      BY DEF Tick
  <2>2. key[w] \in Keys /\ table[key[w]] # None
      BY <2>1 DEF TypeInv, TypeOK, RowFound
  <2>3. table'[key[w]] \in Row
      BY <1>1, <2>2
  <2> QED BY <2>1, <2>3, NoneIsNoRow
<1> QED BY <1>3, <1>4, <1>5, <1>6, <1>7 DEF Tick, TypeInv, TypeOK

LEMMA TypeStep == TypeInv /\ [Next]_vars => TypeInv'
<1> SUFFICES ASSUME TypeInv, [Next]_vars
             PROVE  TypeInv'
    OBVIOUS
<1>1. ASSUME NEW w \in Workers, Worker(w)
      PROVE  TypeInv'
    BY <1>1, TypeClaim, TypeHandler, TypeDelete, TypeThrottle,
       TypeWriteFailure, TypeOtherFinalise DEF Worker, Finalise
<1>2. CASE UNCHANGED vars
    BY <1>2 DEF vars, TypeInv, TypeOK, RowFound
<1> QED BY <1>1, <1>2, TypeScheduler, TypeCrash, TypeTick DEF Next

\* Every reachable state of the work queue has its type (TypeOK), whatever the
\* speed of the handlers: also a worker whose row was deleted under it never
\* reads a row that is not there (worker.py:111-113).
THEOREM TypeCorrect == Spec => []TypeOK
<1>1. TypeInv => TypeOK
    BY DEF TypeInv
<1> QED BY <1>1, TypeInit, TypeStep, PTL DEF Spec

-----------------------------------------------------------------------------
(* Exclusion, when no claim outlives its lease.  LeaseExclusive is not        *)
(* inductive: what keeps a second worker away from a row is the time left on  *)
(* its lease, so the invariant says how much that is (HoldsLease), and that   *)
(* the count of a held row is still (CountHeld).                              *)

LeaseInv == TypeInv /\ HoldsLease /\ CountHeld

LEMMA HolderIsAlone ==
    ASSUME LeaseInv, NEW v \in Workers, NEW w \in Workers, v # w, key[v] # None
    PROVE  key[v] # key[w]
BY DEF LeaseInv, HoldsLease

\* The lease of a held row has not passed.
LEMMA HeldNotClaimable ==
    ASSUME NoOverrun, LeaseInv, NEW w \in Workers, key[w] # None
    PROVE  ~Claimable(key[w])
BY TimesAssumption
   DEF NoOverrun, LeaseInv, HoldsLease, TypeInv, TypeOK, Claimable, Passed

LEMMA LeaseClaim ==
    ASSUME NoOverrun, LeaseInv, NEW w \in Workers, Claim(w)
    PROVE  HoldsLease' /\ CountHeld'
<1>1. PICK k \in Keys :
        /\ Claimable(k)
        /\ table' = [table EXCEPT ![k] = [@ EXCEPT !.holder = w, !.lease = Lease]]
        /\ key' = [key EXCEPT ![w] = k]
    BY DEF Claim, First
<1>2. table[k] \in Row /\ table[k] # None /\ table[k].attempts < MaxAttempts
    BY <1>1 DEF LeaseInv, TypeInv, TypeOK, Claimable
<1> DEFINE r == [table[k] EXCEPT !.holder = w, !.lease = Lease]
<1>3. r \in Row /\ r.holder = w /\ r.lease = Lease /\ r.attempts = table[k].attempts
    BY <1>2, TimesAssumption DEF Row
<1>4. table'[k] = r
    BY <1>1 DEF LeaseInv, TypeInv, TypeOK
<1> HIDE DEF r
<1>5. /\ pc' = [pc EXCEPT ![w] = "running"]
      /\ gone' = [gone EXCEPT ![w] = FALSE] /\ age' = [age EXCEPT ![w] = 0]
      /\ seen' = seen
    BY DEF Claim
<1>6. /\ key'[w] = k /\ ~gone'[w] /\ age'[w] = 0 /\ pc'[w] # "counting"
    BY <1>1, <1>5 DEF LeaseInv, TypeInv, TypeOK
<1>7. ASSUME NEW v \in Workers, v # w, key'[v] # None
      PROVE  /\ UNCHANGED <<key[v], gone[v], age[v], pc[v], seen[v]>>
             /\ table'[key[v]] = table[key[v]]
  <2>1. UNCHANGED <<key[v], gone[v], age[v], pc[v], seen[v]>>
      BY <1>1, <1>5, <1>7 DEF LeaseInv, TypeInv, TypeOK
  <2>2. key[v] \in Keys /\ key[v] # k
      BY <1>1, <1>7, <2>1, HeldNotClaimable DEF LeaseInv, TypeInv, TypeOK
  <2> QED BY <1>1, <2>1, <2>2 DEF LeaseInv, TypeInv, TypeOK
<1>8. HoldsLease'
    BY <1>2, <1>3, <1>4, <1>6, <1>7, NoneIsNoRow, TimesAssumption
    DEF LeaseInv, HoldsLease
<1>9. CountHeld'
    BY <1>2, <1>3, <1>4, <1>6, <1>7 DEF LeaseInv, CountHeld
<1> QED BY <1>8, <1>9

LEMMA LeaseHandler ==
    ASSUME LeaseInv, TypeInv', NEW w \in Workers,
           HandlerCommits(w) \/ HandlerRaises(w) \/ DeleteRaises(w)
    PROVE  HoldsLease' /\ CountHeld'
<1>1. UNCHANGED <<key, gone, age, seen>>
    BY DEF HandlerCommits, HandlerRaises, DeleteRaises
<1>2. \A v \in Workers : pc'[v] = "counting" => pc[v] = "counting"
    BY DEF HandlerCommits, HandlerRaises, DeleteRaises, LeaseInv, TypeInv, TypeOK
<1>3. \A k \in Keys : table[k] # None => table'[k] = table[k]
    BY DEF HandlerCommits, HandlerRaises, DeleteRaises, Enqueued, Queued
<1>4. \A v \in Workers : key[v] # None =>
         key[v] \in Keys /\ table[key[v]] # None /\ table'[key[v]] = table[key[v]]
    BY <1>3 DEF LeaseInv, HoldsLease, TypeInv, TypeOK
<1> QED BY <1>1, <1>2, <1>4 DEF LeaseInv, HoldsLease, CountHeld

\* Every finalisation ends one worker's hold and leaves the others' rows alone.
LEMMA LeaseFinalise ==
    ASSUME LeaseInv, NEW w \in Workers, Idle(w), key[w] # None,
           \A v \in Workers : v # w => gone'[v] = gone[v] \/ key[v] = key[w],
           \A k \in Keys : k # key[w] /\ table[k] # None =>
                /\ table'[k] # None
                /\ table'[k].holder = table[k].holder
                /\ table'[k].lease = table[k].lease
                /\ table'[k].attempts = table[k].attempts
    PROVE  HoldsLease' /\ CountHeld'
<1>1. key'[w] = None
    BY DEF Idle, LeaseInv, TypeInv, TypeOK
<1>2. ASSUME NEW v \in Workers, v # w, key'[v] # None
      PROVE  /\ UNCHANGED <<key[v], gone[v], age[v], pc[v], seen[v]>>
             /\ key[v] \in Keys /\ key[v] # key[w] /\ table[key[v]] # None
  <2>1. UNCHANGED <<key[v], age[v], pc[v], seen[v]>>
      BY <1>2 DEF Idle, LeaseInv, TypeInv, TypeOK
  <2>2. key[v] \in Keys /\ key[v] # key[w] /\ table[key[v]] # None
      BY <1>2, <2>1, HolderIsAlone DEF LeaseInv, HoldsLease, TypeInv, TypeOK
  <2> QED BY <1>2, <2>1, <2>2
<1>3. HoldsLease'
    BY <1>1, <1>2 DEF LeaseInv, HoldsLease
<1>4. CountHeld'
    BY <1>1, <1>2 DEF LeaseInv, CountHeld
<1> QED BY <1>3, <1>4

LEMMA LeaseDelete ==
    ASSUME LeaseInv, NEW w \in Workers, DeleteTask(w)
    PROVE  HoldsLease' /\ CountHeld'
<1>1. key[w] # None /\ Idle(w)
    BY DEF DeleteTask, LeaseInv, TypeInv, TypeOK, Busy
<1>2. \A v \in Workers : v # w => gone'[v] = gone[v] \/ key[v] = key[w]
    BY DEF DeleteTask, LeaseInv, TypeInv, TypeOK
<1>3. ASSUME NEW k \in Keys, k # key[w], table[k] # None
      PROVE  /\ table'[k] # None
             /\ table'[k].holder = table[k].holder
             /\ table'[k].lease = table[k].lease
             /\ table'[k].attempts = table[k].attempts
  <2>1. table[k] \in Row
      BY <1>3 DEF LeaseInv, TypeInv, TypeOK
  <2> DEFINE r == [table[k] EXCEPT !.older = @ \ {key[w]}]
  <2>2. /\ r \in Row /\ r.holder = table[k].holder
        /\ r.lease = table[k].lease /\ r.attempts = table[k].attempts
      BY <2>1 DEF Row
  <2>3. table'[k] = table[k] \/ table'[k] = r
      BY <1>3 DEF DeleteTask, Without
  <2> HIDE DEF r
  <2> QED BY <1>3, <2>2, <2>3, NoneIsNoRow
<1> QED BY <1>1, <1>2, <1>3, LeaseFinalise

LEMMA LeaseRelease ==
    ASSUME LeaseInv, NEW w \in Workers,
           RecordThrottle(w) \/ WriteFailure(w) \/ FinaliseRaises(w)
    PROVE  HoldsLease' /\ CountHeld'
<1>1. key[w] # None /\ Idle(w) /\ gone' = [gone EXCEPT ![w] = FALSE]
    BY DEF RecordThrottle, WriteFailure, FinaliseRaises,
           LeaseInv, TypeInv, TypeOK, Busy
<1>2. \A v \in Workers : v # w => gone'[v] = gone[v]
    BY <1>1 DEF LeaseInv, TypeInv, TypeOK
<1>3. \A k \in Keys : k # key[w] => table'[k] = table[k]
  <2>1. CASE RecordThrottle(w)
      BY <2>1 DEF RecordThrottle, Released, LeaseInv, TypeInv, TypeOK
  <2>2. CASE WriteFailure(w)
      BY <2>2 DEF WriteFailure, Released, LeaseInv, TypeInv, TypeOK
  <2>3. CASE FinaliseRaises(w)
      BY <2>3 DEF FinaliseRaises
  <2> QED BY <2>1, <2>2, <2>3
<1> QED BY <1>1, <1>2, <1>3, LeaseFinalise

LEMMA LeaseReadAttempts ==
    ASSUME LeaseInv, NEW w \in Workers, ReadAttempts(w)
    PROVE  HoldsLease' /\ CountHeld'
<1>1. key[w] # None /\ ~gone[w]
    BY DEF ReadAttempts, LeaseInv, HoldsLease, TypeInv, TypeOK, Busy
<1> QED BY <1>1 DEF ReadAttempts, LeaseInv, HoldsLease, CountHeld, TypeInv, TypeOK

LEMMA LeaseScheduler ==
    ASSUME LeaseInv, SchedulerPass \/ SchedulerPassRaises
    PROVE  HoldsLease' /\ CountHeld'
<1>1. UNCHANGED <<pc, key, gone, age, seen>>
    BY DEF SchedulerPass, SchedulerPassRaises
<1>2. ASSUME NEW w \in Workers, key[w] # None
      PROVE  table'[key[w]] = table[key[w]]
  <2>1. /\ key[w] \in Keys /\ table[key[w]] # None
        /\ table[key[w]] \in Row /\ table[key[w]].attempts < MaxAttempts
      BY <1>2 DEF LeaseInv, HoldsLease, CountHeld, TypeInv, TypeOK
  <2>2. ~(table[key[w]].attempts >= MaxAttempts)
      BY <2>1, TimesAssumption DEF Row
  <2>3. Enqueued(Due)[key[w]] = table[key[w]]
      BY <2>1 DEF Enqueued, Queued
  <2>4. Revived(Enqueued(Due))[key[w]] = table[key[w]]
      BY <2>1, <2>2, <2>3 DEF Revived
  <2> QED BY <2>3, <2>4 DEF SchedulerPass, SchedulerPassRaises
<1> QED BY <1>1, <1>2 DEF LeaseInv, HoldsLease, CountHeld

LEMMA LeaseTick ==
    ASSUME NoOverrun, LeaseInv, Tick
    PROVE  HoldsLease' /\ CountHeld'
<1> SUFFICES ASSUME NEW w \in Workers, key'[w] # None
             PROVE  /\ ~gone'[w]
                    /\ table'[key'[w]] # None
                    /\ table'[key'[w]].holder = w
                    /\ table'[key'[w]].lease = Lease - age'[w]
                    /\ table'[key'[w]].attempts < MaxAttempts
                    /\ pc'[w] = "counting" => seen'[w] = table'[key'[w]].attempts
    BY DEF HoldsLease, CountHeld
<1>1. UNCHANGED <<pc, key, gone, seen>>
    BY DEF Tick
<1> DEFINE k == key[w]
           wt == IF table[k].wait > 0 THEN table[k].wait - 1 ELSE 0
           ls == IF table[k].lease >= 0 THEN table[k].lease - 1 ELSE Passed
           id == IF table[k].idle <= RecoverAfter
                 THEN table[k].idle + 1 ELSE RecoverAfter + 1
           r  == [table[k] EXCEPT !.wait = wt, !.lease = ls, !.idle = id]
<1>2. k \in Keys /\ pc[w] # "idle" /\ table[k] # None /\ table[k] \in Row
    BY <1>1 DEF LeaseInv, HoldsLease, TypeInv, TypeOK
<1>3. age[w] < HandlerMax /\ age'[w] = age[w] + 1 /\ age[w] \in Nat
  <2>1. age[w] < HandlerMax /\ age'[w] = age[w] + 1
      BY <1>2 DEF Tick
  <2>2. age[w] \in 0 .. HandlerMax
      BY DEF LeaseInv, TypeInv, TypeOK
  <2> QED BY <2>1, <2>2, TimesAssumption
<1>4. table'[k] = r
    BY <1>2 DEF Tick
<1>5. ls = Lease - age'[w]
  <2>1. table[k].lease = Lease - age[w]
      BY <1>1 DEF LeaseInv, HoldsLease
  <2> QED BY <1>3, <2>1, TimesAssumption DEF NoOverrun
<1>6. /\ r.holder = table[k].holder /\ r.attempts = table[k].attempts
      /\ r.lease = ls
    BY <1>2 DEF Row
<1>7. table'[k] # None
  <2>1. RowFound'
      BY TypeTick DEF LeaseInv, TypeInv
  <2>2. key'[w] = k /\ ~gone'[w]
      BY <1>1 DEF LeaseInv, HoldsLease
  <2> QED BY <2>1, <2>2 DEF RowFound
<1> HIDE DEF r, ls
<1> QED BY <1>1, <1>4, <1>5, <1>6, <1>7 DEF LeaseInv, HoldsLease, CountHeld

LEMMA LeaseInit == Init => LeaseInv
BY TypeInit DEF Init, LeaseInv, HoldsLease, CountHeld

LEMMA LeaseStep == NoOverrun /\ LeaseInv /\ [Next]_vars => LeaseInv'
<1> SUFFICES ASSUME NoOverrun, LeaseInv, [Next]_vars
             PROVE  LeaseInv'
    OBVIOUS
<1>1. TypeInv'
    BY TypeStep DEF LeaseInv
<1>2. ASSUME NEW w \in Workers, Worker(w)
      PROVE  HoldsLease' /\ CountHeld'
    BY <1>1, <1>2, LeaseClaim, LeaseHandler, LeaseDelete, LeaseRelease,
       LeaseReadAttempts DEF Worker, Finalise
<1>3. ASSUME Crash
      PROVE  HoldsLease' /\ CountHeld'
    BY <1>3 DEF Crash, HoldsLease, CountHeld
<1>4. ASSUME UNCHANGED vars
      PROVE  HoldsLease' /\ CountHeld'
    BY <1>4 DEF vars, LeaseInv, HoldsLease, CountHeld
<1>5. HoldsLease' /\ CountHeld'
    BY <1>2, <1>3, <1>4, LeaseScheduler, LeaseTick DEF Next
<1> QED BY <1>1, <1>5 DEF LeaseInv

LEMMA LeaseInvariant ==
    ASSUME NoOverrun
    PROVE  Spec => []LeaseInv
<1>1. LeaseInv /\ [Next]_vars => LeaseInv'
    BY LeaseStep
<1> QED BY <1>1, LeaseInit, PTL DEF Spec

\* As long as no claim outlives its lease, no two workers are at work on tasks
\* with the same dedupe key (LeaseExclusive), although no finalisation checks
\* who holds the lock (worker.py:83-130).
THEOREM ExclusiveLease ==
    ASSUME NoOverrun
    PROVE  Spec => []LeaseExclusive
<1>1. LeaseInv => LeaseExclusive
    BY HolderIsAlone DEF LeaseExclusive
<1> QED BY <1>1, LeaseInvariant, PTL

\* As long as no claim outlives its lease, a worker's row stays in the table,
\* locked by that worker for exactly what its own `now' leaves of the lease
\* (HoldsLease), over crashes, recoveries and the other workers' finalisations
\* (worker.py:41-74).
THEOREM LeasesHeld ==
    ASSUME NoOverrun
    PROVE  Spec => []HoldsLease
<1>1. LeaseInv => HoldsLease
    BY DEF LeaseInv
<1> QED BY <1>1, LeaseInvariant, PTL

-----------------------------------------------------------------------------
(* What a step does to a row that is in the table.                           *)

LEMMA ReleasedRow ==
    ASSUME LeaseInv, NEW w \in Workers, key[w] # None, NEW a \in Nat, NEW d \in Nat,
           NEW k \in Keys, table[k] # None
    PROVE  /\ Released(w, a, d)[k] # None
           /\ Released(w, a, d)[k].attempts
                = IF k = key[w] THEN a ELSE table[k].attempts
<1>1. ~gone[w] /\ key[w] \in Keys /\ table[key[w]] \in Row /\ age[w] \in Nat
    BY TimesAssumption DEF LeaseInv, HoldsLease, TypeInv, TypeOK
<1> DEFINE r == [table[key[w]] EXCEPT
                   !.attempts = a, !.wait = d, !.holder = None,
                   !.lease = Passed,
                   !.idle = IF age[w] > RecoverAfter
                            THEN RecoverAfter + 1 ELSE age[w]]
<1>2. r.attempts = a
    BY <1>1 DEF Row
<1>3. Released(w, a, d) = [table EXCEPT ![key[w]] = r]
    BY <1>1 DEF Released
<1>4. Released(w, a, d)[k] \in Row \cup {None} /\ r \in Row
  <2>1. (IF age[w] > RecoverAfter THEN RecoverAfter + 1 ELSE age[w])
           \in 0 .. RecoverAfter + 1
      BY <1>1, TimesAssumption
  <2>2. r \in Row
      BY <1>1, <2>1 DEF Row, Passed
  <2> HIDE DEF r
  <2> QED BY <1>1, <1>3, <2>2 DEF LeaseInv, TypeInv, TypeOK
<1> HIDE DEF r
<1> QED BY <1>1, <1>2, <1>3, <1>4, NoneIsNoRow DEF LeaseInv, TypeInv, TypeOK

\* A failure, throttled or not, counts one on the worker's own row.
LEMMA FailureRow ==
    ASSUME LeaseInv, NEW w \in Workers, RecordThrottle(w) \/ WriteFailure(w),
           NEW k \in Keys, table[k] # None
    PROVE  /\ table'[k] # None
           /\ table'[k].attempts = IF k = key[w] THEN table[k].attempts + 1
                                   ELSE table[k].attempts
<1>1. /\ key[w] \in Keys /\ key[w] # None /\ ~gone[w]
      /\ table[key[w]] \in Row /\ table[key[w]].attempts \in Nat
    BY DEF RecordThrottle, WriteFailure, LeaseInv, HoldsLease, TypeInv, TypeOK,
           Busy, Row
<1>2. PICK a \in Nat, d \in Nat : /\ a = table[key[w]].attempts + 1
                                  /\ table' = Released(w, a, d)
  <2>1. CASE RecordThrottle(w)
    <3>1. PICK d \in ResetDelays \cup {Left(w, TransientDelay)} :
            table' = Released(w, table[key[w]].attempts + 1, d)
        BY <2>1 DEF RecordThrottle
    <3>2. Left(w, TransientDelay) \in Nat
        BY LeftType, TimesAssumption DEF LeaseInv, TypeInv
    <3>3. d \in Nat
        BY <3>1, <3>2, TimesAssumption
    <3> QED BY <1>1, <3>1, <3>3
  <2>2. CASE WriteFailure(w)
    <3> DEFINE a == seen[w] + 1
               e == IF a >= MaxAttempts THEN Park ELSE Backoff(a)
    <3>1. a = table[key[w]].attempts + 1
        BY <1>1, <2>2 DEF WriteFailure, LeaseInv, CountHeld
    <3>2. a \in Nat
        BY <1>1, <3>1
    <3> HIDE DEF a
    <3>3. e \in Nat
        BY <3>2, BackoffType, TimesAssumption
    <3> HIDE DEF e
    <3>4. Left(w, e) \in Nat
        BY <3>3, LeftType DEF LeaseInv, TypeInv
    <3>5. table' = Released(w, a, Left(w, e))
        BY <2>2 DEF WriteFailure, a, e
    <3> QED BY <3>1, <3>2, <3>4, <3>5
  <2> QED BY <2>1, <2>2
<1> QED BY <1>1, <1>2, ReleasedRow

\* Every other step of a worker but a delete leaves the counts alone.
LEMMA WorkerRow ==
    ASSUME LeaseInv, NEW w \in Workers,
           \/ Claim(w) \/ HandlerCommits(w) \/ HandlerRaises(w)
           \/ DeleteRaises(w) \/ ReadAttempts(w) \/ FinaliseRaises(w),
           NEW k \in Keys, table[k] # None
    PROVE  table'[k] # None /\ table'[k].attempts = table[k].attempts
<1>1. CASE Claim(w)
  <2>1. PICK j \in Keys :
          /\ table[j] # None
          /\ table' = [table EXCEPT ![j] = [@ EXCEPT !.holder = w, !.lease = Lease]]
      BY <1>1 DEF Claim, First, Claimable
  <2> DEFINE r == [table[j] EXCEPT !.holder = w, !.lease = Lease]
  <2>2. r \in Row /\ r.attempts = table[j].attempts
    <3>1. table[j] \in Row
        BY <2>1 DEF LeaseInv, TypeInv, TypeOK
    <3> QED BY <3>1, TimesAssumption DEF Row
  <2>3. table' = [table EXCEPT ![j] = r]
      BY <2>1
  <2> HIDE DEF r
  <2> QED BY <2>1, <2>2, <2>3, NoneIsNoRow DEF LeaseInv, TypeInv, TypeOK
<1>2. CASE ~Claim(w)
    BY <1>2 DEF HandlerCommits, HandlerRaises, DeleteRaises, ReadAttempts,
                FinaliseRaises, Enqueued, Queued
<1> QED BY <1>1, <1>2

\* So do the scheduler's passes, except that a recovery starts a count anew.
LEMMA SchedulerRow ==
    ASSUME LeaseInv, SchedulerPass \/ SchedulerPassRaises,
           NEW k \in Keys, table[k] # None
    PROVE  table'[k] # None /\ table'[k].attempts \in {0, table[k].attempts}
<1> DEFINE r == [table[k] EXCEPT !.attempts = 0, !.wait = 0, !.idle = 0]
<1>1. r \in Row /\ r.attempts = 0
  <2>1. table[k] \in Row /\ 0 \in 0 .. RecoverAfter + 1
      BY TimesAssumption DEF LeaseInv, TypeInv, TypeOK
  <2> QED BY <2>1 DEF Row
<1>2. Enqueued(Due)[k] = table[k]
    BY DEF Enqueued, Queued
<1>3. Revived(Enqueued(Due))[k] \in {r, table[k]}
    BY <1>2 DEF Revived
<1>4. table'[k] \in {r, table[k]}
    BY <1>2, <1>3 DEF SchedulerPass, SchedulerPassRaises
<1> HIDE DEF r
<1> QED BY <1>1, <1>4, NoneIsNoRow

LEMMA TickRow ==
    ASSUME LeaseInv, Tick, NEW k \in Keys, table[k] # None
    PROVE  table'[k] # None /\ table'[k].attempts = table[k].attempts
<1> DEFINE wt == IF table[k].wait > 0 THEN table[k].wait - 1 ELSE 0
           ls == IF table[k].lease >= 0 THEN table[k].lease - 1 ELSE Passed
           id == IF table[k].idle <= RecoverAfter
                 THEN table[k].idle + 1 ELSE RecoverAfter + 1
           r  == [table[k] EXCEPT !.wait = wt, !.lease = ls, !.idle = id]
<1>1. table[k] \in Row
    BY DEF LeaseInv, TypeInv, TypeOK
<1>2. /\ wt \in Nat
      /\ ls \in Nat \cup {Passed}
      /\ id \in 0 .. RecoverAfter + 1
    BY <1>1, TimesAssumption DEF Row, Passed
<1> HIDE DEF wt, ls, id
<1>3. r \in Row /\ r.attempts = table[k].attempts
    BY <1>1, <1>2 DEF Row
<1>4. table'[k] = r
    BY DEF Tick, wt, ls, id
<1> HIDE DEF r
<1> QED BY <1>3, <1>4, NoneIsNoRow

LEMMA DeletedRow ==
    ASSUME LeaseInv, NEW w \in Workers, DeleteTask(w),
           NEW k \in Keys, table[k] # None, k # key[w]
    PROVE  table'[k] # None /\ table'[k].attempts = table[k].attempts
<1> DEFINE r == [table[k] EXCEPT !.older = @ \ {key[w]}]
<1>1. r \in Row /\ r.attempts = table[k].attempts
    BY DEF Row, LeaseInv, TypeInv, TypeOK
<1>2. table'[k] \in {r, table[k]}
    BY DEF DeleteTask, Without
<1> HIDE DEF r
<1> QED BY <1>1, <1>2, NoneIsNoRow

\* As long as no claim outlives its lease, a row leaves the table only when no
\* other worker is at work on it (DeleteSettles), although a delete looks at the
\* id alone (worker.py:86-91).
THEOREM DeletesSettle ==
    ASSUME NoOverrun
    PROVE  Spec => DeleteSettles
<1> DEFINE Settled(k) == table'[k] = None => \A w \in Workers : key'[w] # k
<1>1. ASSUME LeaseInv, [Next]_vars, NEW k \in Queued, table'[k] = None
      PROVE  \A w \in Workers : key'[w] # k
  <2>1. k \in Keys /\ table[k] # None
      BY DEF Queued
  <2>2. PICK w \in Workers : DeleteTask(w) /\ k = key[w]
      BY <1>1, <2>1, FailureRow, WorkerRow, SchedulerRow, TickRow, DeletedRow
      DEF Next, Worker, Finalise, Crash, vars
  <2>3. key' = [key EXCEPT ![w] = None]
      BY <2>2 DEF DeleteTask, Idle
  <2>4. \A v \in Workers : v # w => key[v] # k
      BY <1>1, <2>1, <2>2, HolderIsAlone, NoneAssumption
  <2> QED BY <1>1, <2>1, <2>3, <2>4, NoneAssumption
      DEF LeaseInv, TypeInv, TypeOK
<1>2. LeaseInv /\ [Next]_vars => [\A k \in Queued : Settled(k)]_vars
    BY <1>1
<1> QED BY <1>2, LeaseInvariant, PTL DEF DeleteSettles, Spec

\* As long as no claim outlives its lease, no task fails more often than
\* max_attempts allows (AttemptsBounded), although the filter of the claim and
\* the count are in different transactions (worker.py:44-74,111-129).
THEOREM AttemptsStayBounded ==
    ASSUME NoOverrun
    PROVE  Spec => []AttemptsBounded
<1>1. Init => AttemptsBounded
    BY DEF Init, AttemptsBounded, Queued
<1>2. ASSUME LeaseInv, AttemptsBounded, [Next]_vars,
             NEW k \in Keys, table'[k] # None
      PROVE  table'[k].attempts <= MaxAttempts
  <2>1. CASE table[k] = None
    <3>1. table'[k] = NewRow
      <4>1. CASE \E w \in Workers : RecordThrottle(w) \/ WriteFailure(w)
          BY <1>2, <2>1, <4>1
          DEF RecordThrottle, WriteFailure, Released, LeaseInv, HoldsLease,
              TypeInv, TypeOK, Busy
      <4>2. CASE \E w \in Workers : Claim(w)
          BY <1>2, <2>1, <4>2
          DEF Claim, First, Claimable, LeaseInv, TypeInv, TypeOK
      <4>3. CASE \E w \in Workers :
                     \/ HandlerCommits(w) \/ HandlerRaises(w) \/ DeleteTask(w)
                     \/ DeleteRaises(w) \/ ReadAttempts(w) \/ FinaliseRaises(w)
          BY <1>2, <2>1, <4>3
          DEF HandlerCommits, HandlerRaises, DeleteTask, DeleteRaises,
              ReadAttempts, FinaliseRaises, Enqueued, Without, Queued
      <4>4. CASE SchedulerPass \/ SchedulerPassRaises
        <5>1. Enqueued(Due)[k] \in {None, NewRow}
            BY <2>1 DEF Enqueued, Queued
        <5>2. NewRow.attempts = 0
            BY DEF NewRow
        <5>3. Revived(Enqueued(Due))[k] \in {None, NewRow}
            BY <5>1, <5>2, TimesAssumption DEF Revived
        <5> QED BY <1>2, <2>1, <4>4, <5>1, <5>3 DEF SchedulerPass, SchedulerPassRaises
      <4>5. CASE Crash \/ Tick \/ UNCHANGED vars
          BY <1>2, <2>1, <4>5 DEF Crash, Tick, vars
      <4> QED BY <1>2, <4>1, <4>2, <4>3, <4>4, <4>5 DEF Next, Worker, Finalise
    <3> QED BY <3>1, TimesAssumption DEF NewRow
  <2>2. CASE table[k] # None
    <3>1. table[k].attempts \in Nat /\ table[k].attempts <= MaxAttempts
        BY <1>2, <2>2 DEF AttemptsBounded, Queued, LeaseInv, TypeInv, TypeOK, Row
    <3>2. ASSUME NEW w \in Workers, RecordThrottle(w) \/ WriteFailure(w)
          PROVE  table'[k].attempts <= MaxAttempts
      <4>1. key[w] # None
          BY <1>2, <3>2 DEF RecordThrottle, WriteFailure, LeaseInv, TypeInv,
                            TypeOK, Busy
      <4>2. k = key[w] => table[k].attempts < MaxAttempts
          BY <1>2, <4>1 DEF LeaseInv, CountHeld
      <4> QED BY <1>2, <2>2, <3>1, <3>2, <4>2, FailureRow, TimesAssumption
    <3>3. ASSUME NEW w \in Workers, DeleteTask(w)
          PROVE  table'[k].attempts <= MaxAttempts
      <4>1. k # key[w]
          BY <1>2, <3>3 DEF DeleteTask, Without, LeaseInv, HoldsLease, TypeInv,
                            TypeOK, Busy
      <4> QED BY <1>2, <2>2, <3>1, <3>3, <4>1, DeletedRow
    <3>4. CASE Crash \/ UNCHANGED vars
        BY <3>1, <3>4 DEF Crash, vars
    <3> QED BY <1>2, <2>2, <3>1, <3>2, <3>3, <3>4, WorkerRow, SchedulerRow,
               TickRow, TimesAssumption DEF Next, Worker, Finalise
  <2> QED BY <2>1, <2>2
<1>3. LeaseInv /\ AttemptsBounded /\ [Next]_vars => AttemptsBounded'
    BY <1>2 DEF AttemptsBounded, Queued
<1> QED BY <1>1, <1>3, LeaseInvariant, PTL DEF Spec

-----------------------------------------------------------------------------
(* Counting failures.                                                        *)

\* As long as no claim outlives its lease, every failure that is recorded adds
\* exactly one to the count (FailureCounted): between the read of attempts and
\* the UPDATE nobody else changes it (worker.py:111-129).
THEOREM FailuresCounted ==
    ASSUME NoOverrun
    PROVE  Spec => FailureCounted
<1> DEFINE Counted(w) ==
      pc[w] = "counting" /\ pc'[w] = "idle" /\ table' # table =>
          table'[key[w]].attempts = table[key[w]].attempts + 1
<1>1. ASSUME LeaseInv, NEW w \in Workers, WriteFailure(w)
      PROVE  table'[key[w]].attempts = table[key[w]].attempts + 1
  <2>1. /\ key[w] \in Keys /\ ~gone[w] /\ table[key[w]] # None
        /\ seen[w] = table[key[w]].attempts
    <3>1. pc[w] = "counting"
        BY <1>1 DEF WriteFailure
    <3> QED BY <3>1, <1>1 DEF LeaseInv, HoldsLease, CountHeld, TypeInv, TypeOK
  <2>2. table[key[w]] \in Row
      BY <1>1, <2>1 DEF LeaseInv, TypeInv, TypeOK
  <2> DEFINE a == seen[w] + 1
             d == Left(w, IF a >= MaxAttempts THEN Park ELSE Backoff(a))
             r == [table[key[w]] EXCEPT
                     !.attempts = a, !.wait = d, !.holder = None,
                     !.lease = Passed,
                     !.idle = IF age[w] > RecoverAfter
                              THEN RecoverAfter + 1 ELSE age[w]]
  <2>3. table' = [table EXCEPT ![key[w]] = r]
      BY <1>1, <2>1 DEF WriteFailure, Released
  <2> HIDE DEF a, d
  <2>4. r.attempts = a
      BY <2>2 DEF Row
  <2> HIDE DEF r
  <2>5. table'[key[w]] = r
      BY <1>1, <2>1, <2>3 DEF LeaseInv, TypeInv, TypeOK
  <2> QED BY <2>1, <2>4, <2>5 DEF a
<1>2. ASSUME LeaseInv, [Next]_vars, NEW w \in Workers,
             pc[w] = "counting", pc'[w] = "idle", table' # table
      PROVE  WriteFailure(w)
  <2>1. ASSUME NEW v \in Workers, Worker(v)
        PROVE  WriteFailure(w)
    <3>1. \/ \E x : pc' = [pc EXCEPT ![v] = x]
          \/ pc' = pc
        BY <2>1
        DEF Worker, Finalise, Claim, HandlerCommits, HandlerRaises, DeleteTask,
            DeleteRaises, RecordThrottle, ReadAttempts, WriteFailure,
            FinaliseRaises, Idle
    <3>2. v = w
      <4>1. pc'[w] # pc[w] /\ pc \in [Workers -> Busy \cup {"idle"}]
          BY <1>2 DEF LeaseInv, TypeInv, TypeOK
      <4> QED BY <3>1, <4>1
    <3> QED BY <1>2, <2>1, <3>2
        DEF Worker, Finalise, Claim, HandlerCommits, HandlerRaises, DeleteTask,
            DeleteRaises, RecordThrottle, ReadAttempts, FinaliseRaises
  <2> QED BY <1>2, <2>1
      DEF Next, SchedulerPass, SchedulerPassRaises, Crash, Tick, vars
<1>3. LeaseInv /\ [Next]_vars => [\A w \in Workers : Counted(w)]_vars
    BY <1>1, <1>2
<1> QED BY <1>3, LeaseInvariant, PTL DEF FailureCounted, Spec

-----------------------------------------------------------------------------
(* The refinement of CrawlWork.  A lease is what makes `no other worker has   *)
(* the key' of CrawlWork's Begin true, and HoldsLease what makes the delete   *)
(* one of the worker's own row.                                               *)

Done == {w \in Workers : pc[w] = "succeeded"}

mapped == <<Queued, key, Done>>

\* No step that leaves the keys of the table alone asks for or drops a task.
LEMMA SameQueue ==
    ASSUME \A k \in Keys : table'[k] = None <=> table[k] = None
    PROVE  Queued' = Queued
BY DEF Queued

\* Only an insert adds a row, only where there is none.
LEMMA EnqueuedRows ==
    ASSUME NEW S, NEW k \in Keys
    PROVE  Enqueued(S)[k] = None <=> table[k] = None /\ k \notin S
<1>1. NewRow # None
    BY NewRowType, NoneIsNoRow
<1> QED BY <1>1 DEF Enqueued, Queued

LEMMA RevivedRows ==
    ASSUME NEW t \in [Keys -> Row \cup {None}], NEW k \in Keys
    PROVE  Revived(t)[k] = None <=> t[k] = None
<1> SUFFICES ASSUME t[k] # None
             PROVE  [t[k] EXCEPT !.attempts = 0, !.wait = 0, !.idle = 0] # None
    BY DEF Revived
<1>1. t[k] \in Row /\ 0 \in 0 .. RecoverAfter + 1
    BY TimesAssumption
<1>2. [t[k] EXCEPT !.attempts = 0, !.wait = 0, !.idle = 0] \in Row
    BY <1>1 DEF Row
<1> QED BY <1>2, NoneIsNoRow

LEMMA RefinesInit == Init => CW!Init
BY DEF Init, CW!Init, Queued

LEMMA RefinesClaim ==
    ASSUME NoOverrun, LeaseInv, NEW w \in Workers, Claim(w)
    PROVE  CW!Begin(w)
<1>1. PICK k \in Keys :
        /\ Claimable(k)
        /\ table' = [table EXCEPT ![k] = [@ EXCEPT !.holder = w, !.lease = Lease]]
        /\ key' = [key EXCEPT ![w] = k]
    BY DEF Claim, First
<1>2. k \in Queued /\ \A v \in Workers : key[v] # k
    BY <1>1, HeldNotClaimable, NoneAssumption DEF Claimable, Queued
<1>3. key[w] = None
    BY DEF Claim, LeaseInv, TypeInv, TypeOK
<1>4. Queued' = Queued
  <2>1. \A j \in Keys : table[j] # None => table'[j] # None
      BY WorkerRow
  <2>2. \A j \in Keys : j # k => table'[j] = table[j]
      BY <1>1 DEF LeaseInv, TypeInv, TypeOK
  <2> QED BY <1>2, <2>1, <2>2, SameQueue DEF Queued
<1>5. Done' = Done
    BY DEF Claim, Done, LeaseInv, TypeInv, TypeOK
<1> QED BY <1>1, <1>2, <1>3, <1>4, <1>5 DEF CW!Begin, Done

LEMMA RefinesCommit ==
    ASSUME LeaseInv, NEW w \in Workers, HandlerCommits(w)
    PROVE  CW!Finish(w)
<1>1. PICK S \in SUBSET Children[key[w]] : table' = Enqueued(S)
    BY DEF HandlerCommits
<1>2. key[w] \in Handled /\ S \subseteq Keys
    BY KeysAssumption DEF HandlerCommits
<1>3. Queued' = Queued \cup S
    BY <1>1, <1>2, EnqueuedRows DEF Queued
<1>4. Done' = Done \cup {w}
    BY DEF HandlerCommits, Done, LeaseInv, TypeInv, TypeOK
<1>5. UNCHANGED key
    BY DEF HandlerCommits
<1> QED BY <1>2, <1>3, <1>4, <1>5 DEF CW!Finish, Done

LEMMA RefinesDelete ==
    ASSUME LeaseInv, NEW w \in Workers, DeleteTask(w)
    PROVE  CW!Complete(w)
<1>1. key[w] \in Keys /\ key[w] # None /\ ~gone[w]
    BY DEF DeleteTask, LeaseInv, HoldsLease, TypeInv, TypeOK, Busy
<1>2. w \in Done \/ key[w] \notin Handled
    BY DEF DeleteTask, Done
<1>3. Queued' = Queued \ {key[w]}
  <2>1. table' = Without(key[w])
      BY <1>1 DEF DeleteTask
  <2>2. \A k \in Keys : k = key[w] \/ table[k] = None => table'[k] = None
      BY <2>1 DEF Without
  <2>3. \A k \in Keys : k # key[w] /\ table[k] # None => table'[k] # None
      BY DeletedRow
  <2> QED BY <2>2, <2>3 DEF Queued
<1>4. key' = [key EXCEPT ![w] = None] /\ Done' = Done \ {w}
    BY DEF DeleteTask, Idle, Done, LeaseInv, TypeInv, TypeOK
<1> QED BY <1>1, <1>2, <1>3, <1>4 DEF CW!Complete, Done

\* A worker that gives its task up goes back to its loop, and the row stays.
LEMMA RefinesGiveUp ==
    ASSUME LeaseInv, NEW w \in Workers,
           RecordThrottle(w) \/ WriteFailure(w) \/ FinaliseRaises(w)
    PROVE  CW!Abandon
<1>1. key[w] \in Keys /\ key[w] # None /\ ~gone[w] /\ Idle(w)
    BY DEF RecordThrottle, WriteFailure, FinaliseRaises,
           LeaseInv, HoldsLease, TypeInv, TypeOK, Busy
<1>2. \A k \in Keys : table[k] # None => table'[k] # None
    BY FailureRow, WorkerRow
<1>3. \A k \in Keys : k # key[w] => table'[k] = table[k]
  <2>1. CASE RecordThrottle(w)
      BY <2>1 DEF RecordThrottle, Released, LeaseInv, TypeInv, TypeOK
  <2>2. CASE WriteFailure(w)
      BY <2>2 DEF WriteFailure, Released, LeaseInv, TypeInv, TypeOK
  <2>3. CASE FinaliseRaises(w)
      BY <2>3 DEF FinaliseRaises
  <2> QED BY <2>1, <2>2, <2>3
<1>4. Queued' = Queued
  <2>1. table[key[w]] # None
      BY <1>1 DEF LeaseInv, HoldsLease
  <2> QED BY <1>2, <1>3, <2>1, SameQueue
<1>5. key' = [v \in Workers |-> IF v \in {w} THEN None ELSE key[v]]
    BY <1>1 DEF Idle, LeaseInv, TypeInv, TypeOK
<1>6. Done' = Done \ {w}
    BY <1>1 DEF Idle, Done, LeaseInv, TypeInv, TypeOK
<1> QED BY <1>4, <1>5, <1>6 DEF CW!Abandon, Done

\* A handler that raises and the read of the count stay with the task.
LEMMA RefinesOther ==
    ASSUME LeaseInv, NEW w \in Workers,
           HandlerRaises(w) \/ DeleteRaises(w) \/ ReadAttempts(w)
    PROVE  CW!Forget(w) \/ UNCHANGED mapped
<1>1. UNCHANGED <<table, key>>
  <2>1. CASE ReadAttempts(w)
    <3>1. ~gone[w]
        BY <2>1 DEF ReadAttempts, LeaseInv, HoldsLease, TypeInv, TypeOK, Busy
    <3> QED BY <2>1, <3>1 DEF ReadAttempts
  <2> QED BY <2>1 DEF HandlerRaises, DeleteRaises
<1>2. Queued' = Queued
    BY <1>1, SameQueue
<1>3. CASE DeleteRaises(w)
  <2>1. Done' = Done \ {w}
      BY <1>3 DEF DeleteRaises, Done, LeaseInv, TypeInv, TypeOK
  <2> QED BY <1>1, <1>2, <2>1 DEF CW!Forget, Done
<1>4. CASE HandlerRaises(w) \/ ReadAttempts(w)
  <2>1. Done' = Done
    <3>1. CASE HandlerRaises(w)
        BY <3>1 DEF HandlerRaises, Done, LeaseInv, TypeInv, TypeOK
    <3>2. CASE ReadAttempts(w)
      <4>1. ~gone[w]
          BY <3>2 DEF ReadAttempts, LeaseInv, HoldsLease, TypeInv, TypeOK, Busy
      <4> QED BY <3>2, <4>1 DEF ReadAttempts, Done, LeaseInv, TypeInv, TypeOK
    <3> QED BY <1>4, <3>1, <3>2
  <2> QED BY <1>1, <1>2, <2>1 DEF mapped
<1> QED BY <1>3, <1>4

LEMMA RefinesScheduler ==
    ASSUME LeaseInv, SchedulerPass \/ SchedulerPassRaises
    PROVE  CW!Request \/ UNCHANGED mapped
<1>1. UNCHANGED <<pc, key>>
    BY DEF SchedulerPass, SchedulerPassRaises
<1>2. Done' = Done
    BY <1>1 DEF Done
<1>3. CASE SchedulerPass
  <2>1. Due \subseteq Keys
      BY KeysAssumption DEF Due, Recurring
  <2>2. Enqueued(Due) \in [Keys -> Row \cup {None}]
      BY EnqueuedType DEF LeaseInv, TypeInv
  <2>3. table' = IF RecoveryDue THEN Revived(Enqueued(Due)) ELSE Enqueued(Due)
      BY <1>3 DEF SchedulerPass
  <2>4. \A k \in Keys : table'[k] = None <=> Enqueued(Due)[k] = None
      BY <2>2, <2>3, RevivedRows
  <2>5. Queued' = Queued \cup Due
      BY <2>1, <2>4, EnqueuedRows DEF Queued
  <2> QED BY <1>1, <1>2, <2>1, <2>5 DEF CW!Request, Done
<1>4. CASE SchedulerPassRaises
  <2>1. Queued' = Queued
      BY <1>4, SameQueue DEF SchedulerPassRaises
  <2> QED BY <1>1, <1>2, <2>1 DEF mapped
<1> QED BY <1>3, <1>4

LEMMA RefinesStep ==
    ASSUME NoOverrun, LeaseInv, [Next]_vars
    PROVE  [CW!Next]_mapped
<1>1. ASSUME NEW w \in Workers, Worker(w)
      PROVE  [CW!Next]_mapped
    BY <1>1, RefinesClaim, RefinesCommit, RefinesDelete, RefinesGiveUp,
       RefinesOther DEF Worker, Finalise, CW!Next
<1>2. CASE SchedulerPass \/ SchedulerPassRaises
    BY <1>2, RefinesScheduler DEF CW!Next
<1>3. CASE Crash
  <2>1. Queued' = Queued
      BY <1>3, SameQueue DEF Crash
  <2>2. key' = [v \in Workers |-> IF v \in Workers THEN None ELSE key[v]]
      BY <1>3 DEF Crash
  <2>3. Done' = Done \ Workers
      BY <1>3 DEF Crash, Done
  <2>4. CW!Abandon
      BY <2>1, <2>2, <2>3 DEF CW!Abandon, Done
  <2> QED BY <2>4 DEF CW!Next
<1>4. CASE Tick
  <2>1. UNCHANGED <<pc, key>>
      BY <1>4 DEF Tick
  <2>2. \A k \in Keys : table[k] # None => table'[k] # None
      BY <1>4, TickRow
  <2>3. \A k \in Keys : table[k] = None => table'[k] = None
      BY <1>4 DEF Tick
  <2>4. Queued' = Queued
      BY <2>2, <2>3, SameQueue
  <2> QED BY <2>1, <2>4 DEF mapped, Done
<1>5. CASE UNCHANGED vars
    BY <1>5 DEF vars, mapped, Queued, Done
<1> QED BY <1>1, <1>2, <1>3, <1>4, <1>5 DEF Next

\* As long as no claim outlives its lease, the queue keeps the promise of
\* CrawlWork (ImplementsCrawlWork): over leases, retries, recoveries and crashes
\* a key that was asked for stays wanted until one worker, alone, has committed
\* its handler for it (worker.py:41-130, scheduler.py:42-91).
THEOREM QueueImplementsCrawlWork ==
    ASSUME NoOverrun
    PROVE  Spec => ImplementsCrawlWork
<1>1. LeaseInv /\ [Next]_vars
        => [CW!Next]_<<Queued, key, {w \in Workers : pc[w] = "succeeded"}>>
    BY RefinesStep DEF mapped, Done
<1> QED BY <1>1, RefinesInit, LeaseInvariant, PTL
        DEF Spec, ImplementsCrawlWork, CW!Spec, CW!vars

-----------------------------------------------------------------------------
(* The count when a claim may outlive its lease: two workers may be at work   *)
(* on one row, and each finalises it by its own reading.  AttemptsOverrunByOne *)
(* holds because a worker that can still count on a row has read less than    *)
(* the limit, or is the only one left; while two are on it neither has        *)
(* reached the limit.                                                         *)

Holds(w) == key[w] # None /\ ~gone[w]

\* What a worker with this age, pc and reading may still do to its row r.
CountSafe(r, a, p, s) ==
    /\ r.attempts <= MaxAttempts
    /\ r.attempts = MaxAttempts => r.idle <= HandlerMax + a
    /\ p = "counting" => \/ s < MaxAttempts
                         \/ s = MaxAttempts /\ r.attempts = MaxAttempts

HeldCount == \A w \in Workers :
    Holds(w) => CountSafe(table[key[w]], age[w], pc[w], seen[w])

SharedCount == \A v, w \in Workers :
    v # w /\ Holds(v) /\ Holds(w) /\ key[v] = key[w] =>
        /\ table[key[v]].attempts < MaxAttempts
        /\ pc[v] = "counting" => seen[v] < MaxAttempts

Counts == AttemptsOverrunByOne /\ HeldCount /\ SharedCount

OverrunInv == TypeInv /\ Counts

LEMMA HolderTypes ==
    ASSUME TypeInv, NEW w \in Workers, Holds(w)
    PROVE  /\ key[w] \in Keys /\ table[key[w]] # None /\ table[key[w]] \in Row
           /\ table[key[w]].attempts \in Nat
           /\ table[key[w]].idle \in Nat
           /\ age[w] \in Nat /\ age[w] <= HandlerMax
           /\ seen[w] \in Nat
<1>1. key[w] \in Keys /\ table[key[w]] # None /\ table[key[w]] \in Row
    BY DEF Holds, TypeInv, TypeOK, RowFound
<1>2. table[key[w]].attempts \in Nat /\ table[key[w]].idle \in 0 .. RecoverAfter + 1
    BY <1>1 DEF Row
<1>3. age[w] \in 0 .. HandlerMax /\ seen[w] \in Nat
    BY DEF TypeInv, TypeOK
<1> QED BY <1>1, <1>2, <1>3, TimesAssumption

LEMMA RowTypes ==
    ASSUME TypeInv, NEW k \in Keys, table[k] # None
    PROVE  /\ table[k] \in Row
           /\ table[k].attempts \in Nat
           /\ table[k].idle \in Nat
<1>1. table[k] \in Row
    BY DEF TypeInv, TypeOK
<1>2. table[k].attempts \in Nat /\ table[k].idle \in 0 .. RecoverAfter + 1
    BY <1>1 DEF Row
<1> QED BY <1>1, <1>2, TimesAssumption

\* A worker's end of its task, as the other one sees it: the rows are as they
\* were, but the worker's own may have a new count.
LEMMA OverrunFinalise ==
    ASSUME TwoWorkers, OverrunInv, TypeInv', NEW w \in Workers,
           key[w] # None, Idle(w),
           \A v \in Workers : v # w /\ gone[v] => gone'[v],
           \A k \in Keys : table'[k] # None =>
             \/ /\ table[k] # None
                /\ table'[k].attempts = table[k].attempts
                /\ table'[k].idle = table[k].idle
             \/ /\ k = key[w] /\ ~gone[w]
                /\ table'[k].attempts <= MaxAttempts + 1
                /\ table'[k].idle <= HandlerMax
                /\ \A v \in Workers : v # w /\ Holds(v) /\ key[v] = k =>
                     table'[k].attempts <= MaxAttempts
    PROVE  Counts'
<1>1. key'[w] = None
    BY DEF Idle, OverrunInv, TypeInv, TypeOK
<1>2. ASSUME NEW v \in Workers, key'[v] # None, ~gone'[v]
      PROVE  /\ v # w /\ Holds(v)
             /\ UNCHANGED <<key[v], age[v], pc[v], seen[v]>>
             /\ key[v] \in Keys /\ table'[key[v]] # None
  <2>1. v # w /\ UNCHANGED <<key[v], age[v], pc[v], seen[v]>>
      BY <1>1, <1>2 DEF Idle, OverrunInv, TypeInv, TypeOK
  <2>2. Holds(v)
      BY <1>2, <2>1 DEF Holds, OverrunInv, TypeInv, TypeOK
  <2>3. key[v] \in Keys
      BY <2>2, HolderTypes DEF OverrunInv
  <2>4. table'[key[v]] # None
      BY <1>2, <2>1 DEF TypeInv, RowFound
  <2> QED BY <2>1, <2>2, <2>3, <2>4
<1>3. ASSUME NEW k \in Keys, table'[k] # None
      PROVE  table'[k].attempts < MaxAttempts + 2
  <2>1. CASE table[k] # None /\ table'[k].attempts = table[k].attempts
      BY <2>1 DEF OverrunInv, Counts, AttemptsOverrunByOne, AttemptsOverrun, Queued
  <2>2. CASE table'[k].attempts <= MaxAttempts + 1
    <3>1. table'[k].attempts \in Nat
      <4>1. table'[k] \in Row
          BY <1>3 DEF TypeInv, TypeOK
      <4> QED BY <4>1 DEF Row
    <3> QED BY <2>2, <3>1, TimesAssumption
  <2> QED BY <1>3, <2>1, <2>2
<1>4. ASSUME NEW v \in Workers, key'[v] # None, ~gone'[v]
      PROVE  CountSafe(table'[key'[v]], age'[v], pc'[v], seen'[v])
  <2> DEFINE k == key[v]
  <2>1. /\ v # w /\ Holds(v) /\ k \in Keys /\ table'[k] # None
        /\ UNCHANGED <<key[v], age[v], pc[v], seen[v]>>
      BY <1>2, <1>4
  <2>2. CountSafe(table[k], age[v], pc[v], seen[v])
      BY <2>1 DEF OverrunInv, Counts, HeldCount
  <2>3. CASE table'[k].attempts = table[k].attempts /\ table'[k].idle = table[k].idle
      BY <2>1, <2>2, <2>3 DEF CountSafe
  <2>4. CASE /\ k = key[w] /\ ~gone[w] /\ table'[k].idle <= HandlerMax
             /\ table'[k].attempts <= MaxAttempts
    <3>1. pc[v] = "counting" => seen[v] < MaxAttempts
        BY <2>1, <2>4 DEF OverrunInv, Counts, SharedCount, Holds
    <3>2. age[v] \in Nat /\ table'[k].idle \in Nat
      <4>1. table'[k] \in Row
          BY <2>1 DEF TypeInv, TypeOK
      <4>2. table'[k].idle \in 0 .. RecoverAfter + 1
          BY <4>1 DEF Row
      <4> QED BY <2>1, <4>2, HolderTypes, TimesAssumption DEF OverrunInv
    <3>3. table'[k].idle <= HandlerMax + age[v]
        BY <2>4, <3>2, TimesAssumption
    <3> QED BY <2>1, <2>4, <3>1, <3>3 DEF CountSafe
  <2> HIDE DEF k
  <2> QED BY <2>1, <2>3, <2>4 DEF k
<1>5. SharedCount'
    BY <1>2 DEF SharedCount, Holds, TwoWorkers
<1>6. HeldCount'
    BY <1>4 DEF HeldCount, Holds
<1>7. AttemptsOverrunByOne'
    BY <1>3 DEF AttemptsOverrunByOne, AttemptsOverrun, Queued
<1> QED BY <1>5, <1>6, <1>7 DEF Counts

\* A step that starts or ends no claim: the workers keep their tasks, and a
\* held row keeps its count and gets no older than its worker.
LEMMA OverrunKeeps ==
    ASSUME OverrunInv, TypeInv', UNCHANGED <<key, gone>>,
           \A v \in Workers : Holds(v) =>
             /\ table'[key[v]].attempts = table[key[v]].attempts
             /\ table'[key[v]].attempts = MaxAttempts =>
                  table'[key[v]].idle - age'[v] <= table[key[v]].idle - age[v]
             /\ pc'[v] = "counting" =>
                  \/ pc[v] = "counting" /\ seen'[v] = seen[v]
                  \/ seen'[v] = table[key[v]].attempts,
           \A k \in Keys : table'[k] # None =>
             \/ table'[k].attempts = 0
             \/ table[k] # None /\ table'[k].attempts = table[k].attempts
    PROVE  Counts'
<1>1. ASSUME NEW v \in Workers, Holds(v)
      PROVE  CountSafe(table'[key[v]], age'[v], pc'[v], seen'[v])
  <2> DEFINE k == key[v]
  <2>1. CountSafe(table[k], age[v], pc[v], seen[v])
      BY <1>1 DEF OverrunInv, Counts, HeldCount
  <2>2. /\ table[k].attempts \in Nat /\ table[k].idle \in Nat
        /\ age[v] \in Nat /\ seen[v] \in Nat
      BY <1>1, HolderTypes DEF OverrunInv
  <2>3. table'[k].attempts \in Nat /\ table'[k].idle \in Nat /\ age'[v] \in Nat
    <3>1. k \in Keys /\ table'[k] # None /\ table'[k] \in Row
        BY <1>1, HolderTypes DEF OverrunInv, TypeInv, TypeOK, RowFound, Holds
    <3>2. table'[k].idle \in 0 .. RecoverAfter + 1 /\ table'[k].attempts \in Nat
        BY <3>1 DEF Row
    <3>3. age'[v] \in 0 .. HandlerMax
        BY DEF TypeInv, TypeOK
    <3> QED BY <3>2, <3>3, TimesAssumption
  <2>4. table'[k].attempts = table[k].attempts
      BY <1>1
  <2>5. pc'[v] = "counting" => \/ seen'[v] < MaxAttempts
                               \/ seen'[v] = MaxAttempts /\ table[k].attempts = MaxAttempts
      BY <1>1, <2>1, <2>2, TimesAssumption DEF CountSafe
  <2>6. ASSUME table'[k].attempts = MaxAttempts
        PROVE  table'[k].idle <= HandlerMax + age'[v]
    <3>1. table[k].idle <= HandlerMax + age[v]
        BY <2>1, <2>4, <2>6 DEF CountSafe
    <3>2. table'[k].idle - age'[v] <= table[k].idle - age[v]
        BY <1>1, <2>6
    <3> QED BY <2>2, <2>3, <3>1, <3>2, TimesAssumption
  <2>7. table'[k].attempts <= MaxAttempts
      BY <2>1, <2>4 DEF CountSafe
  <2> HIDE DEF k
  <2>8. CountSafe(table'[k], age'[v], pc'[v], seen'[v])
      BY <2>4, <2>5, <2>6, <2>7 DEF CountSafe
  <2> QED BY <2>8 DEF k
<1>2. HeldCount'
    BY <1>1 DEF HeldCount, Holds
<1>3. SharedCount'
  <2> SUFFICES ASSUME NEW v \in Workers, NEW w \in Workers,
                      v # w, Holds(v), Holds(w), key[v] = key[w]
               PROVE  /\ table'[key[v]].attempts < MaxAttempts
                      /\ pc'[v] = "counting" => seen'[v] < MaxAttempts
      BY DEF SharedCount, Holds
  <2>1. /\ table[key[v]].attempts < MaxAttempts
        /\ pc[v] = "counting" => seen[v] < MaxAttempts
      BY DEF OverrunInv, Counts, SharedCount
  <2>2. table'[key[v]].attempts = table[key[v]].attempts
      OBVIOUS
  <2>3. pc'[v] = "counting" => \/ pc[v] = "counting" /\ seen'[v] = seen[v]
                               \/ seen'[v] = table[key[v]].attempts
      OBVIOUS
  <2> QED BY <2>1, <2>2, <2>3
<1>4. AttemptsOverrunByOne'
    BY TimesAssumption
    DEF OverrunInv, Counts, AttemptsOverrunByOne, AttemptsOverrun, Queued
<1> QED BY <1>2, <1>3, <1>4 DEF Counts

LEMMA OverrunClaim ==
    ASSUME TwoWorkers, OverrunInv, TypeInv', NEW w \in Workers, Claim(w)
    PROVE  Counts'
<1>1. PICK k \in Keys :
        /\ Claimable(k)
        /\ table' = [table EXCEPT ![k] = [@ EXCEPT !.holder = w, !.lease = Lease]]
        /\ key' = [key EXCEPT ![w] = k]
    BY DEF Claim, First
<1>2. /\ table[k] # None /\ table[k].attempts < MaxAttempts /\ table[k] \in Row
      /\ table[k].attempts \in Nat
    BY <1>1, RowTypes DEF OverrunInv, Claimable
<1> DEFINE r == [table[k] EXCEPT !.holder = w, !.lease = Lease]
<1>3. r.attempts = table[k].attempts /\ r.idle = table[k].idle
    BY <1>2 DEF Row
<1>4. table' = [table EXCEPT ![k] = r]
    BY <1>1
<1> HIDE DEF r
<1>5. \A j \in Keys : table'[j] # None =>
        /\ table[j] # None
        /\ table'[j].attempts = table[j].attempts
        /\ table'[j].idle = table[j].idle
    BY <1>2, <1>3, <1>4 DEF OverrunInv, TypeInv, TypeOK
<1>6. /\ pc' = [pc EXCEPT ![w] = "running"]
      /\ gone' = [gone EXCEPT ![w] = FALSE] /\ age' = [age EXCEPT ![w] = 0]
      /\ seen' = seen
    BY DEF Claim
<1>7. key'[w] = k /\ pc'[w] = "running" /\ table'[k].attempts < MaxAttempts
    BY <1>1, <1>2, <1>3, <1>4, <1>6 DEF OverrunInv, TypeInv, TypeOK
<1>8. ASSUME NEW v \in Workers, v # w, key'[v] # None, ~gone'[v]
      PROVE  /\ Holds(v) /\ UNCHANGED <<key[v], gone[v], age[v], pc[v], seen[v]>>
             /\ key[v] \in Keys /\ table'[key[v]] # None
             /\ CountSafe(table'[key[v]], age[v], pc[v], seen[v])
  <2>1. UNCHANGED <<key[v], gone[v], age[v], pc[v], seen[v]>>
      BY <1>1, <1>6, <1>8 DEF OverrunInv, TypeInv, TypeOK
  <2>2. Holds(v)
      BY <1>8, <2>1 DEF Holds
  <2>3. key[v] \in Keys
      BY <2>2, HolderTypes DEF OverrunInv
  <2>4. table'[key[v]] # None
      BY <1>8, <2>1 DEF TypeInv, RowFound
  <2>5. CountSafe(table[key[v]], age[v], pc[v], seen[v])
      BY <2>2 DEF OverrunInv, Counts, HeldCount
  <2> QED BY <1>5, <2>1, <2>2, <2>3, <2>4, <2>5 DEF CountSafe
<1>9. HeldCount'
  <2>1. CountSafe(table'[k], age'[w], pc'[w], seen'[w])
    <3>1. table'[k].attempts \in Nat
        BY <1>1, <1>2, <1>3, <1>4 DEF OverrunInv, TypeInv, TypeOK
    <3> QED BY <1>7, <3>1, TimesAssumption DEF CountSafe
  <2> QED BY <1>7, <1>8, <2>1 DEF HeldCount, Holds
<1>10. SharedCount'
  <2> SUFFICES ASSUME NEW u \in Workers, NEW v \in Workers, u # v,
                      key'[u] # None, ~gone'[u], key'[v] # None, ~gone'[v],
                      key'[u] = key'[v]
               PROVE  /\ table'[key'[u]].attempts < MaxAttempts
                      /\ pc'[u] = "counting" => seen'[u] < MaxAttempts
      BY DEF SharedCount, Holds
  <2>1. CASE u = w
      BY <1>7, <2>1
  <2>2. CASE v = w
    <3>1. key'[u] = k /\ table'[k].attempts < MaxAttempts
        BY <1>7, <2>2
    <3>2. /\ UNCHANGED <<key[u], pc[u], seen[u]>>
          /\ CountSafe(table'[k], age[u], pc[u], seen[u])
        BY <1>8, <2>2, <3>1
    <3> QED BY <3>1, <3>2, TimesAssumption DEF CountSafe
  <2> QED BY <2>1, <2>2 DEF TwoWorkers
<1>11. AttemptsOverrunByOne'
    BY <1>5 DEF OverrunInv, Counts, AttemptsOverrunByOne, AttemptsOverrun, Queued
<1> QED BY <1>9, <1>10, <1>11 DEF Counts

LEMMA OverrunHandler ==
    ASSUME OverrunInv, TypeInv', NEW w \in Workers,
           HandlerCommits(w) \/ HandlerRaises(w) \/ DeleteRaises(w)
    PROVE  Counts'
<1>1. UNCHANGED <<key, gone, age, seen>>
    BY DEF HandlerCommits, HandlerRaises, DeleteRaises
<1>2. \A v \in Workers : pc'[v] = "counting" => pc[v] = "counting"
    BY DEF HandlerCommits, HandlerRaises, DeleteRaises, OverrunInv, TypeInv, TypeOK
<1>3. \A k \in Keys : \/ table'[k] = table[k]
                      \/ table[k] = None /\ table'[k].attempts = 0
    BY DEF HandlerCommits, HandlerRaises, DeleteRaises, Enqueued, Queued, NewRow
<1>4. ASSUME NEW v \in Workers, Holds(v)
      PROVE  table'[key[v]] = table[key[v]] /\ table[key[v]].idle - age[v] \in Int
  <2>1. /\ key[v] \in Keys /\ table[key[v]] # None
        /\ table[key[v]].idle \in Nat /\ age[v] \in Nat
      BY <1>4, HolderTypes DEF OverrunInv
  <2> QED BY <1>3, <2>1
<1>5. \A v \in Workers : Holds(v) =>
        /\ table'[key[v]].attempts = table[key[v]].attempts
        /\ table'[key[v]].attempts = MaxAttempts =>
             table'[key[v]].idle - age'[v] <= table[key[v]].idle - age[v]
        /\ pc'[v] = "counting" => pc[v] = "counting" /\ seen'[v] = seen[v]
    BY <1>1, <1>2, <1>4
<1>6. \A k \in Keys : table'[k] # None =>
        \/ table'[k].attempts = 0
        \/ table[k] # None /\ table'[k].attempts = table[k].attempts
    BY <1>3
<1> QED BY <1>1, <1>5, <1>6, OverrunKeeps

LEMMA OverrunReadAttempts ==
    ASSUME TwoWorkers, OverrunInv, TypeInv', NEW w \in Workers, ReadAttempts(w)
    PROVE  Counts'
<1>1. key[w] # None /\ table' = table
    BY DEF ReadAttempts, OverrunInv, TypeInv, TypeOK, Busy
<1>2. CASE gone[w]
  <2>1. Idle(w) /\ gone' = [gone EXCEPT ![w] = FALSE]
      BY <1>2 DEF ReadAttempts
  <2>2. \A v \in Workers : v # w /\ gone[v] => gone'[v]
      BY <2>1 DEF OverrunInv, TypeInv, TypeOK
  <2> QED BY <1>1, <2>1, <2>2, OverrunFinalise
<1>3. CASE ~gone[w]
  <2>1. /\ UNCHANGED <<key, gone, age>>
        /\ pc' = [pc EXCEPT ![w] = "counting"]
        /\ seen' = [seen EXCEPT ![w] = table[key[w]].attempts]
      BY <1>3 DEF ReadAttempts
  <2>2. ASSUME NEW v \in Workers, Holds(v)
        PROVE  /\ table[key[v]].idle - age'[v] <= table[key[v]].idle - age[v]
               /\ pc'[v] = "counting" =>
                    \/ pc[v] = "counting" /\ seen'[v] = seen[v]
                    \/ seen'[v] = table[key[v]].attempts
    <3>1. table[key[v]].idle \in Nat /\ age[v] \in Nat
        BY <2>2, HolderTypes DEF OverrunInv
    <3> QED BY <2>1, <3>1 DEF OverrunInv, TypeInv, TypeOK
  <2> QED BY <1>1, <2>1, <2>2, OverrunKeeps
<1> QED BY <1>2, <1>3

LEMMA OverrunDelete ==
    ASSUME TwoWorkers, OverrunInv, TypeInv', NEW w \in Workers,
           DeleteTask(w) \/ FinaliseRaises(w)
    PROVE  Counts'
<1>1. key[w] # None /\ Idle(w)
    BY DEF DeleteTask, FinaliseRaises, OverrunInv, TypeInv, TypeOK, Busy
<1>2. \A v \in Workers : v # w /\ gone[v] => gone'[v]
    BY DEF DeleteTask, FinaliseRaises, OverrunInv, TypeInv, TypeOK
<1>3. ASSUME NEW k \in Keys, table'[k] # None
      PROVE  /\ table[k] # None
             /\ table'[k].attempts = table[k].attempts
             /\ table'[k].idle = table[k].idle
  <2>1. CASE table'[k] = table[k]
      BY <1>3, <2>1
  <2>2. CASE table[k] # None /\ table'[k] = [table[k] EXCEPT !.older = @ \ {key[w]}]
    <3>1. table[k] \in Row
        BY <2>2, RowTypes DEF OverrunInv
    <3> QED BY <2>2, <3>1 DEF Row
  <2> QED BY <1>3, <2>1, <2>2 DEF DeleteTask, FinaliseRaises, Without
<1> QED BY <1>1, <1>2, <1>3, OverrunFinalise

\* Both failure paths write a count that is within the limit while the other
\* worker is still on the row, and one above it at most otherwise.
LEMMA OverrunFailure ==
    ASSUME TwoWorkers, OverrunInv, TypeInv', NEW w \in Workers,
           RecordThrottle(w) \/ WriteFailure(w)
    PROVE  Counts'
<1>1. key[w] # None /\ Idle(w) /\ gone' = [gone EXCEPT ![w] = FALSE]
    BY DEF RecordThrottle, WriteFailure, OverrunInv, TypeInv, TypeOK, Busy
<1>2. \A v \in Workers : v # w /\ gone[v] => gone'[v]
    BY <1>1 DEF OverrunInv, TypeInv, TypeOK
<1>3. CASE gone[w]
  <2>1. table' = table
      BY <1>3 DEF RecordThrottle, WriteFailure, Released
  <2> QED BY <1>1, <1>2, <2>1, OverrunFinalise
<1>4. CASE ~gone[w]
  <2>1. Holds(w)
      BY <1>1, <1>4 DEF Holds
  <2>2. /\ key[w] \in Keys /\ table[key[w]] \in Row
        /\ table[key[w]].attempts \in Nat /\ seen[w] \in Nat
        /\ age[w] \in Nat /\ age[w] <= HandlerMax
      BY <2>1, HolderTypes DEF OverrunInv
  <2>3. CountSafe(table[key[w]], age[w], pc[w], seen[w])
      BY <2>1 DEF OverrunInv, Counts, HeldCount
  <2>4. PICK a, d :
          /\ table' = Released(w, a, d)
          /\ \/ a = table[key[w]].attempts + 1
             \/ pc[w] = "counting" /\ a = seen[w] + 1
      BY DEF RecordThrottle, WriteFailure
  <2>5. a \in Nat /\ a <= MaxAttempts + 1
      BY <2>2, <2>3, <2>4, TimesAssumption DEF CountSafe
  <2>6. ASSUME NEW v \in Workers, v # w, Holds(v), key[v] = key[w]
        PROVE  a <= MaxAttempts
    <3>1. /\ table[key[w]].attempts < MaxAttempts
          /\ pc[w] = "counting" => seen[w] < MaxAttempts
        BY <2>1, <2>6 DEF OverrunInv, Counts, SharedCount
    <3> QED BY <2>2, <2>4, <3>1, TimesAssumption
  <2> DEFINE idle == IF age[w] > RecoverAfter THEN RecoverAfter + 1 ELSE age[w]
             r == [table[key[w]] EXCEPT !.attempts = a, !.wait = d,
                     !.holder = None, !.lease = Passed, !.idle = idle]
  <2>7. idle <= HandlerMax
      BY <2>2, TimesAssumption
  <2>8. table' = [table EXCEPT ![key[w]] = r]
      BY <1>4, <2>4 DEF Released
  <2> HIDE DEF idle
  <2>9. r.attempts = a /\ r.idle = idle
      BY <2>2 DEF Row
  <2> HIDE DEF r
  <2>10. \A k \in Keys : k # key[w] => table'[k] = table[k]
      BY <2>8 DEF OverrunInv, TypeInv, TypeOK
  <2>11. table'[key[w]] = r
      BY <2>2, <2>8 DEF OverrunInv, TypeInv, TypeOK
  <2>12. \A k \in Keys : table'[k] # None =>
           \/ /\ table[k] # None
              /\ table'[k].attempts = table[k].attempts
              /\ table'[k].idle = table[k].idle
           \/ /\ k = key[w] /\ ~gone[w]
              /\ table'[k].attempts <= MaxAttempts + 1
              /\ table'[k].idle <= HandlerMax
              /\ \A v \in Workers : v # w /\ Holds(v) /\ key[v] = k =>
                   table'[k].attempts <= MaxAttempts
      BY <1>4, <2>5, <2>6, <2>7, <2>9, <2>10, <2>11
  <2> QED BY <1>1, <1>2, <2>12, OverrunFinalise
<1> QED BY <1>3, <1>4

\* No recovery takes a row from under a worker: it has not been parked for long
\* enough.
LEMMA OverrunScheduler ==
    ASSUME RecoversLate, OverrunInv, TypeInv',
           SchedulerPass \/ SchedulerPassRaises
    PROVE  Counts'
<1>1. UNCHANGED <<pc, key, gone, age, seen>>
    BY DEF SchedulerPass, SchedulerPassRaises
<1>2. ASSUME NEW k \in Keys
      PROVE  \/ table'[k] = table[k]
             \/ table'[k].attempts = 0 /\ table[k] = None
             \/ /\ table[k].attempts >= MaxAttempts /\ table[k].idle > RecoverAfter
                /\ table[k] # None /\ table'[k].attempts = 0
  <2>1. \/ Enqueued(Due)[k] = table[k]
        \/ table[k] = None /\ Enqueued(Due)[k] = NewRow
      BY DEF Enqueued, Queued
  <2>2. Enqueued(Due)[k] = NewRow => Revived(Enqueued(Due))[k] = NewRow
      BY TimesAssumption DEF Revived, NewRow
  <2>3. ASSUME table[k] # None, Enqueued(Due)[k] = table[k],
               Revived(Enqueued(Due))[k] # table[k]
        PROVE  /\ table[k].attempts >= MaxAttempts /\ table[k].idle > RecoverAfter
               /\ Revived(Enqueued(Due))[k].attempts = 0
    <3> DEFINE r == [table[k] EXCEPT !.attempts = 0, !.wait = 0, !.idle = 0]
    <3>1. /\ table[k].attempts >= MaxAttempts /\ table[k].idle > RecoverAfter
          /\ Revived(Enqueued(Due))[k] = r
        BY <2>3 DEF Revived
    <3>2. r.attempts = 0
        BY <2>3, RowTypes DEF OverrunInv, Row
    <3> QED BY <3>1, <3>2
  <2>4. table[k] = None /\ Enqueued(Due)[k] = None
          => Revived(Enqueued(Due))[k] = None
      BY DEF Revived
  <2>5. NewRow.attempts = 0
      BY DEF NewRow
  <2> QED BY <2>1, <2>2, <2>3, <2>4, <2>5 DEF SchedulerPass, SchedulerPassRaises
<1>3. ASSUME NEW v \in Workers, Holds(v)
      PROVE  table'[key[v]] = table[key[v]] /\ table[key[v]].idle - age[v] \in Int
  <2>1. /\ key[v] \in Keys /\ table[key[v]] # None
        /\ table[key[v]].attempts \in Nat /\ table[key[v]].idle \in Nat
        /\ age[v] \in Nat /\ age[v] <= HandlerMax
      BY <1>3, HolderTypes DEF OverrunInv
  <2>2. CountSafe(table[key[v]], age[v], pc[v], seen[v])
      BY <1>3 DEF OverrunInv, Counts, HeldCount
  <2>3. ~(table[key[v]].attempts >= MaxAttempts /\ table[key[v]].idle > RecoverAfter)
      BY <2>1, <2>2, TimesAssumption DEF CountSafe, RecoversLate
  <2> QED BY <1>2, <2>1, <2>3
<1>4. \A k \in Keys : table'[k] # None =>
        \/ table'[k].attempts = 0
        \/ table[k] # None /\ table'[k].attempts = table[k].attempts
    BY <1>2
<1> QED BY <1>1, <1>3, <1>4, OverrunKeeps

LEMMA OverrunTick ==
    ASSUME OverrunInv, TypeInv', Tick
    PROVE  Counts'
<1>1. UNCHANGED <<pc, key, gone, seen>>
    BY DEF Tick
<1>2. ASSUME NEW k \in Keys, table'[k] # None
      PROVE  /\ table[k] # None
             /\ table'[k].attempts = table[k].attempts
             /\ table'[k].idle <= table[k].idle + 1
  <2>1. table[k] # None
      BY <1>2 DEF Tick
  <2>2. table[k] \in Row /\ table[k].idle \in Nat
      BY <2>1, RowTypes DEF OverrunInv
  <2> DEFINE wt == IF table[k].wait > 0 THEN table[k].wait - 1 ELSE 0
             ls == IF table[k].lease >= 0 THEN table[k].lease - 1 ELSE Passed
             id == IF table[k].idle <= RecoverAfter
                   THEN table[k].idle + 1 ELSE RecoverAfter + 1
  <2>3. table'[k] = [table[k] EXCEPT !.wait = wt, !.lease = ls, !.idle = id]
      BY <2>1 DEF Tick
  <2>4. id <= table[k].idle + 1
      BY <2>2, TimesAssumption
  <2> HIDE DEF wt, ls, id
  <2> QED BY <2>1, <2>2, <2>3, <2>4 DEF Row
<1>3. ASSUME NEW v \in Workers, Holds(v)
      PROVE  /\ table'[key[v]].attempts = table[key[v]].attempts
             /\ table'[key[v]].idle - age'[v] <= table[key[v]].idle - age[v]
  <2>1. /\ key[v] \in Keys /\ table[key[v]].idle \in Nat
        /\ age[v] \in Nat /\ pc[v] # "idle"
      BY <1>3, HolderTypes DEF OverrunInv, Holds, TypeInv, TypeOK
  <2>2. age'[v] = age[v] + 1
      BY <2>1 DEF Tick
  <2>3. table'[key[v]] # None
      BY <1>1, <1>3 DEF Holds, TypeInv, RowFound
  <2>4. table'[key[v]].idle \in Nat
    <3>1. table'[key[v]] \in Row
        BY <2>1, <2>3 DEF TypeInv, TypeOK
    <3>2. table'[key[v]].idle \in 0 .. RecoverAfter + 1
        BY <3>1 DEF Row
    <3> QED BY <3>2, TimesAssumption
  <2>5. table'[key[v]].idle <= table[key[v]].idle + 1
      BY <1>2, <2>1, <2>3
  <2> QED BY <1>2, <2>1, <2>2, <2>3, <2>4, <2>5
<1> QED BY <1>1, <1>2, <1>3, OverrunKeeps

LEMMA OverrunStep ==
    ASSUME TwoWorkers, RecoversLate
    PROVE  OverrunInv /\ [Next]_vars => OverrunInv'
<1> SUFFICES ASSUME OverrunInv, [Next]_vars
             PROVE  OverrunInv'
    OBVIOUS
<1>1. TypeInv'
    BY TypeStep DEF OverrunInv
<1>2. ASSUME NEW w \in Workers, Worker(w)
      PROVE  Counts'
    BY <1>1, <1>2, OverrunClaim, OverrunHandler, OverrunDelete, OverrunFailure,
       OverrunReadAttempts DEF Worker, Finalise
<1>3. ASSUME Crash
      PROVE  Counts'
    BY <1>3 DEF Crash, OverrunInv, Counts, AttemptsOverrunByOne, AttemptsOverrun,
                HeldCount, SharedCount, Holds, Queued
<1>4. ASSUME UNCHANGED vars
      PROVE  Counts'
    BY <1>4 DEF vars, OverrunInv, Counts, AttemptsOverrunByOne, AttemptsOverrun,
                HeldCount, SharedCount, Holds, CountSafe, Queued
<1>5. Counts'
    BY <1>1, <1>2, <1>3, <1>4, OverrunScheduler, OverrunTick DEF Next
<1> QED BY <1>1, <1>5 DEF OverrunInv

\* With two workers, and a recovery that waits longer than two handlers take, a
\* task never fails more than once too often (AttemptsOverrunByOne), however
\* long a claim outlives its lease: neither failure path asks whether the row
\* is still its own, and one of them writes a count it read in an earlier
\* statement (worker.py:83-130).
THEOREM OverrunByOneAtMost ==
    ASSUME TwoWorkers, RecoversLate
    PROVE  Spec => []AttemptsOverrunByOne
<1>1. Init => OverrunInv
    BY TypeInit DEF Init, OverrunInv, Counts, AttemptsOverrunByOne,
       AttemptsOverrun, HeldCount, SharedCount, Holds, Queued
<1>2. OverrunInv /\ [Next]_vars => OverrunInv'
    BY OverrunStep
<1>3. OverrunInv => AttemptsOverrunByOne
    BY DEF OverrunInv, Counts
<1> QED BY <1>1, <1>2, <1>3, PTL DEF Spec

=============================================================================
