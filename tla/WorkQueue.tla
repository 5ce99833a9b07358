------------------------------ MODULE WorkQueue ------------------------------
(* The crawler's work queue: the table crawl_task, the worker loops that      *)
(* claim its rows under a lease, and the scheduler that inserts recurring     *)
(* tasks and revives the parked ones.                                         *)
(*                                                                            *)
(* Time is relative: a row carries the time that is left until not_before and *)
(* until locked_until and the time since updated_at, and Tick moves them all  *)
(* one unit.  Nothing in the code looks further back than RecoverAfter, so    *)
(* the state space is finite without a bound on the clock.                    *)
(*                                                                            *)
(* A row's id is a fresh uuid4 that is never used again, so `WHERE id =       *)
(* task_id' finds the claimed row unless it has been deleted since: gone[w].  *)
EXTENDS Integers, Sequences

CONSTANTS Workers,         \* w-0 .. w-(mb_concurrency - 1)
          Keys,            \* dedupe keys: one per (kind, canonical params)
          None,            \* no row, no worker, no key (SQL NULL)
          Handled,         \* the keys whose kind has a registered handler
          Schedule,        \* the recurring keys, in the order of a scheduler pass
          Every,           \* Every[k]: the interval of the recurring key k
          Priority,        \* Priority[k]: what its INSERT sets
          Children,        \* Children[k]: the keys its handler may enqueue
          MaxAttempts,     \* crawl_task.max_attempts
          Lease,           \* LEASE_SECONDS
          HandlerMax,      \* bound on the time from a claim to its finalisation
          BackoffCap,      \* the cap of _backoff_seconds
          TransientDelay,  \* the five minutes after an unexpected 401
          ResetDelays,     \* how far ahead a 429 may place its reset time
          Park,            \* PARK_DAYS
          RecoverAfter,    \* PARKED_RECOVERY_AFTER_SECONDS
          RecoverEvery     \* interval of the parked recovery

Recurring == {Schedule[i] : i \in DOMAIN Schedule}

ASSUME NoneAssumption == None \notin Workers \cup Keys
ASSUME KeysAssumption == /\ Handled \subseteq Keys
                         /\ Schedule \in Seq(Keys)
                         /\ Every \in [Recurring -> Nat]
                         /\ Priority \in [Keys -> Nat]
                         /\ Children \in [Keys -> SUBSET Keys]
ASSUME TimesAssumption == /\ MaxAttempts \in Nat \ {0}
                          /\ Lease \in Nat /\ HandlerMax \in Nat
                          /\ BackoffCap \in Nat /\ TransientDelay \in Nat
                          /\ ResetDelays \subseteq Nat /\ ResetDelays # {}
                          /\ Park \in Nat
                          /\ RecoverAfter \in Nat /\ RecoverEvery \in Nat

VARIABLES
    table,     \* table[k]: the crawl_task row with dedupe_key k, or None
    pc,        \* where worker w is in its loop
    key,       \* key[w]: the key of the row worker w claimed, or None
    gone,      \* gone[w]: the row worker w claimed has been deleted
    age,       \* age[w]: the time since worker w sampled `now' for its claim
    seen,      \* seen[w]: attempts, as the failure path has read it
    since,     \* since[k]: the time since the scheduler last enqueued k
    recovery   \* the time since last_parked_recovery

vars == <<table, pc, key, gone, age, seen, since, recovery>>
scheduler == <<since, recovery>>

Passed == -1   \* lease of a row whose locked_until is NULL or in the past

Row == [attempts : Nat,
        wait     : Nat,                            \* until not_before
        holder   : Workers \cup {None},            \* locked_by
        lease    : Nat \cup {Passed},              \* until locked_until
        idle     : 0 .. RecoverAfter + 1,          \* since updated_at
        older    : SUBSET Keys]                    \* rows created before it

ASSUME NoneIsNoRow == None \notin Row

Busy == {"running", "succeeded", "throttled", "failed", "counting"}

TypeOK ==
    /\ table \in [Keys -> Row \cup {None}]
    /\ pc \in [Workers -> Busy \cup {"idle"}]
    /\ key \in [Workers -> Keys \cup {None}]
    /\ \A w \in Workers : key[w] = None <=> pc[w] = "idle"
    /\ gone \in [Workers -> BOOLEAN]
    /\ age \in [Workers -> 0 .. HandlerMax]
    /\ seen \in [Workers -> Nat]
    /\ since \in [Recurring -> Nat]
    /\ \A k \in Recurring : since[k] <= Every[k]
    /\ recovery \in 0 .. RecoverEvery

-----------------------------------------------------------------------------
(* The table.                                                                *)

Queued == {k \in Keys : table[k] # None}

NewRow == [attempts |-> 0, wait |-> 0, holder |-> None, lease |-> Passed,
           idle |-> 0, older |-> Queued]

\* Variant: the insert overwrites the row it conflicts with.
EnqueuedOverwrites(S) == [k \in Keys |-> IF k \in S THEN NewRow ELSE table[k]]

\* INSERT ... ON CONFLICT (dedupe_key) DO NOTHING, for every key of S.
Enqueued(S) == [k \in Keys |-> IF k \in S \ Queued THEN NewRow ELSE table[k]]

\* DELETE of the row with key k.
Without(k) == [j \in Keys |->
                 IF j = k \/ table[j] = None
                 THEN None
                 ELSE [table[j] EXCEPT !.older = @ \ {k}]]

\* UPDATE ... SET attempts, not_before, updated_at and the lock to NULL, by a
\* worker whose `now' is from its claim.
Released(w, attempts, wait) ==
    IF gone[w]
    THEN table
    ELSE [table EXCEPT ![key[w]] =
            [@ EXCEPT !.attempts = attempts,
                      !.wait = wait,
                      !.holder = None,
                      !.lease = Passed,
                      !.idle = IF age[w] > RecoverAfter
                               THEN RecoverAfter + 1 ELSE age[w]]]

\* The time left of a delay that began when worker w claimed its task.
Left(w, delay) == IF delay > age[w] THEN delay - age[w] ELSE 0

Backoff(attempts) == IF 2 ^ attempts < BackoffCap
                     THEN 2 ^ attempts ELSE BackoffCap

-----------------------------------------------------------------------------
(* The worker loop.                                                          *)

Init == /\ table = [k \in Keys |-> None]
        /\ pc = [w \in Workers |-> "idle"]
        /\ key = [w \in Workers |-> None]
        /\ gone = [w \in Workers |-> FALSE]
        /\ age = [w \in Workers |-> 0]
        /\ seen = [w \in Workers |-> 0]
        /\ since = Every
        /\ recovery = RecoverEvery

\* Variant: the loop does not forget the last task_row.
IdleKeepsTask(w) == /\ pc' = [pc EXCEPT ![w] = "idle"]
                    /\ age' = [age EXCEPT ![w] = 0]
                    /\ seen' = [seen EXCEPT ![w] = 0]
                    /\ UNCHANGED key

\* The worker's loop starts over.
Idle(w) == /\ pc' = [pc EXCEPT ![w] = "idle"]
           /\ key' = [key EXCEPT ![w] = None]
           /\ age' = [age EXCEPT ![w] = 0]
           /\ seen' = [seen EXCEPT ![w] = 0]

\* Variants of the claim's filter: locked_until <= now, no test of the lease at
\* all, and attempts <= max_attempts.
ClaimableAtExpiry(k) == /\ table[k] # None
                        /\ table[k].attempts < MaxAttempts
                        /\ table[k].wait = 0
                        /\ table[k].lease <= 0

ClaimableThoughLeased(k) == /\ table[k] # None
                            /\ table[k].attempts < MaxAttempts
                            /\ table[k].wait = 0

ClaimableOnceMore(k) == /\ table[k] # None
                        /\ table[k].attempts <= MaxAttempts
                        /\ table[k].wait = 0
                        /\ table[k].lease = Passed

Claimable(k) == /\ table[k] # None
                /\ table[k].attempts < MaxAttempts
                /\ table[k].wait = 0
                /\ table[k].lease = Passed

\* ORDER BY priority DESC, created_at ASC LIMIT 1.
First(k) == /\ Claimable(k)
            /\ \A j \in Keys : Claimable(j) =>
                 \/ Priority[j] < Priority[k]
                 \/ Priority[j] = Priority[k] /\ j \notin table[k].older

Claim(w) ==
    /\ pc[w] = "idle"
    /\ \E k \in Keys :
         /\ First(k)
         /\ table' = [table EXCEPT ![k] = [@ EXCEPT !.holder = w,
                                                    !.lease = Lease]]
         /\ key' = [key EXCEPT ![w] = k]
    /\ pc' = [pc EXCEPT ![w] = "running"]
    /\ gone' = [gone EXCEPT ![w] = FALSE]
    /\ age' = [age EXCEPT ![w] = 0]
    /\ UNCHANGED <<seen, scheduler>>

\* The handler commits what it stored, with the tasks it enqueued.
HandlerCommits(w) ==
    /\ pc[w] = "running" /\ key[w] \in Handled
    /\ \E S \in SUBSET Children[key[w]] : table' = Enqueued(S)
    /\ pc' = [pc EXCEPT ![w] = "succeeded"]
    /\ UNCHANGED <<key, gone, age, seen, scheduler>>

\* The handler raises and its transaction is rolled back.
HandlerRaises(w) ==
    /\ pc[w] = "running" /\ key[w] \in Handled
    /\ \E e \in {"throttled", "failed"} : pc' = [pc EXCEPT ![w] = e]
    /\ UNCHANGED <<table, key, gone, age, seen, scheduler>>

\* The task's row is deleted in a transaction of its own, after the handler's;
\* a task of an unknown kind is deleted at once.
DeleteTask(w) ==
    /\ \/ pc[w] = "succeeded"
       \/ pc[w] = "running" /\ key[w] \notin Handled
    /\ table' = IF gone[w] THEN table ELSE Without(key[w])
    /\ gone' = [v \in Workers |->
                  IF v = w THEN FALSE
                  ELSE gone[v] \/ (~gone[w] /\ key[v] = key[w])]
    /\ Idle(w)
    /\ UNCHANGED scheduler

\* The delete after a successful handler raises: it is inside the same try, so
\* the task takes the path of a failed handler.
DeleteRaises(w) ==
    /\ pc[w] = "succeeded"
    /\ pc' = [pc EXCEPT ![w] = "failed"]
    /\ UNCHANGED <<table, key, gone, age, seen, scheduler>>

\* TransientAuthError or RateLimitResetError: attempts + 1 is an SQL expression.
RecordThrottle(w) ==
    /\ pc[w] = "throttled"
    /\ \E delay \in ResetDelays \cup {Left(w, TransientDelay)} :
         table' = Released(w, table[key[w]].attempts + 1, delay)
    /\ gone' = [gone EXCEPT ![w] = FALSE]
    /\ Idle(w)
    /\ UNCHANGED scheduler

\* Any other exception: session.get reads the row, or finds none.
ReadAttempts(w) ==
    /\ pc[w] = "failed"
    /\ IF gone[w]
       THEN Idle(w) /\ gone' = [gone EXCEPT ![w] = FALSE]
       ELSE /\ pc' = [pc EXCEPT ![w] = "counting"]
            /\ seen' = [seen EXCEPT ![w] = table[key[w]].attempts]
            /\ UNCHANGED <<key, gone, age>>
    /\ UNCHANGED <<table, scheduler>>

\* Variant: the count is written back as it was read.
WriteFailureUncounted(w) ==
    /\ pc[w] = "counting"
    /\ LET delay == IF seen[w] >= MaxAttempts THEN Park ELSE Backoff(seen[w])
       IN  table' = Released(w, seen[w], Left(w, delay))
    /\ gone' = [gone EXCEPT ![w] = FALSE]
    /\ Idle(w)
    /\ UNCHANGED scheduler

\* Variant: the last failure drops the task.
WriteFailureDrops(w) ==
    /\ pc[w] = "counting"
    /\ table' = IF seen[w] + 1 >= MaxAttempts
                THEN Without(key[w])
                ELSE Released(w, seen[w] + 1, Left(w, Backoff(seen[w] + 1)))
    /\ gone' = [gone EXCEPT ![w] = FALSE]
    /\ Idle(w)
    /\ UNCHANGED scheduler

\* ... and the UPDATE writes the count computed from what was read.
WriteFailure(w) ==
    /\ pc[w] = "counting"
    /\ LET attempts == seen[w] + 1
           delay == IF attempts >= MaxAttempts THEN Park ELSE Backoff(attempts)
       IN  table' = Released(w, attempts, Left(w, delay))
    /\ gone' = [gone EXCEPT ![w] = FALSE]
    /\ Idle(w)
    /\ UNCHANGED scheduler

\* The transaction that finalises the task raises: the outer except logs it and
\* the row keeps its lease.
FinaliseRaises(w) ==
    /\ \/ pc[w] \in {"throttled", "failed", "counting"}
       \/ pc[w] = "running" /\ key[w] \notin Handled
    /\ gone' = [gone EXCEPT ![w] = FALSE]
    /\ Idle(w)
    /\ UNCHANGED <<table, scheduler>>

Finalise(w) == \/ DeleteTask(w) \/ DeleteRaises(w) \/ RecordThrottle(w)
               \/ ReadAttempts(w) \/ WriteFailure(w) \/ FinaliseRaises(w)

-----------------------------------------------------------------------------
(* The scheduler, the process and time.                                      *)

Due == {k \in Recurring : since[k] >= Every[k]}
RecoveryDue == recovery >= RecoverEvery

\* Variants of the recovery: without the reset of the count, and of the rows
\* above max_attempts only.
RevivedKeepsCount(t) == [k \in Keys |->
    IF t[k] # None /\ t[k].attempts >= MaxAttempts /\ t[k].idle > RecoverAfter
    THEN [t[k] EXCEPT !.wait = 0, !.idle = 0]
    ELSE t[k]]

RevivedAbove(t) == [k \in Keys |->
    IF t[k] # None /\ t[k].attempts > MaxAttempts /\ t[k].idle > RecoverAfter
    THEN [t[k] EXCEPT !.attempts = 0, !.wait = 0, !.idle = 0]
    ELSE t[k]]

\* UPDATE of the rows that have been parked for long enough.
Revived(t) == [k \in Keys |->
    IF t[k] # None /\ t[k].attempts >= MaxAttempts /\ t[k].idle > RecoverAfter
    THEN [t[k] EXCEPT !.attempts = 0, !.wait = 0, !.idle = 0]
    ELSE t[k]]

\* One pass of scheduler_loop: one transaction with all that is due.
SchedulerPass ==
    /\ Due # {} \/ RecoveryDue
    /\ table' = IF RecoveryDue THEN Revived(Enqueued(Due)) ELSE Enqueued(Due)
    /\ since' = [k \in Recurring |-> IF k \in Due THEN 0 ELSE since[k]]
    /\ recovery' = IF RecoveryDue THEN 0 ELSE recovery
    /\ UNCHANGED <<pc, key, gone, age, seen>>

\* A pass that raises rolls its transaction back.  The last_* timers are local
\* and keep what the statements before the error have set: the first n INSERTs,
\* and the recovery when all of them were sent and only the COMMIT failed.
SchedulerPassRaises ==
    /\ Due # {} \/ RecoveryDue
    /\ \E n \in 0 .. Len(Schedule) + 1 :
         /\ since' = [k \in Recurring |->
                        IF k \in Due /\ \E i \in DOMAIN Schedule :
                                          i <= n /\ Schedule[i] = k
                        THEN 0 ELSE since[k]]
         /\ recovery' = IF RecoveryDue /\ n = Len(Schedule) + 1
                        THEN 0 ELSE recovery
    /\ UNCHANGED <<table, pc, key, gone, age, seen>>

\* The process dies and starts again.  Only the table survives: a row that was
\* claimed keeps its lease and its count.
Crash ==
    /\ pc' = [w \in Workers |-> "idle"]
    /\ key' = [w \in Workers |-> None]
    /\ gone' = [w \in Workers |-> FALSE]
    /\ age' = [w \in Workers |-> 0]
    /\ seen' = [w \in Workers |-> 0]
    /\ since' = Every
    /\ recovery' = RecoverEvery
    /\ UNCHANGED table

\* A unit of time passes.  HandlerMax is the one assumption about speed: no
\* worker is between its claim and its finalisation for longer.
Tick ==
    /\ \A w \in Workers : pc[w] # "idle" => age[w] < HandlerMax
    /\ table' = [k \in Keys |->
         IF table[k] = None THEN None
         ELSE [table[k] EXCEPT
                 !.wait = IF @ > 0 THEN @ - 1 ELSE 0,
                 !.lease = IF @ >= 0 THEN @ - 1 ELSE Passed,
                 !.idle = IF @ <= RecoverAfter THEN @ + 1 ELSE RecoverAfter + 1]]
    /\ age' = [w \in Workers |-> IF pc[w] = "idle" THEN 0 ELSE age[w] + 1]
    /\ since' = [k \in Recurring |->
                   IF since[k] < Every[k] THEN since[k] + 1 ELSE Every[k]]
    /\ recovery' = IF recovery < RecoverEvery THEN recovery + 1 ELSE RecoverEvery
    /\ UNCHANGED <<pc, key, gone, seen>>

Worker(w) == Claim(w) \/ HandlerCommits(w) \/ HandlerRaises(w) \/ Finalise(w)

Next == \/ \E w \in Workers : Worker(w)
        \/ SchedulerPass
        \/ SchedulerPassRaises
        \/ Crash
        \/ Tick

Spec == Init /\ [][Next]_vars

-----------------------------------------------------------------------------
(* Fairness.  Workers and the scheduler are loops that always come back, time *)
(* passes, and a database that is up does not refuse every scheduler commit:  *)
(* a pass that raises has already moved its timers, so what it lost is due    *)
(* again only an interval later and weak fairness would not cover it.         *)

FairSpec ==
    /\ Spec
    /\ WF_vars(Tick)
    /\ \A w \in Workers : WF_vars(Claim(w)) /\ WF_vars(Worker(w))
    /\ SF_vars(SchedulerPass /\ RecoveryDue)
    /\ \A k \in Recurring : SF_vars(SchedulerPass /\ k \in Due)

-----------------------------------------------------------------------------
(* Properties.                                                               *)

\* The assumption under which a lease excludes: no claim outlives its lease.
NoOverrun == HandlerMax <= Lease

\* No two worker loops are in the handler, or in the finalisation, of tasks
\* with the same dedupe key.  Nothing but time keeps them apart: a finalisation
\* never checks locked_by (worker.py:83-130).
LeaseExclusive ==
    \A v, w \in Workers : v # w /\ key[v] # None => key[v] # key[w]

\* What the exclusion rests on: a worker's row is there, and its lease has
\* exactly the time left that the worker's own `now' gives it.
HoldsLease ==
    \A w \in Workers : key[w] # None =>
        /\ ~gone[w]
        /\ table[key[w]] # None
        /\ table[key[w]].holder = w
        /\ table[key[w]].lease = Lease - age[w]

\* While a worker has a row nobody counts on it, and no recovery resets it: the
\* count the worker is about to write is still one more than the row's.
CountHeld ==
    \A w \in Workers : key[w] # None =>
        /\ table[key[w]].attempts < MaxAttempts
        /\ pc[w] = "counting" => seen[w] = table[key[w]].attempts

\* A count above max_attempts would mean a task that failed more often than the
\* crawler allows; the filter of the claim and the count are in two
\* transactions, and a recovery may fall between them.
AttemptsBounded ==
    \A k \in Queued : table[k].attempts <= MaxAttempts

\* Without NoOverrun a late worker may add one more.  This is for two workers:
\* a third one may put back a count that it read before the others failed, and
\* with it a claim that should not have been (worker.py:111-129).
AttemptsOverrun(n) ==
    \A k \in Queued : table[k].attempts < MaxAttempts + n

\* With two workers, one of them late: at most one failure too many.
AttemptsOverrunByOne == AttemptsOverrun(2)

\* What AttemptsOverrunByOne takes: no third worker, and no recovery of a row
\* that was parked after a worker had claimed it, while that worker is still at
\* work on it.
TwoWorkers == \A u, v, w \in Workers : u = v \/ v = w \/ u = w
RecoversLate == HandlerMax + HandlerMax <= RecoverAfter

\* A row leaves the table only when no other worker is still at work on it, so
\* no finalisation ever finds its row missing or replaced (worker.py:86-91,111).
DeleteSettles ==
    [][\A k \in Queued : table'[k] = None =>
           \A w \in Workers : key'[w] # k]_vars

\* Every failure that is recorded counts once: the failure path computes the
\* count in Python from an earlier read (worker.py:111-114), so a write of
\* anyone else between the two would be lost.
FailureCounted ==
    [][\A w \in Workers :
          pc[w] = "counting" /\ pc'[w] = "idle" /\ table' # table =>
              table'[key[w]].attempts = table[key[w]].attempts + 1]_vars

\* No task is stuck: whatever crashed, failed or was parked, each row is claimed
\* again or becomes claimable, or goes (worker.py:46-50, scheduler.py:81-91).
NeverStuck ==
    \A k \in Keys : table[k] # None ~> table[k] = None \/ Claimable(k)

\* The recurring task with the highest priority is started again and again, in
\* spite of failures, lost scheduler passes and the dedupe key it still holds
\* while it is parked (scheduler.py:42-91).
PollRecurs ==
    \A k \in Recurring :
        (\A j \in Keys \ {k} : Priority[j] < Priority[k])
            => []<>(\E w \in Workers : key[w] = k)

\* The queue keeps the promise of CrawlWork: whatever is asked for stays in the
\* table until one worker, alone, has committed its handler for it.
CW == INSTANCE CrawlWork WITH
        wanted <- Queued,
        doing <- key,
        finished <- {w \in Workers : pc[w] = "succeeded"}
ImplementsCrawlWork == CW!Spec
=============================================================================
