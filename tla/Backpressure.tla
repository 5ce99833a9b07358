----------------------------- MODULE Backpressure -----------------------------
(* The concurrency guard and the request deadline of meritmolt/backpressure.py*)
(* on one event loop: asyncio semaphores with their queues, the one-second    *)
(* timeout of each acquire, and the release in the `finally'.  A step is what *)
(* a task does between two suspensions.                                       *)
EXTENDS Queues, FiniteSets

CONSTANTS Requests,  \* the requests that may be in the server
          Groups,    \* the route groups with a semaphore of their own
          Reads,     \* RouteGroup.READS, the group with a deadline
          Exempt,    \* RouteGroup.EXEMPT
          Global,    \* mm_bp_global_max_concurrent
          Limit      \* Limit[g]: mm_bp_{auth,writes,reads}_max_concurrent

ASSUME GroupsAssumption == /\ Reads \in Groups /\ Exempt \notin Groups
                           /\ "global" \notin Groups \cup {Exempt}
                           /\ "no" \notin Groups \cup {Exempt}
\* A limit of 0 closes the group (tests/test_backpressure.py:16-59) or the server.
ASSUME LimitsAssumption == /\ Global \in Nat
                           /\ Limit \in [Groups -> Nat]
                           /\ IsFiniteSet(Requests)

VARIABLES sem,    \* the semaphores: the global one and one per group
          at,     \* where request r is
          group,  \* its route group
          replied \* whether its client has been sent a response

vars == <<sem, at, group, replied>>

Sems == {"global"} \cup Groups

Capacity(s) == IF s = "global" THEN Global ELSE Limit[s]

\* woken: the waiters that have been given a permit and have not run since.
Semaphore == [value : Nat, queue : Seq(Requests), woken : SUBSET Requests]

\* late: the deadline has passed and the permits are still held.
Place == {"away", "global", "group", "running", "closing", "late"}

TypeOK == /\ sem \in [Sems -> Semaphore]
          /\ at \in [Requests -> Place]
          /\ group \in [Requests -> Groups \cup {Exempt}]
          /\ replied \in [Requests -> BOOLEAN]

Init == /\ sem = [s \in Sems |->
                    [value |-> Capacity(s), queue |-> <<>>, woken |-> {}]]
        /\ at = [r \in Requests |-> "away"]
        /\ group = [r \in Requests |-> Exempt]
        /\ replied = [r \in Requests |-> FALSE]

-----------------------------------------------------------------------------
(* asyncio.Semaphore.  S is the state of one semaphore.                      *)

\* Semaphore.locked: somebody before us counts even while value > 0.
Locked(S) == S.value = 0 \/ S.queue # <<>>

Taken(S) == [S EXCEPT !.value = @ - 1]

Queued(S, r) == [S EXCEPT !.queue = Append(@, r)]

\* _wake_next, n times while it finds somebody asleep: the first in the queue
\* that is not awake yet gets the permit.
Woken(S, n) ==
    LET asleep(i) == S.queue[i] \notin S.woken
        wake == {S.queue[i] : i \in {i \in DOMAIN S.queue :
                   asleep(i) /\ Cardinality({j \in 1 .. i - 1 : asleep(j)}) < n}}
    IN  [S EXCEPT !.value = @ - Cardinality(wake), !.woken = @ \cup wake]

\* Variant: a release that passes a permit on without having it.
ReleasedBlindly(S) == Woken(S, 1)

Released(S) == Woken([S EXCEPT !.value = @ + 1], 1)

\* Variants of the end of acquire: the permit of a cancelled waiter is lost, the
\* wake-up is, or the waiter stays in the queue.
LeftWithPermit(S, r, cancelled) ==
    LET T == [S EXCEPT !.queue = Removed(@, r),
                       !.woken = @ \ {r}]
    IN  Woken(T, T.value)

LeftSilently(S, r, cancelled) ==
    [S EXCEPT !.queue = Removed(@, r),
              !.woken = @ \ {r},
              !.value = IF cancelled /\ r \in S.woken THEN @ + 1 ELSE @]

LeftInQueue(S, r, cancelled) ==
    LET T == [S EXCEPT !.woken = @ \ {r},
                       !.value = IF cancelled /\ r \in S.woken
                                 THEN @ + 1 ELSE @]
    IN  Woken(T, T.value)

\* The end of acquire for a waiter: it leaves the queue, gives its permit back
\* if it was cancelled with one, and wakes as many as there are permits.
Left(S, r, cancelled) ==
    LET T == [S EXCEPT !.queue = Removed(@, r),
                       !.woken = @ \ {r},
                       !.value = IF cancelled /\ r \in S.woken
                                 THEN @ + 1 ELSE @]
    IN  Woken(T, T.value)

-----------------------------------------------------------------------------
(* The guard.                                                                *)

\* The request has left the server.
Gone(r) == /\ at' = [at EXCEPT ![r] = "away"]
           /\ group' = [group EXCEPT ![r] = Exempt]

\* With a global permit: take one of the group, or wait for it.
EnterGroup(r, g, G) ==
    IF g = Exempt
    THEN /\ sem' = [sem EXCEPT !["global"] = G]
         /\ at' = [at EXCEPT ![r] = "running"]
    ELSE IF Locked(sem[g])
    THEN /\ sem' = [sem EXCEPT !["global"] = G, ![g] = Queued(@, r)]
         /\ at' = [at EXCEPT ![r] = "group"]
    ELSE /\ sem' = [sem EXCEPT !["global"] = G, ![g] = Taken(@)]
         /\ at' = [at EXCEPT ![r] = "running"]

\* release: the group's semaphore, then the global one, whose state is G.
Leave(r, G) ==
    /\ sem' = IF group[r] = Exempt
              THEN [sem EXCEPT !["global"] = Released(G)]
              ELSE [sem EXCEPT ![group[r]] = Released(@),
                               !["global"] = Released(G)]
    /\ Gone(r)

\* A request arrives; without a wait it gets as far as it can in one step.
Arrive(r) ==
    /\ at[r] = "away"
    /\ \E g \in Groups \cup {Exempt} :
         /\ group' = [group EXCEPT ![r] = g]
         /\ IF Locked(sem["global"])
            THEN /\ sem' = [sem EXCEPT !["global"] = Queued(@, r)]
                 /\ at' = [at EXCEPT ![r] = "global"]
            ELSE EnterGroup(r, g, Taken(sem["global"]))
    /\ replied' = [replied EXCEPT ![r] = FALSE]

\* The waiter of the global semaphore runs with its permit.
ResumeGlobal(r) ==
    /\ at[r] = "global" /\ r \in sem["global"].woken
    /\ EnterGroup(r, group[r], Left(sem["global"], r, FALSE))
    /\ UNCHANGED <<group, replied>>

ResumeGroup(r) ==
    /\ at[r] = "group" /\ r \in sem[group[r]].woken
    /\ sem' = [sem EXCEPT ![group[r]] = Left(@, r, FALSE)]
    /\ at' = [at EXCEPT ![r] = "running"]
    /\ UNCHANGED <<group, replied>>

\* Variant: the refusal is not sent.
TimeoutGlobalMute(r) ==
    /\ at[r] = "global"
    /\ sem' = [sem EXCEPT !["global"] = Left(@, r, TRUE)]
    /\ Gone(r)
    /\ UNCHANGED replied

\* wait_for gives up after a second, perhaps with the permit already given.
TimeoutGlobal(r) ==
    /\ at[r] = "global"
    /\ sem' = [sem EXCEPT !["global"] = Left(@, r, TRUE)]
    /\ Gone(r)
    /\ replied' = [replied EXCEPT ![r] = TRUE]

\* Variant: a timeout on the group's semaphore releases that one, too.
TimeoutGroupReleasesBoth(r) ==
    /\ at[r] = "group"
    /\ sem' = [sem EXCEPT ![group[r]] = Released(Left(@, r, TRUE)),
                          !["global"] = Released(@)]
    /\ Gone(r)
    /\ replied' = [replied EXCEPT ![r] = TRUE]

\* ... and for the group's permit: the global one is released.
TimeoutGroup(r) ==
    /\ at[r] = "group"
    /\ sem' = [sem EXCEPT ![group[r]] = Left(@, r, TRUE),
                          !["global"] = Released(@)]
    /\ Gone(r)
    /\ replied' = [replied EXCEPT ![r] = TRUE]

\* The application sends its response; the exits of its dependencies follow.
Answer(r) ==
    /\ at[r] = "running"
    /\ at' = [at EXCEPT ![r] = "closing"]
    /\ replied' = [replied EXCEPT ![r] = TRUE]
    /\ UNCHANGED <<sem, group>>

Finish(r) == at[r] = "closing" /\ Leave(r, sem["global"])
             /\ UNCHANGED replied

\* The application raises.
Raise(r) ==
    /\ at[r] \in {"running", "closing"}
    /\ Leave(r, sem["global"])
    /\ replied' = [replied EXCEPT ![r] = TRUE]

\* The deadline of a read cancels the application wherever it is; it unwinds and
\* the 503 is sent while the permits are held ...
Deadline(r) ==
    /\ at[r] \in {"running", "closing"} /\ group[r] = Reads
    /\ at' = [at EXCEPT ![r] = "late"]
    /\ UNCHANGED <<sem, group, replied>>

\* ... and released when it has been sent, or when the server has refused to start
\* a second response.
Refuse(r) ==
    /\ at[r] = "late"
    /\ Leave(r, sem["global"])
    /\ replied' = [replied EXCEPT ![r] = TRUE]

Step(r) == \/ ResumeGlobal(r) \/ ResumeGroup(r)
           \/ TimeoutGlobal(r) \/ TimeoutGroup(r)
           \/ Answer(r) \/ Finish(r) \/ Raise(r)
           \/ Deadline(r) \/ Refuse(r)

Next == \E r \in Requests : Arrive(r) \/ Step(r)

Spec == Init /\ [][Next]_vars

(* Tasks that can run do, and applications end: the writes and logins, which  *)
(* have no deadline, by the timeouts of what they call.                       *)
FairSpec == Spec /\ \A r \in Requests : WF_vars(Step(r))

-----------------------------------------------------------------------------
(* Properties.                                                               *)

\* With the permits: inside the application, or late.
Inside(r) == at[r] \in {"running", "closing", "late"}

Holders(s) == IF s = "global"
              THEN {r \in Requests : at[r] = "group" \/ Inside(r)}
              ELSE {r \in Requests : group[r] = s /\ Inside(r)}

\* No permit is lost or made up, whatever timeout meets whatever wake-up: a
\* permit is free, held, or on its way to a waiter (backpressure.py:33-57).
PermitsConserved ==
    \A s \in Sems :
        sem[s].value + Cardinality(Holders(s)) + Cardinality(sem[s].woken)
            = Capacity(s)

\* Nobody sleeps beside a free permit, unless a waiter that is awake is about to
\* pass it on: a timeout with a permit in hand must not swallow the wake-up.
NoLostWakeup ==
    \A s \in Sems :
        /\ sem[s].value > 0
        /\ \E i \in DOMAIN sem[s].queue : sem[s].queue[i] \notin sem[s].woken
        => sem[s].woken # {}

\* Exactly the requests that wait for a semaphore are in its queue, once, so a
\* permit never goes to a request that has been refused.
QueuesExact ==
    \A s \in Sems :
        LET q == sem[s].queue
            waiting == IF s = "global" THEN {r \in Requests : at[r] = "global"}
                       ELSE {r \in Requests : at[r] = "group" /\ group[r] = s}
        IN  /\ {q[i] : i \in DOMAIN q} = waiting
            /\ Len(q) = Cardinality(waiting)
            /\ sem[s].woken \subseteq waiting

\* The guard keeps the limits of Admission.
AD == INSTANCE Admission WITH
        inside <- [r \in Requests |-> IF Inside(r) THEN group[r] ELSE "no"]
ImplementsAdmission == AD!Spec

\* Every request is answered or refused and leaves (backpressure.py:89-135).
RequestsLeave ==
    \A r \in Requests : at[r] # "away" ~> at[r] = "away" /\ replied[r]
=============================================================================
