-------------------------------- MODULE Client --------------------------------
(* MoltbookClient.get as the handlers of one process call it at once: a       *)
(* semaphore, a leaky-bucket limiter that tightens itself, and retries.       *)
EXTENDS Naturals, FiniteSets

CONSTANTS Handlers, \* the workers' handlers: what can be in get() at once
          Slots,    \* mb_http_semaphore
          MaxRate,  \* mb_rate_limit_rpm
          MaxTries  \* mb_http_retry_max_attempts

ASSUME ClientAssumption == /\ IsFiniteSet(Handlers)
                           /\ Slots \in Nat \ {0} /\ MaxRate \in Nat \ {0}
                           /\ MaxTries \in Nat \ {0}

VARIABLES call,  \* call[h]: where in get() h is, and the requests it has sent
          free,  \* what is left of the semaphore
          level, \* the limiter's level
          rate   \* the limiter's max_rate

clientVars == <<call, free, level, rate>>

NoCall == [at |-> "idle", tries |-> 0]

ClientInit == /\ call = [h \in Handlers |-> NoCall]
              /\ free = Slots /\ level = 0 /\ rate = MaxRate

At(h, place) == call[h].at = place

Get(h) == /\ At(h, "idle")
          /\ call' = [call EXCEPT ![h].at = "semaphore"]
          /\ UNCHANGED <<free, level, rate>>

\* await self._semaphore.acquire()
TakeSlot(h) == /\ At(h, "semaphore") /\ free > 0
               /\ free' = free - 1
               /\ call' = [call EXCEPT ![h].at = "limiter"]
               /\ UNCHANGED <<level, rate>>

\* Variant: the limiter lets one more through.
SendEarly(h) == /\ At(h, "limiter") /\ level <= rate
                /\ level' = level + 1
                /\ call' = [call EXCEPT ![h].at = "flight", ![h].tries = @ + 1]
                /\ UNCHANGED <<free, rate>>

\* await self._limiter.acquire(), with the slot held, and the request is sent.
Send(h) == /\ At(h, "limiter") /\ level + 1 <= rate
           /\ level' = level + 1
           /\ call' = [call EXCEPT ![h].at = "flight", ![h].tries = @ + 1]
           /\ UNCHANGED <<free, rate>>

\* Variant: max_rate is halved without end.
HalvedAlways(r) == r \div 2

\* X-RateLimit-Remaining is 0: half the rate, never below one, for good.
Halved(r) == IF r > 1 THEN r \div 2 ELSE r

\* Variant: the slot is given back on success only.
AnsweredKeepsSlot(h, at, exhausted) ==
    /\ At(h, "flight")
    /\ free' = IF at = "idle" THEN free + 1 ELSE free
    /\ rate' = IF exhausted THEN Halved(rate) ELSE rate
    /\ call' = [call EXCEPT ![h] = IF at = "idle" THEN NoCall
                                   ELSE [@ EXCEPT !.at = at]]
    /\ UNCHANGED level

\* A response, or none: whatever it is, the slot is released.
Answered(h, at, exhausted) ==
    /\ At(h, "flight")
    /\ free' = free + 1
    /\ rate' = IF exhausted THEN Halved(rate) ELSE rate
    /\ call' = [call EXCEPT ![h] = IF at = "idle" THEN NoCall
                                   ELSE [@ EXCEPT !.at = at]]
    /\ UNCHANGED level

\* 200: get() returns.
Succeed(h) == \E exhausted \in BOOLEAN : Answered(h, "idle", exhausted)

\* 429, another 4xx or a body that is not JSON: get() raises.
Refused(h) == \E exhausted \in BOOLEAN : Answered(h, "idle", exhausted)

\* 401, 5xx or no answer at all (then there are no headers): once more after a
\* pause, or the last exception is raised.
Retried(h) == /\ call[h].tries < MaxTries
              /\ \E exhausted \in BOOLEAN : Answered(h, "asleep", exhausted)

GivenUp(h) == /\ call[h].tries >= MaxTries
              /\ \E exhausted \in BOOLEAN : Answered(h, "idle", exhausted)

\* The pause of tenacity ends.
Wake(h) == /\ At(h, "asleep")
           /\ call' = [call EXCEPT ![h].at = "semaphore"]
           /\ UNCHANGED <<free, level, rate>>

\* Time passes for the limiter.
Leak == /\ level > 0
        /\ level' = level - 1
        /\ UNCHANGED <<call, free, rate>>

\* The process is started again.
ClientRestart == /\ call' = [h \in Handlers |-> NoCall]
                 /\ free' = Slots /\ level' = 0 /\ rate' = MaxRate

ClientTypeOK == /\ call \in [Handlers ->
                     [at : {"idle", "semaphore", "limiter", "flight", "asleep"},
                      tries : 0 .. MaxTries]]
                /\ free \in 0 .. Slots
                /\ level \in 0 .. MaxRate
                /\ rate \in 0 .. MaxRate
===============================================================================
