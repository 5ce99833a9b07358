---------------------------- MODULE CrawlHandlers ----------------------------
(* The workers' handlers in one process: each gets an answer from the API     *)
(* through the shared client and upserts what it names, in one transaction.   *)
(* That a failed handler is run again is WorkQueue's part; here it may begin  *)
(* anew at any time.                                                          *)
EXTENDS Client, Sequences

CONSTANTS Names,    \* names of agents and submolts
          None,     \* no row; a column that is null
          Answers   \* what the API may answer: sequences of payloads

VARIABLES table,    \* the committed rows of mb_agent and mb_submolt
          tx        \* the handlers' transactions

Lake == INSTANCE Enrichment

ASSUME LakeAssumption == /\ None \notin Lake!Row /\ None # "known"
                         /\ Answers \subseteq Seq(Lake!Payload)

lakeVars == <<table, tx>>

vars == <<clientVars, lakeVars>>

Init == ClientInit /\ Lake!Init

Busy(h) == ~At(h, "idle") \/ tx[h].open

\* The worker calls a handler, which calls client.get.
Begin(h) == ~Busy(h) /\ Get(h) /\ UNCHANGED lakeVars

Arrive(h) == \E answer \in Answers : Succeed(h) /\ Lake!Open(h, answer)

Raise(h) == (Refused(h) \/ GivenUp(h)) /\ UNCHANGED lakeVars

\* The client's own steps.
Proceed(h) == /\ TakeSlot(h) \/ Send(h) \/ Retried(h) \/ Wake(h)
              /\ UNCHANGED lakeVars

Write(h) == (Lake!Upsert(h) \/ Lake!Clash(h) \/ Lake!Commit(h)) /\ UNCHANGED clientVars

Abort(h) == Lake!DeadlockAbort(h) /\ UNCHANGED clientVars

Break(h) == Lake!Fail(h) /\ UNCHANGED clientVars

Drain == Leak /\ UNCHANGED lakeVars

Restart == ClientRestart /\ Lake!Restart

Next == \/ \E h \in Handlers : \/ Begin(h) \/ Proceed(h) \/ Arrive(h)
                               \/ Raise(h) \/ Write(h) \/ Abort(h) \/ Break(h)
        \/ Drain \/ Restart

(* The semaphore and the limiter serve their waiters in the order of arrival, *)
(* every request ends (mb_http_timeout), pauses and leaks pass, Postgres      *)
(* grants locks in order and breaks deadlocks.  Nothing need ever fail.       *)
Fairness ==
    /\ WF_vars(Drain)
    /\ \A h \in Handlers :
         /\ SF_vars(TakeSlot(h) /\ UNCHANGED lakeVars)
         /\ SF_vars(Send(h) /\ UNCHANGED lakeVars)
         /\ WF_vars(Wake(h) /\ UNCHANGED lakeVars)
         /\ WF_vars(Arrive(h) \/ Raise(h) \/ (Retried(h) /\ UNCHANGED lakeVars))
         /\ SF_vars(Write(h))
         /\ WF_vars(Abort(h))

Spec == Init /\ [][Next]_vars

FairSpec == Spec /\ Fairness

-----------------------------------------------------------------------------
(* Properties.                                                               *)

TypeOK == ClientTypeOK /\ Lake!TypeOK

\* Whatever a response, or a failure in place of one, leads to, every slot is
\* free or held by exactly one request (client.py:125-150).
SlotsConserved ==
    free + Cardinality({h \in Handlers : call[h].at \in {"limiter", "flight"}})
      = Slots

\* What the lake knows it does not forget: no row vanishes or changes its id,
\* no column becomes null, no stub replaces a full payload, in whatever order
\* concurrent handlers commit, fail and restart (upsert.py:37-50).
NothingForgotten ==
    [][\A n \in Names : table[n] # None =>
          /\ table'[n] # None
          /\ table'[n].id = table[n].id
          /\ table[n].info # None => table'[n].info # None
          /\ table[n].raw = "full" => table'[n].raw = "full"]_vars

\* Every handler ends, although it holds a slot while it waits for the
\* limiter, the limiter only ever gets tighter, and handlers wait for one
\* another's rows.
HandlersEnd == \A h \in Handlers : Busy(h) ~> ~Busy(h)

\* An entity that was stored under a synthetic id can be enriched when the API
\* shows its own (docs/part3-design.md:80): no upsert is refused for its name.
NoClash == \A h \in Handlers :
    Lake!Writing(h) /\ Lake!WaitsFor(h) = {} => ~Lake!Clashes(h)

\* What NoClash takes: the API shows an entity always with its id or never.
OneIdentity ==
    \A a, b \in Answers : \A i \in DOMAIN a, j \in DOMAIN b :
        a[i].name = b[j].name => a[i].id = b[j].id
===============================================================================
