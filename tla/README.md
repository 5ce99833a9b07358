# MeritMolt and TextLake: specifications

TLA+ models of the two programs of this repository: their invariants, action
properties and refinements are checked with TLC on small instances and proved
with TLAPS for all values of the constants that satisfy the named assumptions;
liveness is checked.

## 1. The system

Two Python processes share one Postgres database and talk to two services.

```
   clients ──HTTP──> meritmolt (FastAPI, one event loop)
                       guard ─> rate limiter ─> auth / events / scores / rank
                                                  │
   Moltbook API <──GET── textlake (crawler)       │
                       scheduler, N workers       │
                            │                     │
                            └────> Postgres <─────┘
                                     │ triggers (pgmer2)
                                     └────> MeritRank service (in-memory graph)
```

| component | state it keeps | operations | what is hard |
|---|---|---|---|
| **Work queue** `textlake/queue`, `handlers/enqueue.py`, `models/crawl.py` | table `crawl_task`; per worker: the claimed id and the `now` of its claim; the scheduler's `last_*` timers | claim with a lease, run the handler, delete / count a failure / park, enqueue with a dedupe key, schedule, revive parked tasks | leases that expire under a running handler, crashes between transactions, read-then-write of `attempts`, timers that move before their commit |
| **Refresh tokens** `meritmolt/auth` | table `mm_refresh_tokens` | login, refresh (rotation, reuse detection), logout | concurrent requests at READ COMMITTED, rollback on exception, commit after the response, lock waits in a cycle |
| **Concurrency guard** `meritmolt/backpressure.py` | five asyncio semaphores | acquire global then group with a timeout, deadline of reads, release | a timeout that meets a wake-up, release exactly once on every path |
| **Rate limiter** `meritmolt/ratelimit.py` | an LRU of token buckets per route group | admit or refuse | eviction and expiry of a bucket in use, refill and burst limits |
| **Graph synchronisation** `meritmolt/schema/ddl.py`, `events/router.py` | tables `subscribe`, `mb_post`, `mb_comment`, `user_vsids`; the graph in MeritRank | triggers that send edges, follow and unfollow, bulk load at start | edges are sent from inside transactions to a service that takes part in none; counts read from snapshots; bulk load beside live writes; retry inside an aborted transaction |
| **Post and comment handlers** `textlake/handlers` | `mb_post.comments_fetched`, `comments_truncated`, comment trees | fetch, order parents first, upsert, count, enqueue | cumulative counters, missing parents and cycles, batches that deadlock |
| **Enrichment upserts** `textlake/upsert.py`, `utils.py`, `ids.py` | entity rows | merge partial payloads | synthetic ids that meet canonical ones, authoritative against partial data |
| **Moltbook client** `textlake/client.py` | limiter, semaphore | GET with retries | the limiter that is halved and never restored, 401/429 handling |
| **Set-up** `meritmolt/database.py`, `textlake/database.py` | the schema | create tables, split and run DDL | two processes that start in any order |
| access tokens, identity check, scores and rank | none | pure functions, HTTP calls, read-only queries | - |

Interaction: the handlers run inside the worker loop and enqueue tasks in their
own transaction; their upserts fire the triggers; the API's follow does the same
from the other process. A request passes the guard, then the rate limiter, then
its handler; the database session is committed after the response was sent
(FastAPI runs the exit of a `yield` dependency then). The crawler's scheduler and
workers meet only in the table `crawl_task`.

## 2. Modules

| module | models | kind |
|---|---|---|
| `CrawlWork` | what the queue promises: keys wanted, taken by one worker, finished | abstract specification |
| `WorkQueue` | worker loops, scheduler, crash, time | component |
| `MCWorkQueue` | constants of the instances | MC |
| `WorkQueueProofs` | type correctness, exclusion, counting, what a late worker can do, the refinement of `CrawlWork` | proofs |
| `RefreshTokens` | login, refresh, logout of one agent as transactions | component |
| `RefreshTokensProofs` | types, rotations, forks, the limit on active tokens, one request at a time | proofs |
| `Admission` | what the guard promises: limits on who is inside | abstract specification |
| `Backpressure` | semaphores, timeouts, deadline, release | component |
| `MCBackpressure` | constants of the instances | MC |
| `BackpressureProofs` | permits, wake-ups, queues, the refinement of `Admission` | proofs |
| `GraphSync` | follows and crawled batches as transactions, their triggers, the bulk load | component |
| `MCGraphSync` | constants of the instances | MC |
| `GraphSyncProofs` | types, tickers, the truth of the graph, what the bulk load repairs | proofs |
| `Quota` | what the rate limiter promises: one steadily refilled allowance per principal | abstract specification |
| `RateLimit` | one route group: LRU store, buckets, Retry-After | component |
| `RateLimitProofs` | budgets, Retry-After, the refinement of `Quota` | proofs |
| `CommentFetch` | the comments of a post, their counters, who asks for them again | component |
| `MCCommentFetch` | symmetry of the instance | MC |
| `CommentFetchProofs` | Kahn's algorithm, links, counters | proofs |
| `Client` | `MoltbookClient.get`: semaphore, limiter, retries | component |
| `Enrichment` | upserts of agents and submolts in concurrent transactions | component |
| `CrawlHandlers` | handlers that get through `Client` and write through `Enrichment` | composition |
| `MCCrawlHandlers` | what the API may answer | MC |
| `CrawlHandlersProofs` | types, slots, what the lake keeps, when names never clash | proofs |
| `Queues` | queues whose members occur once: waiters, LRU keys, rows of an answer | operators |
| `DataLemmas` | induction over numbers stated about sets, queues, recursive functions | lemmas |

### WorkQueue

A row of `table` is a row of `crawl_task`, indexed by its dedupe key; `pc[w]`
says where worker `w` is in `worker_loop`: `running` (claimed, in the handler),
`succeeded` (handler committed, delete to come), `throttled` and `failed` (in
one of the two `except` branches), `counting` (between the read of `attempts`
and the UPDATE). Each transaction of the loop is an action; each can also raise
(`HandlerRaises`, `DeleteRaises`, `FinaliseRaises`), and `Crash` ends the process
at any point. A finalisation is `WHERE id = task_id` and never looks at the
lock: it hits the row whoever holds it, unless it was deleted (`gone[w]`).
Time is relative: rows carry the time left until `not_before` and
`locked_until` and the time since `updated_at`; `Tick` moves all of them, so no
clock has to be bounded. `age[w]` is the time since worker `w` sampled `now`,
because the code computes `not_before` and `updated_at` from that `now`.
`HandlerMax` bounds `age`: the one assumption about speed. `NoOverrun`
(`HandlerMax <= Lease`) is stated where it is used.

SKIP LOCKED is abstracted: a claim's SELECT and UPDATE are one action, so a row
that another claim has locked for an instant is seen as claimed. The graceful
shutdown lets each worker finish its task and stop; for the table that is a
crash of idle workers. `raw_capture` is pruned by the scheduler but
`set_raw_capture` is never called, so the table is always empty and left out.

### RefreshTokens

All statements filter by the token's id or by `agent_id`, so one agent is
enough. Tokens are numbers in the order of `created_at`; they live equally long
and so expire in that order. A request's transaction is a record of locals;
what it has updated (`revokes`) is visible to itself, locked for others, and
becomes part of `revoked` at the commit. UPDATEs wait for row locks, the reuse
UPDATE row by row in any order, so cycles of waiters exist and
`DeadlockAbort` breaks them. The response is sent in `Respond`, the commit
follows in `Commit` (`auth/dependencies.py` 22-24 under a FastAPI that runs the
exit of the dependency after the response). Hashing and the format of the token
are abstracted: token 0 is one that does not parse or has an unknown id, and
`forged` says that the id is right and the secret wrong. A refresh looks at
`revoked_at` before it verifies the secret (`tokens.py:147-163`), so a revoked id
with a wrong secret starts the reuse sweep, too; a logout goes by the id alone.
A history says how the limit on active tokens can be passed: `tx[r].over` is set
when there is no room for the token that `r` is minting, either at the eviction,
because it picks a token that was not counted (`MakesNoRoom`), or later, because
another commit takes the room that was found (`TakesRoom`); at its commit such a
token joins `surplus` (`EndTx`). No guard reads the history, so the other
variables behave alike with and without it; `Counting` switches it off where no
property reads it.

### Backpressure

The semaphores are those of `asyncio`: a count, a FIFO of waiters, and the
waiters that were handed a permit and have not run yet (`woken`). A step is what
a task does between two suspensions. `asyncio.wait_for` may cancel a waiter
that has its permit already; `Left` is the end of `acquire` in both cases.
The application is an `Answer` followed by `Finish`, or `Raise`, at any time;
`Deadline` cancels it for the reads. The permits are then still held, while the
application unwinds and the 503 is sent (`late`), and released by `Refuse`. A
limit may be 0, as in `tests/test_backpressure.py:16-59`: whoever waits for that
semaphore is refused.

### GraphSync

`follow`, `rows` (posts and comments), `parent` and `vsid` are the committed
tables; `tx[r]` is what the transaction of session `r` has written; `graph` is
what the MeritRank service has. `mr_put_edge` and `mr_delete_edge` reach the
service at once and are not undone by a rollback, so `Send` writes `graph` and
notes the edge in `tx[r].sent`. A statement is an action: `Bump` and
`WriteFollow` (the insert, or the update with its second bump), `WriteUnfollow`,
`Upsert` (one row of a batch). The row of `user_vsids` is held until the
transaction ends, which is what makes the counts of the triggers and the tickers
right; batches that bump the same authors in another order deadlock. The bulk
load is the query (`InitRead`), `mr_reset`, `mr_bulk_load_edges` and the final
`mr_sync`, each of which may be answered with "Try again". `torn` is a history
variable: the edges that the code leaves wrong, by a rollback after the send, by
a parent set in an UPDATE (no trigger), or by the load. `GraphTrue` says that
there are no others. The edge back from a post or comment to its author goes
with the author's edge. The weight of a follow is always 1; its value here is
its ticker. Boards are left out, and so are the tickers of posts and comments
in the graph, of which the bulk load gives the upvote edges 0, and a change of
an author, which the upsert would store without a trigger (`Author` is a
constant). `Restart` stops the API with its load. If a hard kill leaves the load's
backend running, it goes on as `InitReset`, `InitLoad` and `InitSynced` do after a
`Fail` of each request, and the new API waits for it: its `init_db` drops
triggers of the tables that the load has read (`ddl.py:225-253`), before it
serves a request or begins a load (`main.py:27-30`).

### RateLimit

One instance is one route group: `RateLimitMiddleware` keeps a store per group
and they never meet. `dispatch` has no await between the lookup and the
decision, so a request is one action: `KeyOf` (address or agent), `Touch`
(`get_or_create`: drop the bucket if it is older than the TTL, move a hit to the
end, evict and append on a miss), `Acquire` and, if refused, `RetryAfter`.
Buckets are floats on a monotonic clock. Here time goes in ticks, a token is
`Unit` units and a tick refills `Rate` units, so every fraction that occurs is a
whole number and rounding up to whole seconds (`Second` ticks) is the code's
`ceil`. An expired bucket is replaced when its key comes back, so its clocks
stop, and no counter needs a bound. `created` is never refreshed: the
TTL renews the bucket of a principal in constant use too, and `Quota` says so
(an allowance lasts `Ttl`, not an idle time). With `MaxKeys = 0` the `while`
stops at the empty store and one key is kept. `granted` and `wait` are history:
what a bucket has admitted, and what is left of the last Retry-After.

The refinement of `Quota` maps the stored, unexpired keys to the principals that
are remembered, a bucket refilled as of now to the allowance, and the keys
behind a key in the store to those who asked after it.

### CommentFetch

One post. `remote` and `replyTo` are the platform; `stored`, `parent`, `fetched`
and `truncated` the lake; `task` the row `fetch_post_comments` of the queue. That
only one such handler runs is what `WorkQueue` shows (`LeaseExclusive`), and the
only thing that keeps the read-then-write of `comments_fetched` safe.
`Answer` computes the rows as the code does: unknown parents dropped
(`Resolved`), Kahn's order, what is left over made roots (`Sorted`). `Kahn` is a
recursive function of the rounds of the `while`: round `i` takes the row at place
`i` of the queue (`Taken`) and queues its replies, in the answer's order (`Among`);
the rows queued are the rows output. A row has one parent, so its in-degree is 1
and it is ready when the parent is taken.
The transaction between the answer and the commit reads nothing that others
write, so it is built in one step. `refused` is an answer that makes it fail:
one that lists a comment twice, or a comment without an author. `Commit` may
leave the task queued: the process died before the delete. `ReadCount` and
`CompareCount` are `fetch_post`, whose count may be old when it is compared.
The total an answer states is the platform's own count or absent; absent, the
length of the list stands for it, in which comments without an id are counted
although they give no row (`comments.py:95-104`, `:155`). A platform that
overstates its count, or lists what is no comment, is not modelled, nor is one
that gives a comment another `parent_id`, which `LinkKept` rests on. `ParentsFirst` is about one batch: a cycle
whose links arrive in different answers is stored as a cycle, which the foreign
key allows.

### Client, Enrichment, CrawlHandlers

`Client` is `get()`: `semaphore`, `limiter` (with the slot held), `flight`,
`asleep` (the pause of tenacity). `Answered` is every way a request ends; each
response may carry `X-RateLimit-Remaining: 0`, which halves `max_rate` for good.
`Enrichment` has a row per *name*, since the names are what handlers contend for
and what is unique; a payload's `id` is its own (`real`) or the hash of its name
(`synthetic`). A row written by an open transaction is locked, the next writer
waits, a cycle of waiters is aborted, and a payload whose id differs from that of
the row with its name fails (`Clash`) with the whole transaction. A change of
name under one id is left out.
`CrawlHandlers` composes them: a handler gets an answer, opens a
transaction with the payloads in it, and commits or fails. `Break` stands for
every other failure (the post's own rows, foreign keys, the connection);
`Restart` loses the transactions, the slots and the limiter with its halvings.
That a failed handler is run again is `WorkQueue`'s part.

## 3. Runs

| run | instance | shows |
|---|---|---|
| `work_queue_lease` | 2 workers, a recurring key and its child, `HandlerMax = Lease = 2`, `MaxAttempts = 2` | `TypeOK`, `LeaseExclusive`, `HoldsLease`, `AttemptsBounded`, `DeleteSettles`, `FailureCounted`; WorkQueue implements CrawlWork |
| `work_queue_overrun` | 2 workers, a recurring key and one of an unknown kind, `HandlerMax = 2 > Lease = 1`, `MaxAttempts = 1`, with fairness | `AttemptsOverrunByOne`; `NeverStuck`, `PollRecurs` even so |
| `tokens_concurrent` | 2 requests, limit 1, 4 tokens, one may expire, failures and lost responses | `TypeOK`, `RotationAtomic`, `SuccessorsBounded`, `ActiveNearLimit`, `RevokedWithCause` |
| `tokens_deadlock` | 2 requests, limit 1, 5 tokens, no failures but deadlocks, no history | `DeliveredStored` through lock waits and deadlock aborts |
| `tokens_reuse` | 1 request | violation of `ReuseRevokesAll` |
| `backpressure` | 4 requests, 2 groups of 1 permit and one of 0, 2 global permits, with fairness | `TypeOK`, `PermitsConserved`, `NoLostWakeup`, `QueuesExact`; Backpressure implements Admission; `RequestsLeave` |
| `graph_sync` | 2 transactions at a time, 4 in a behaviour, 2 follows of one user, a post and 3 comments in overlapping batches, failures, bulk load, restarts | `TypeOK`, `GraphTrue`, `TickersGrow` |
| `graph_reload` | 1 session, no failures | violation of `GraphReloaded` |
| `rate_limit` | 4 principals, a store of 2, burst 2, a third of a token per tick, 2 ticks a second, TTL 4 ticks | `TypeOK`, `RetryAfterHonest`, `WithinBudget`; RateLimit implements Quota |
| `comment_fetch` | 3 comments, every way to reply, capped, permuted and refused answers, failures | `TypeOK`, `ParentsFirst`, `LinksResolved`, `CountCovers`, `LinkKept`, `TruncatedHonest`, `RefetchOnlyMissing` |
| `crawl_handlers` | 2 handlers, 1 slot, a limiter of 4, 2 tries, 2 names in both orders, with fairness | `TypeOK`, `SlotsConserved`, `NothingForgotten`, `HandlersEnd` |
| `crawl_identity` | the same | violation of `NoClash` |

Why the bounds are enough. Two workers are the smallest number that can meet on
a row, and a late worker is one more; `MaxAttempts = 2` has a first failure, a
last one and a parked row; times of one to four units put every order of
lease, back-off, recovery and poll in reach, and no clock is bounded. Two token
requests meet in every pair of statements; four tokens fill a limit of
one and go past it, and a deadlock needs a fifth. Four requests are two inside (or one inside and one
that waits for a group) and two in a queue, which a lost wake-up needs; a third
group is closed by a limit of 0.
`MaxTokens` and `MaxExpired` are the only bounds on behaviours; they are in the
guards `Room` and `Expire`. In `graph_sync` a behaviour
has `MaxTx` transactions: one that stores the post and three that meet on it, or
a follow, its repetition, its end and another; the restarts and loads are not
bounded. Sessions are interchangeable (symmetry; no liveness is checked there).
`RecoverAfter` is longer than `HandlerMax` plus the
back-off, as 3600 s is to the handlers of the program. `rate_limit` has
more principals than buckets, so buckets in use are evicted, ticks shorter than a
second and than a token, and a TTL within which a bucket empties and refills; its
behaviours have no bound. Three comments
make every cycle, a reply to a cycle and a chain across two answers;
`MaxFetched` bounds the counter only in the guard of `Begin`: no fetch begins
once 5 were counted, which is after a second fetch of everything has started.
Two handlers with two names are a deadlock, a limiter of four is halved twice.

Fairness. Workers and the scheduler are loops that always come back (they
catch every exception and sleep for a bounded time), so their steps are weakly
fair, and time passes. A pass of the scheduler that raises has already moved
its timers, so what it lost is due again only an interval later; a database
that is up does not fail every one of them: strong fairness of the successful
pass. Guard: tasks that can run do, and the application ends by its own timeouts.
Crawl handlers: the semaphore and the limiter serve their waiters in order
(strong), a request ends by `mb_http_timeout` and a pause by the clock (weak),
the limiter leaks (weak); Postgres grants locks in the order they were asked for
(strong) and always breaks a deadlock (weak). Nothing is assumed to succeed, and
nothing to fail.

## 4. What the runs found

* `tokens_reuse`: the revocation of all tokens is rolled back by the 401 that
  reports it (`tokens.py:149-153`, `dependencies.py:25-27`).
* `graph_reload`: an edge that is sent between the query of the bulk load and its
  end is wiped by the reset or the load (`ddl.py:402-498`) and stays out of the
  graph until its row is written again. Of what the load promises
  (`config.py:57`) this much holds and is proved: it repairs every edge that
  nobody touches meanwhile (`BulkLoadHeals`), so a load that no transaction runs
  beside ends with the graph of the tables (`QuietLoadReloads`).
* `crawl_identity`: an agent or submolt first stored under the hash of its name
  is not found by the id a later payload has; the insert hits the unique name
  and the handler fails, every time (`upsert.py:51`, against
  `docs/part3-design.md:80`). It takes an API that shows one entity both ways:
  if it shows an id always or never, no name ever clashes (`NoClashOfOne`).

Met while modelling and contained in the models, without a run of their own:

* the back-off counts from the claim (`worker.py:41`, `:115`), not from the
  failure as `docs/part3-design.md` section 10 says (`Left` in `WorkQueue`);
* the token is read without a lock (`tokens.py:143`), so two refreshes rotate it
  twice and no reuse is seen: `SuccessorsBounded` allows one successor per
  request in progress;
* the query for the oldest token does not exclude expired ones as the count
  does (`tokens.py:81-98`): an expired token may be evicted and the limit
  passed. And a mint counts what is committed: two at once each see room for
  one, or evict the same oldest token. The second error accumulates: an
  eviction removes one token for the one it mints, so the excess of each such
  meeting stays until tokens expire, and no number of concurrent requests bounds
  it. `ActiveNearLimit` says that nothing else passes the limit: every token
  over it is one for which there was no room when it was stored, for one of these
  two reasons, and counts only while it is active. Without concurrent requests
  only the first error is left, and the limit holds exactly as long as no
  request at the limit finds its oldest unrevoked token expired
  (`LimitIsKeptAlone`); and a token is rotated once (`RotatesOnceAlone`);
* the response leaves before the commit (`dependencies.py:24`), so a process that
  dies in between has handed out a token that is not stored. That is all that can
  take it back: no statement is left that could wait or fail in a deadlock
  (`DeliveredStored`);
* with two workers `attempts` passes `max_attempts` by one at most, however late
  one of them is (`OverrunByOneAtMost`). With three, and the default is ten
  (`config.py:24` of textlake), it does not stop there: every late worker
  may add one, and one of them may put back a count that it read before the
  others failed (`worker.py:111-124`), so that the row is claimed and fails again;
* the retries of the bulk load run in the transaction that the first failure has
  aborted (`database.py:237`, `:280`): there is never a second attempt
  (`InitTryAgain`, `InitRetry` in `GraphSync`);
* `comments_fetched` adds up every fetch, comments seen before included
  (`comments.py:158`), so it may reach the platform's count while comments are
  missing, and `fetch_post` does not ask again (`docs/part3-design.md:135-139`
  reads it as coverage). What holds is the other direction: `CountCovers`,
  `TruncatedHonest`, `RefetchOnlyMissing`;
* an answer that lists a comment twice fails as a whole: the rows are
  deduplicated (`comments.py:91`), the statistics of the same answer are not
  (`comments.py:133-147`) and repeat a primary key;
* `raw_capture` is never filled and `search_probe` never enqueued.

## 5. Proofs

Every theorem holds for all values of the constants that satisfy the named
assumptions of its module (TLC evaluates them in the runs), so for any number of
workers, requests, tokens, groups, users, comments and handlers. Some theorems
take a condition besides, and each names it:

* `NoOverrun`: no handler outlives its lease. Nothing in the code bounds a
  handler's time; the lease is 300 seconds.
* `TwoWorkers`, and `RecoversLate`: the recovery of parked tasks
  (3600 s, `scheduler.py:20`) waits for twice the longest handler;
* `OneAtATime`: the agent's requests do not overlap; `[]NothingStale`: a request
  at the limit never finds that its oldest unrevoked token has expired, a
  condition on the behaviour; `Counting`: the history of the active tokens is
  kept, which no guard reads;
* `~Faults`: no process or connection fails; deadlocks are still broken;
* `[]QuietLoad`: no transaction is in progress between the query of the bulk
  load and its end, a condition on the behaviour;
* `OneIdentity`: the API shows an entity always with its id or never.

The conditions are needed: TLC finds the property violated without them, in the
runs `graph_reload` and `crawl_identity`, with two requests at once, with an
expired token at the limit, with a commit that fails after its response, with
`HandlerMax > Lease`, with three workers, and with a recovery that does not wait.
TLC has checked every inductive invariant named below on the instances of
section 3, or on ones that meet the condition.

`WorkQueueProofs`

* `TypeCorrect`: `Spec => []TypeOK`. `TypeOK` is not inductive alone: the
  failure path writes through `key[w]` without looking whether the row exists.
  The invariant proved is `TypeInv`, `TypeOK` with "a worker whose row is not
  gone has a row".
* `ExclusiveLease`: under `NoOverrun`, `Spec => []LeaseExclusive`. Exclusion is
  not inductive: nothing in the finalisation keeps workers apart, only the
  time left on the lease does. `HoldsLease` ties the two together (the row
  of worker `w` is held by `w` for exactly `Lease - age[w]` more), and
  `CountHeld` keeps a claimed row below `max_attempts`, so that no recovery
  touches it. `LeaseInv` is their conjunction with `TypeInv`.
* `LeasesHeld`: under `NoOverrun`, `Spec => []HoldsLease`, the first part of
  `LeaseInv` itself.
* `FailuresCounted`, `DeletesSettle`: under `NoOverrun`, the action properties
  `FailureCounted` and `DeleteSettles`, from the same invariant. A row that
  goes was deleted by the worker that held it (the lemmas `FailureRow` ...
  `DeletedRow` say what each step does to a row), and nobody else has its key.
* `AttemptsStayBounded`: under `NoOverrun`, `Spec => []AttemptsBounded`,
  inductive relative to `LeaseInv`: a failure counts on a row that `CountHeld`
  keeps below the limit.
* `OverrunByOneAtMost`: under `TwoWorkers` and `RecoversLate`, without
  `NoOverrun`, `Spec => []AttemptsOverrunByOne`. What must be excluded is a worker
  that writes back a count larger than the limit, or adds to one. `OverrunInv`
  says that a worker whose row is there has it at `max_attempts` at most
  (`HeldCount`), and below while the other one works on the same row
  (`SharedCount`): the claim needs a count below the limit and the first to fail
  leaves the other alone. A held row at the limit was written since its worker's
  claim, by the other one, with the time of that one's own claim: `HeldCount`
  bounds its `idle` by the two, so that no recovery resets it under a worker
  (`RecoversLate`).
* `QueueImplementsCrawlWork`: under `NoOverrun`, `Spec => ImplementsCrawlWork`.
  Each step is one step of `CrawlWork` or none, the scheduler's pass being a
  request for many keys. A claim is its `Begin` because of
  `LeaseExclusive`, a delete its `Finish` because of `HoldsLease`.

`RefreshTokensProofs`

* `TypeCorrect`, from `TokensInv`: what a transaction has so far follows from
  where it is (`Sound`), minted numbers are fresh and distinct, and there are
  enough numbers left for every request that still has to mint.
* `RotationsAreAtomic`: `Spec => []RotationAtomic`; a transaction that mints
  carries its own revocation to the commit (`Sound`).
* `ForksAreBounded`: `SuccessorsBounded` is inductive as "successors stored plus
  refreshes that have passed their lookup of the token" (`SuccessorsInv`): one
  more successor is one less such refresh.
* `LimitIsNear`: where the history is kept (`Counting`), `ActiveNearLimit` from
  `LimitInv`: a mint that has not lost its room finds fewer tokens than the limit
  besides the one that it evicts (`Placing`), through every commit of the others
  (`TakesRoom`), so its own commit keeps the bound.
* `SessionsAreKept`: the action property `RevokedWithCause`: what a transaction that
  commits has updated is what its logout names, what it rotates or what it evicts
  (`Causes`), and the last two come with a mint.
* `ResponsesAreKept`: under `~Faults`, `Spec => []DeliveredStored`. `Answered` says
  that a delivered token is stored or its transaction is at its commit, and a
  transaction there waits for nobody, so no deadlock has it as a member
  (`OnlyCommitIsLeft`).
* `LimitIsKeptAlone`, `RotatesOnceAlone`: under `OneAtATime` nobody commits between
  a count and its commit, and under `[]NothingStale` every eviction picks a
  counted token, so there is no surplus (`NoSurplus`) and `ActiveNearLimit` becomes
  `LimitKept`; `SuccessorsBounded` becomes `RotatedOnce`.

`BackpressureProofs`

* `GuardInv` says of each semaphore (`Sound`) that its queue has exactly its
  waiters, each once; that free permits, holders and woken waiters add up to its
  capacity, which may be 0; and that somebody is awake while a permit is free and a waiter
  sleeps. A step of one request changes at most two semaphores, and what it
  does to each is a lemma about one semaphore, any holders and any waiters.
  `TypeCorrect`, `PermitsAreConserved`, `WakeupsAreKept` and `QueuesAreExact` read
  the four invariants off it.
* `GuardImplementsAdmission`: `Spec => ImplementsAdmission`. A request enters with a
  permit of both semaphores, so what `Admission` limits is bounded by the sums.

`GraphSyncProofs`

* `TypeCorrect`, from `TxInv`: what a transaction holds follows from where it is.
* `TickersInOrder`: `Spec => TickersGrow`, from `LockInv`: no two transactions have
  bumped one subject's counter (`Alone`) or written one follow (`AloneOnRow`), so
  the ticker of a follow in progress is the one its commit leaves in the
  counter, and no committed one is newer (`Clock`).
* `GraphIsTrue`: `Spec => []GraphTrue`, from `GraphInv`: every edge that a transaction
  has sent and nothing has torn is what the tables will say when it commits
  (`SentRight`; `After` is that image), which is stable because nobody
  else can write those rows or send that edge; and what the bulk load has read
  is right but for the edges touched since (`LoadRight`). A commit makes `After`
  the image; a rollback tears what was sent.
* `BulkLoadHeals`: `Spec => LoadHeals`, the action property that the same invariant
  gives at the end of the load: torn edges are repaired unless they are touched
  between the query and the end.
* `QuietLoadReloads`: `Spec /\ []QuietLoad => LoadReloads`; a quiet load has touched
  no edge (`NothingMissed`).

`RateLimitProofs`

* `BudgetKept`: `Spec => []WithinBudget`. The inequality is inductive only with
  the types of the buckets and with "no more ticks since the last refill than in
  the whole life" (`BucketsSound`): tokens that were not refilled yet are on
  the right-hand side. The products `Rate * ticks` are not linear, so each fact
  about them is a lemma of its own.
* `TypeCorrect`, from `RateInv`: the order of the store has no repetition and
  fits (`StoreInv`).
* `RetryAfterIsHonest`: `RateInv` says what a refused principal is promised at every
  moment (`Promised`): what is left in his bucket, what it has gained and what it
  will gain until the header has passed make a token. Losing the bucket keeps
  the promise, as the next one is full.
* `StoreImplementsQuota`: `Spec => ImplementsQuota`. The hard half is the eviction: who
  is pushed out of the store is followed by as many principals as it has room
  for. `Touches` says what a lookup does to the order of the store, from lemmas
  about queues (`AppendFollowers`, `RemovedFollowers`, `TailFollowers`).

`CommentFetchProofs`

* Kahn's algorithm, for an answer of any length: what holds of the queue after
  `i` rounds (`Queued`) is proved by induction over the rounds. The library's
  induction theorems take an operator and cannot be used; `AllOfNat` states
  induction about a set of numbers and is proved from the well-foundedness of the
  naturals, and `RecursionExists` gives the recursive function of the rounds. The
  queue has no more rows than the answer, so all have been taken when it ends
  (`KahnTakesAll`). What it reaches leads back to a root (`ReachedHasRoot`), what it
  leaves is closed under "answers" (`LeftIsClosed`), and `SortedRows`,
  `AnswerRight` put this together: parents first, and links dropped only there.
* `CommentInv` ties this to the lake: the running transaction is built from
  comments the platform has, each once; stored links are the platform's; the
  counter covers the rows. `TypeCorrect`, `ParentsComeFirst`, `LinksAreResolved` and
  `CoverageHolds` are parts of it; `LinksAreKept`, `TruncationIsHonest` and
  `RefetchIsNeeded` are the three action properties: a count that is larger than
  the counter is larger than the number of rows.

`CrawlHandlersProofs`

* `SlotsAreConserved`: `Spec => []SlotsConserved`, from `ClientInv`.
* `TypeCorrect` and `NothingIsForgotten`: the row that a transaction has written
  keeps all that the committed row knows (`RowsKeep`), since nobody else writes
  that name before it ends (`RowsExclusive`). `LakeInv` is their conjunction.
* `NoClashOfOne`: under `OneIdentity`, `Spec => []NoClash`. Every id that is stored,
  written or asked for is one that an answer gives to that name (`IdsSaid`), and
  under `OneIdentity` there is only one.

`DataLemmas` holds what these proofs share: least elements and induction, queues
without repetition, selections, and the existence of recursive functions.

Only model-checked, and why:

* liveness (`NeverStuck`, `PollRecurs`, `RequestsLeave`, `HandlersEnd`): the prover does not reason about fairness and ENABLED;
* the three properties that are violated, of course: `ReuseRevokesAll`,
  `GraphReloaded`, `NoClash`.

## 6. Plan

Every part of the system that keeps state is modelled, and every invariant,
action property and refinement that a run checks and that holds is proved. Left
to do: an attempts bound for three and more late workers, for which the counts
that a worker may put back have to be tied to each other and not only to the
row; the snapshots of the statistics tables.

## 7. Not modelled

* Set-up of the schemas: each process runs idempotent DDL once, in sequence, at
  its start, and the SQL splitter gets no text but the program's own. The one
  order that matters, that the API's `init_db` creates the type `citext` before
  the crawler's tables use it, is the operator's.
* Access tokens, the identity check, scores and rank: pure functions, HTTP calls
  and read-only queries without state.
* In modelled parts: the prune of the empty `raw_capture`; snapshots in the
  `*_stats_ts` tables, which are only inserted; boards; the `DELETE` triggers
  of posts and comments, which nothing deletes; `meritrank_init`, which nothing
  calls; a change of a name under one id, of an author and of a parent.
* Configuration is the CONSTANTS. Logging, Caddy, Docker, deployment, seeding
  and CI have no behaviour to check here.
