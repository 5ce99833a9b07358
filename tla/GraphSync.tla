------------------------------ MODULE GraphSync ------------------------------
(* The tables and the graph of the MeritRank service.  Follows of the API and *)
(* batches of posts and comments of the crawler are transactions of Postgres  *)
(* at READ COMMITTED; their triggers (schema/ddl.py) send edges to a service  *)
(* that takes part in no transaction.  At start the API loads the whole graph *)
(* in the background, beside them.                                            *)
(*                                                                            *)
(* An edge is a pair.  That of a follow has the ticker of its row as value,   *)
(* the others a weight: 1 for an author's own post or comment (and for the    *)
(* edge back, sent along with it), and for another's the number of comments.  *)
(* 0 is no edge.  Boards are left out: all edges are in one.                  *)
EXTENDS Naturals, Sequences, FiniteSets, SequencesExt

CONSTANTS Agents, Posts, Comments,
          Author,      \* Author[x]: who wrote the post or comment x; an answer
                       \* that names another author later (upsert.py 42), for
                       \* which no trigger runs either, is left out
          On,          \* On[c]: the post of comment c
          ReplyTo,     \* ReplyTo[c]: the comment that c answers, or None
          None,
          Follows,     \* the pairs <<subject, object>> of /agent-subscription
          Batches,     \* what a handler may store: posts or comments, in order
          Sessions,    \* the transactions that can run at once
          MaxTx,       \* bound: transactions in a behaviour
          MaxRetries,  \* _MERITRANK_INIT_MAX_RETRIES
          Faults       \* whether transactions may fail by themselves

Items == Posts \cup Comments
Edges == Follows \cup (Agents \X Items)

ASSUME ItemsAssumption == /\ Author \in [Items -> Agents]
                          /\ On \in [Comments -> Posts]
                          /\ ReplyTo \in [Comments -> Comments \cup {None}]
                          /\ None \notin Items \cup Follows
                          /\ Agents \cap Items = {}
                          /\ IsFiniteSet(Comments)
                          /\ Follows \subseteq Agents \X Agents
                          /\ Batches \subseteq Seq(Items) \ {<<>>}
ASSUME BoundsAssumption == /\ MaxTx \in Nat
                           /\ MaxRetries \in Nat \ {0}
                           /\ Faults \in BOOLEAN

VARIABLES follow,   \* subscribe: follow[e] is the ticker of the row, or 0
          rows,     \* mb_post, mb_comment: the items stored
          parent,   \* parent_id of the stored comments, or None
          vsid,     \* user_vsids: the counter of each agent
          graph,    \* the edges that the MeritRank service has
          tx,       \* the transactions in progress
          begun,    \* how many have been begun
          init,     \* where the bulk load is
          attempt,  \* its retries
          snapshot, \* the edges it has read from the tables, until it loads them
          since,    \* the edges touched meanwhile, or by those still in progress
          torn      \* the edges whose last sender was rolled back, and those
                    \* that changed in the tables without being sent

vars == <<follow, rows, parent, vsid, graph, tx, begun, init, attempt, snapshot,
          since, torn>>
tables == <<follow, rows, parent, vsid>>
load == <<init, attempt, snapshot>>

Tx == [op      : {"none", "follow", "unfollow", "batch"},
       at      : {"idle", "bump", "write", "commit"},
       pair    : Follows \cup {None},
       todo    : Seq(Items),                            \* rows still to upsert
       parents : [Comments -> Comments \cup {None}],    \* what they will say
       bumps   : [Agents -> Nat],                       \* of user_vsids
       ticker  : Nat,                                   \* of the follow's row
       drops   : BOOLEAN,                               \* the row is deleted
       adds    : SUBSET Items,                          \* rows inserted
       links   : SUBSET Comments,                       \* rows given a parent
       sent    : SUBSET Edges]

Orphans == [c \in Comments |-> None]

NoTx == [op |-> "none", at |-> "idle", pair |-> None, todo |-> <<>>,
         parents |-> Orphans, bumps |-> [a \in Agents |-> 0], ticker |-> 0,
         drops |-> FALSE, adds |-> {}, links |-> {}, sent |-> {}]

NoEdges == [e \in Edges |-> 0]

TypeOK == /\ follow \in [Follows -> Nat]
          /\ rows \subseteq Items
          /\ parent \in [Comments -> Comments \cup {None}]
          /\ vsid \in [Agents -> Nat]
          /\ graph \in [Edges -> Nat]
          /\ tx \in [Sessions -> Tx]
          /\ \A r \in Sessions : tx[r].op = "batch" /\ tx[r].at = "bump"
                                => tx[r].todo # <<>>
          /\ begun \in 0 .. MaxTx
          /\ init \in {"start", "read", "reset", "loaded", "aborted", "done", "failed"}
          /\ attempt \in 0 .. MaxRetries - 1
          /\ snapshot \in [Edges -> Nat]
          /\ since \subseteq Edges /\ torn \subseteq Edges

Init == /\ follow = [e \in Follows |-> 0]
        /\ rows = {} /\ parent = Orphans
        /\ vsid = [a \in Agents |-> 0]
        /\ graph = NoEdges
        /\ tx = [r \in Sessions |-> NoTx]
        /\ begun = 0
        /\ init = "start" /\ attempt = 0 /\ snapshot = NoEdges
        /\ since = {} /\ torn = {}

-----------------------------------------------------------------------------
(* What the tables say.                                                      *)

\* The comments of a on x, a post or a comment of somebody else, among the rows
\* R whose parents are P; for the author's own x, whether it is stored.
Weight(a, x, R, P) ==
    IF a = Author[x]
    THEN Cardinality({x} \cap R)
    ELSE Cardinality({c \in R \cap Comments :
                        Author[c] = a /\ (On[c] = x \/ P[c] = x)})

\* The edge that the committed tables stand for.
Image(e) == IF e \in Follows THEN follow[e]
            ELSE Weight(e[1], e[2], rows, parent)

\* What is sent when x, with the parent p, is inserted: the author's edge with x,
\* and its edges to the post and to the comment that x is an upvote of.
Targets(x, p) == {x} \cup (IF x \in Comments THEN {On[x], p} \ {None} ELSE {})
Sends(x, p) == {<<Author[x], y>> : y \in {y \in Targets(x, p) :
                  y = x \/ Author[y] # Author[x]}}

\* Variant: nobody holds the row.
VsidUnlocked(r, a) == FALSE

\* The row of user_vsids is locked from its update until the transaction ends.
VsidLocked(r, a) == \E s \in Sessions \ {r} : tx[s].bumps[a] > 0

\* Variant: a follow and an unfollow of one row do not wait for one another.
RowUnlocked(r, e) == FALSE

\* A committed row of subscribe that another transaction updates or deletes.
RowLocked(r, e) ==
    follow[e] # 0 /\ \E s \in Sessions \ {r} :
                       tx[s].pair = e /\ (tx[s].ticker # 0 \/ tx[s].drops)

\* Transactions that wait for one another's counters.
WaitsFor(r) ==
    IF tx[r].op = "batch" /\ tx[r].at = "bump"
    THEN {s \in Sessions \ {r} : tx[s].bumps[Author[Head(tx[r].todo)]] > 0}
    ELSE IF tx[r].op = "follow" /\ tx[r].at = "bump"
    THEN {s \in Sessions \ {r} : tx[s].bumps[tx[r].pair[1]] > 0}
    ELSE {}
Deadlocked(r) == \E D \in SUBSET Sessions :
                   r \in D /\ \A s \in D : WaitsFor(s) \cap D # {}

-----------------------------------------------------------------------------
(* The transactions.                                                         *)

Begin(r, local) == /\ tx[r].at = "idle" /\ begun < MaxTx
                   /\ tx' = [tx EXCEPT ![r] = local]
                   /\ begun' = begun + 1
                   /\ UNCHANGED <<tables, graph, load, since, torn>>

\* POST /v1/events/agent-subscription.
BeginFollow(r) ==
    \E e \in Follows : Begin(r, [NoTx EXCEPT !.op = "follow", !.at = "bump",
                                             !.pair = e])
BeginUnfollow(r) ==
    \E e \in Follows : Begin(r, [NoTx EXCEPT !.op = "unfollow", !.at = "write",
                                             !.pair = e])

\* A handler has its response, and has looked up the parents that are not part
\* of it: those that are nowhere are dropped.
BeginBatch(r) ==
    \E b \in Batches :
        LET known == rows \cup ToSet(b)
        IN  /\ \A c \in ToSet(b) \cap Comments : On[c] \in rows
            /\ Begin(r, [NoTx EXCEPT
                 !.op = "batch", !.at = "bump", !.todo = b,
                 !.parents = [c \in Comments |->
                    IF ReplyTo[c] \in known THEN ReplyTo[c] ELSE None]])

\* The bulk load misses the edges E, unless its query is still to come.
Touch(E) == since' = IF init \in {"read", "reset"} THEN since \cup E ELSE since

\* The triggers of transaction r send the edges E with the values of val.
Send(r, local, E, val(_)) ==
    /\ graph' = [e \in Edges |-> IF e \in E THEN val(e) ELSE graph[e]]
    /\ tx' = [tx EXCEPT ![r] = [local EXCEPT !.sent = @ \cup E]]
    /\ torn' = torn \ E
    /\ Touch(E)
    /\ UNCHANGED <<tables, begun, load>>

\* The BEFORE INSERT trigger of the follow.
Bump(r) ==
    /\ tx[r].op = "follow" /\ tx[r].at = "bump"
    /\ ~VsidLocked(r, tx[r].pair[1])
    /\ tx' = [tx EXCEPT ![r].bumps[tx[r].pair[1]] = 1, ![r].at = "write"]
    /\ UNCHANGED <<tables, graph, begun, load, since, torn>>

\* The row is inserted, or in conflict updated, with another bump before it.
WriteFollow(r) ==
    LET e == tx[r].pair
        bumps == IF follow[e] = 0 THEN 1 ELSE 2
    IN  /\ tx[r].op = "follow" /\ tx[r].at = "write"
        /\ ~RowLocked(r, e)
        /\ Send(r, [tx[r] EXCEPT !.bumps[e[1]] = bumps, !.at = "commit",
                                 !.ticker = vsid[e[1]] + bumps],
                {e}, LAMBDA f : vsid[e[1]] + bumps)

\* DELETE: of no row, or of one that nobody else has locked.
WriteUnfollow(r) ==
    LET e == tx[r].pair
    IN  /\ tx[r].op = "unfollow" /\ tx[r].at = "write"
        /\ ~RowLocked(r, e)
        /\ Send(r, [tx[r] EXCEPT !.drops = (follow[e] # 0), !.at = "commit"],
                IF follow[e] # 0 THEN {e} ELSE {}, LAMBDA f : 0)

\* Variant: the batch goes on after its last row.
UpsertTooFar(r) ==
    LET a == Author[Head(tx[r].todo)]
    IN  /\ tx[r].op = "batch" /\ tx[r].at = "bump"
        /\ ~VsidLocked(r, a)
        /\ Send(r, [tx[r] EXCEPT !.bumps[a] = @ + 1, !.todo = Tail(@)], {},
                LAMBDA e : 0)

\* The upsert of the next row.  The counter is bumped before the conflict with
\* a stored row is found; the update that follows then sends nothing, even if
\* it gives the comment its parent.
Upsert(r) ==
    LET x == Head(tx[r].todo)
        a == Author[x]
        seen == rows \cup tx[r].adds
        p == IF x \in Comments THEN tx[r].parents[x] ELSE None
        P == [c \in Comments |-> IF c \in tx[r].adds \cup tx[r].links \cup {x}
                                 THEN tx[r].parents[c] ELSE parent[c]]
        next == [tx[r] EXCEPT
                   !.bumps[a] = @ + 1,
                   !.todo = Tail(@),
                   !.at = IF Len(tx[r].todo) = 1 THEN "commit" ELSE "bump"]
    IN  /\ tx[r].op = "batch" /\ tx[r].at = "bump"
        /\ ~VsidLocked(r, a)
        /\ IF x \notin seen
           THEN Send(r, [next EXCEPT !.adds = @ \cup {x}], Sends(x, p),
                     LAMBDA e : Weight(e[1], e[2], seen \cup {x}, P))
           ELSE IF p # None /\ x \notin tx[r].adds /\ parent[x] # p
           THEN Send(r, [next EXCEPT !.links = @ \cup {x}], {}, LAMBDA e : 0)
           ELSE Send(r, next, {}, LAMBDA e : 0)

\* The edges that a stored comment's new parent stands for.
Linked(r) == {<<Author[c], tx[r].parents[c]>> : c \in tx[r].links} \cap Edges

Commit(r) ==
    /\ tx[r].at = "commit"
    /\ follow' = [e \in Follows |->
                    IF e # tx[r].pair THEN follow[e]
                    ELSE IF tx[r].drops THEN 0
                    ELSE IF tx[r].ticker # 0 THEN tx[r].ticker ELSE follow[e]]
    /\ rows' = rows \cup tx[r].adds
    /\ parent' = [c \in Comments |-> IF c \in tx[r].adds \cup tx[r].links
                                     THEN tx[r].parents[c] ELSE parent[c]]
    /\ vsid' = [a \in Agents |-> vsid[a] + tx[r].bumps[a]]
    /\ tx' = [tx EXCEPT ![r] = NoTx]
    /\ torn' = torn \cup Linked(r)
    /\ Touch(Linked(r))
    /\ UNCHANGED <<graph, begun, load>>

\* A rollback takes back what is in the tables, and nothing of what was sent.
Rollback(r) ==
    /\ tx' = [tx EXCEPT ![r] = NoTx]
    /\ torn' = torn \cup tx[r].sent
    /\ UNCHANGED <<tables, graph, begun, load, since>>

DeadlockAbort(r) == Deadlocked(r) /\ Rollback(r)
Fail(r) == Faults /\ tx[r].at # "idle" /\ Rollback(r)

-----------------------------------------------------------------------------
(* meritrank_bulk_init, in the background of the API.                        *)

InitRead == /\ init = "start"
            /\ init' = "read"
            /\ snapshot' = [e \in Edges |-> Image(e)]
            /\ since' = UNION {tx[r].sent \cup Linked(r) : r \in Sessions}
            /\ UNCHANGED <<tables, graph, tx, begun, attempt, torn>>

InitReset == /\ init = "read"
             /\ init' = "reset"
             /\ graph' = NoEdges
             /\ torn' = Edges
             /\ UNCHANGED <<tables, tx, begun, attempt, snapshot, since>>

\* What the service does with the edges it has got since the reset is its own
\* affair: those that the load does not name are kept, or not.
InitLoad ==
    LET extra == {e \in Edges : snapshot[e] = 0 /\ graph[e] # 0}
    IN  /\ init = "reset"
        /\ init' = "loaded"
        /\ \E kept \in {{}, extra} :
              graph' = [e \in Edges |-> IF e \in kept THEN graph[e] ELSE snapshot[e]]
        /\ torn' = since
        /\ snapshot' = NoEdges /\ since' = {}
        /\ UNCHANGED <<tables, tx, begun, attempt>>

InitSynced == /\ init = "loaded"
              /\ init' = "done"
              /\ UNCHANGED <<tables, graph, tx, begun, attempt, snapshot, since, torn>>

\* The service answers a call of the function with "Try again": the statement
\* fails, and with it the transaction it is in.  Unless it was the last attempt,
\* another one is made, in the same transaction.
InitTryAgain ==
    /\ Faults
    /\ init \in {"read", "reset", "loaded"}
    /\ IF attempt = MaxRetries - 1
       THEN init' = "failed" /\ UNCHANGED attempt
       ELSE init' = "aborted" /\ attempt' = attempt + 1
    /\ snapshot' = NoEdges /\ since' = {}
    /\ UNCHANGED <<tables, graph, tx, begun, torn>>

\* Postgres refuses every statement of an aborted transaction, with an error
\* that is not "Try again" and so is raised.
InitRetry == /\ init = "aborted"
             /\ init' = "failed"
             /\ UNCHANGED <<tables, graph, tx, begun, attempt, snapshot, since, torn>>

\* The API stops, with its requests and its load, and starts again.  After a hard
\* kill the backend of Postgres may still finish the load: InitReset, InitLoad and
\* InitSynced then come first, after a Fail of every request, because the DROP
\* TRIGGERs of the new start (schema/ddl.py 225-253, main.py 27) wait for the
\* locks of the load's query.
Restart ==
    LET lost == {r \in Sessions : tx[r].op \in {"follow", "unfollow"}}
    IN  /\ Faults
        /\ init # "start"
        /\ init' = "start" /\ attempt' = 0 /\ snapshot' = NoEdges /\ since' = {}
        /\ tx' = [r \in Sessions |-> IF r \in lost THEN NoTx ELSE tx[r]]
        /\ torn' = torn \cup UNION {tx[r].sent : r \in lost}
        /\ UNCHANGED <<tables, graph, begun>>

Next == \/ \E r \in Sessions :
              \/ BeginFollow(r) \/ BeginUnfollow(r) \/ BeginBatch(r)
              \/ Bump(r) \/ WriteFollow(r) \/ WriteUnfollow(r) \/ Upsert(r)
              \/ Commit(r) \/ DeadlockAbort(r) \/ Fail(r)
        \/ InitRead \/ InitReset \/ InitLoad \/ InitSynced
        \/ InitTryAgain \/ InitRetry \/ Restart

Spec == Init /\ [][Next]_vars

-----------------------------------------------------------------------------
(* Properties.                                                               *)

InFlight == UNION {tx[r].sent : r \in Sessions}

\* The graph is what the tables say, though the service takes part in no
\* transaction and every trigger sends an absolute value from what it can see:
\* an edge is wrong only while a transaction that has sent it is in progress, or
\* when the last one that sent it was rolled back (schema/ddl.py 121, 147), when a
\* stored comment got its parent (no trigger on UPDATE, 250), or when it was
\* touched between the bulk load's query and its end (402-498).
GraphTrue == \A e \in Edges \ (torn \cup InFlight) : graph[e] = Image(e)

\* The follows of a subject are committed in the order of their tickers: one that
\* is written has a newer ticker than every follow that its subject has then.
\* The counter is shared with the posts and comments that the crawler stores, and
\* is bumped twice by a follow that was there (bump_vsids and the BEFORE INSERT
\* and BEFORE UPDATE triggers, schema/ddl.py 34-41, 235-238).
TickersGrow ==
    [][\A e \in Follows :
         follow'[e] \notin {0, follow[e]}
           => \A f \in Follows : f[1] = e[1] => follow[f] < follow'[e]]_vars

\* When the bulk load ends, every edge that nobody has touched since its query is
\* what the tables say, whatever was wrong with it before.
LoadHeals ==
    [][init = "reset" /\ init' = "loaded"
         => \A e \in Edges \ since : graph'[e] = Image(e)']_vars

\* No transaction is in progress while the bulk load is.
QuietLoad == init \in {"read", "reset"} => \A r \in Sessions : tx[r].at = "idle"

\* What the load promises then: it ends with the graph of the tables.
LoadReloads ==
    [][init = "reset" /\ init' = "loaded"
         => \A e \in Edges : graph'[e] = Image(e)']_vars

\* config.py:57: "MeritRank init on startup (reload existing graph; ...)".  When
\* the load is done and nothing is in progress, the service has the graph of the
\* tables.
GraphReloaded == (init = "done" /\ \A r \in Sessions : tx[r].at = "idle")
                   => \A e \in Edges : graph[e] = Image(e)

=============================================================================
