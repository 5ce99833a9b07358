---------------------------- MODULE RefreshTokens ----------------------------
(* Refresh tokens of one agent: login, refresh and logout as concurrent       *)
(* transactions of Postgres at READ COMMITTED.  Every statement of            *)
(* auth/tokens.py filters by the token's id or by agent_id, so agents do not  *)
(* meet.                                                                      *)
(*                                                                            *)
(* A statement reads what is committed and what its own transaction wrote.    *)
(* An UPDATE locks its row until the transaction ends and waits for the row's *)
(* other holder; after the wait it goes on, because its WHERE names the id.   *)
(* Tokens are numbered in the order of their created_at; all live equally     *)
(* long, so they also expire in that order.                                   *)
EXTENDS Naturals, FiniteSets

CONSTANTS Requests,   \* the requests that can be in progress at once
          MaxActive,  \* mm_refresh_max_active_per_agent
          MaxTokens,  \* bound: tokens minted in a behaviour
          MaxExpired, \* bound: tokens that expire in a behaviour
          Faults,     \* whether transactions may fail and responses be lost
          Counting    \* whether the history of surplus tokens is kept

ASSUME BoundsAssumption == /\ IsFiniteSet(Requests)
                           /\ MaxActive \in Nat \ {0}
                           /\ MaxTokens \in Nat /\ MaxExpired \in Nat
                           /\ Faults \in BOOLEAN /\ Counting \in BOOLEAN

VARIABLES rows,       \* the tokens in mm_refresh_tokens (committed)
          revoked,    \* those with revoked_at set (committed)
          parent,     \* rotated_from_id, or 0
          expired,    \* the tokens 1 .. expired have passed their expires_at
          next,       \* the next token to be minted
          delivered,  \* the tokens a client has received in a 200 response
          tx,         \* tx[r]: the request's transaction and its locals
          surplus     \* history, if Counting: the stored tokens for which
                      \* there was no room (see `over')

vars == <<rows, revoked, parent, expired, next, delivered, tx, surplus>>
table == <<rows, revoked, parent>>

Tokens == 1 .. MaxTokens

Tx == [op      : {"none", "login", "refresh", "logout"},
       at      : {"idle", "upsert", "lookup", "sweep", "revoke", "count",
                  "pick", "evict", "respond", "commit"},
       token   : 0 .. MaxTokens,     \* the token presented
       forged  : BOOLEAN,            \* its id is right and its secret wrong
       mints   : 0 .. MaxTokens,     \* the token being minted
       victim  : 0 .. MaxTokens,     \* the oldest token, about to be revoked
       over    : BOOLEAN,            \* history: there is no room for what it mints
       revokes : SUBSET Tokens,      \* rows updated and locked
       todo    : SUBSET Tokens]      \* rows the reuse UPDATE has yet to visit

NoTx == [op |-> "none", at |-> "idle", token |-> 0, forged |-> FALSE,
         mints |-> 0, victim |-> 0, over |-> FALSE, revokes |-> {}, todo |-> {}]

TypeOK == /\ rows \subseteq Tokens
          /\ revoked \subseteq rows
          /\ parent \in [Tokens -> 0 .. MaxTokens]
          /\ expired \in 0 .. MaxTokens
          /\ next \in 1 .. MaxTokens + 1
          /\ delivered \subseteq Tokens
          /\ tx \in [Requests -> Tx]
          /\ surplus \subseteq rows

Init == /\ rows = {} /\ revoked = {}
        /\ parent = [t \in Tokens |-> 0]
        /\ expired = 0 /\ next = 1
        /\ delivered = {}
        /\ tx = [r \in Requests |-> NoTx]
        /\ surplus = {}

-----------------------------------------------------------------------------
(* What a transaction sees.                                                  *)

Active == {t \in rows \ revoked : t > expired}

\* WHERE agent_id = ... AND revoked_at IS NULL, inside r's transaction.
Unrevoked(r) == rows \ (revoked \cup tx[r].revokes)

Locked(r, t) == \E s \in Requests \ {r} : t \in tx[s].revokes

\* The upsert of mm_agents holds the agent's row until the login ends.
AgentLocked(r) == \E s \in Requests \ {r} :
                    tx[s].op = "login" /\ tx[s].at # "upsert"

\* The requests whose locks r is waiting for.
WaitsFor(r) ==
    {s \in Requests \ {r} :
        \/ tx[r].at = "upsert" /\ tx[s].op = "login" /\ tx[s].at # "upsert"
        \/ tx[r].at = "revoke" /\ tx[r].token \in tx[s].revokes
        \/ tx[r].at = "evict" /\ tx[r].victim \in tx[s].revokes
        \/ /\ tx[r].at = "sweep" /\ tx[r].todo # {}
           /\ tx[r].todo \subseteq UNION {tx[q].revokes : q \in Requests \ {r}}
           /\ tx[r].todo \cap tx[s].revokes # {}}

\* r is in a set of requests that all wait for one another.
Deadlocked(r) == \E D \in SUBSET Requests :
                   r \in D /\ \A s \in D : WaitsFor(s) \cap D # {}

-----------------------------------------------------------------------------
(* Requests arrive.                                                          *)

\* Bound: a request that may mint begins only while tokens are left for it.
Room == next + Cardinality({s \in Requests : tx[s].at # "idle"}) <= MaxTokens

Arrive(r, op, at, t, f) ==
    /\ tx[r].at = "idle"
    /\ tx' = [tx EXCEPT ![r] = [NoTx EXCEPT !.op = op, !.at = at, !.token = t,
                                           !.forged = f]]
    /\ UNCHANGED <<table, expired, next, delivered, surplus>>

Login(r) == Room /\ Arrive(r, "login", "upsert", 0, FALSE)

\* 0 stands for a token that does not parse or whose id is unknown.
Refresh(r) ==
    Room /\ \E t \in delivered \cup {0}, f \in BOOLEAN :
              (t = 0 => ~f) /\ Arrive(r, "refresh", "lookup", t, f)

\* A logout goes by the id alone, so the secret makes no difference to it.
Logout(r) == \E t \in delivered \cup {0} :
               Arrive(r, "logout", "lookup", t, FALSE)

-----------------------------------------------------------------------------
(* The statements of a transaction.                                          *)

\* The transaction goes to another statement with new locals.
Goto(r, local) == /\ tx' = [tx EXCEPT ![r] = local]
                  /\ UNCHANGED <<table, expired, delivered, surplus>>

Upsert(r) == /\ tx[r].at = "upsert" /\ ~AgentLocked(r)
             /\ Goto(r, [tx[r] EXCEPT !.at = "count"])
             /\ UNCHANGED next

\* The presented token is unknown, or is not revoked and has expired or comes
\* with a wrong secret: 401, nothing was written.
RejectToken(r) ==
    /\ tx[r].at = "lookup" /\ tx[r].op = "refresh"
    /\ \/ tx[r].token \notin rows
       \/ /\ tx[r].token \notin revoked
          /\ tx[r].token <= expired \/ tx[r].forged
    /\ Goto(r, NoTx)
    /\ UNCHANGED next

\* The presented token is revoked, whatever the secret: UPDATE all of the
\* agent's tokens ...
DetectReuse(r) ==
    /\ tx[r].at = "lookup" /\ tx[r].op = "refresh"
    /\ tx[r].token \in revoked
    /\ Goto(r, [tx[r] EXCEPT !.at = "sweep", !.todo = rows \ revoked])
    /\ UNCHANGED next

\* ... row by row, waiting for those that are locked ...
Sweep(r) ==
    /\ tx[r].at = "sweep"
    /\ \E t \in tx[r].todo :
         /\ ~Locked(r, t)
         /\ Goto(r, [tx[r] EXCEPT !.todo = @ \ {t},
                                  !.revokes = @ \cup ({t} \ revoked)])
    /\ UNCHANGED next

\* ... and raise HTTPException(401), on which get_db_session rolls back.
RaiseReuse(r) ==
    /\ tx[r].at = "sweep" /\ tx[r].todo = {}
    /\ Goto(r, NoTx)
    /\ UNCHANGED next

\* Variant: the lookup does not look at revoked_at.
AcceptRevokedToken(r) ==
    /\ tx[r].at = "lookup" /\ tx[r].token \in rows
    /\ tx[r].op = "refresh" => tx[r].token > expired /\ ~tx[r].forged
    /\ Goto(r, [tx[r] EXCEPT !.at = "revoke"])
    /\ UNCHANGED next

AcceptToken(r) ==
    /\ tx[r].at = "lookup" /\ tx[r].token \in rows \ revoked
    /\ tx[r].op = "refresh" => tx[r].token > expired /\ ~tx[r].forged
    /\ Goto(r, [tx[r] EXCEPT !.at = "revoke"])
    /\ UNCHANGED next

\* A logout with a token that is unknown or revoked has nothing to do.
SkipLogout(r) ==
    /\ tx[r].at = "lookup" /\ tx[r].op = "logout"
    /\ tx[r].token \notin rows \ revoked
    /\ Goto(r, [tx[r] EXCEPT !.at = "respond"])
    /\ UNCHANGED next

RevokeToken(r) ==
    /\ tx[r].at = "revoke" /\ ~Locked(r, tx[r].token)
    /\ Goto(r, [tx[r] EXCEPT
                  !.revokes = @ \cup {tx[r].token},
                  !.at = IF tx[r].op = "refresh" THEN "count" ELSE "respond"])
    /\ UNCHANGED next

\* mint_refresh_token takes `now' and counts the active tokens.
CountActive(r) ==
    /\ tx[r].at = "count"
    /\ Goto(r, [tx[r] EXCEPT
                  !.mints = next,
                  !.at = IF Cardinality({t \in Unrevoked(r) : t > expired})
                              >= MaxActive
                         THEN "pick" ELSE "respond"])
    /\ next' = next + 1

\* History: the active tokens that r sees, without those there was no room for.
Counted(r) == {t \in Unrevoked(r) \ surplus : t > expired}

\* History: evicting t makes no room, because t has expired or there was no room
\* for t either, while the others are as many as there may be.
MakesNoRoom(r, t) == t \notin Counted(r) /\ Cardinality(Counted(r)) >= MaxActive

\* At the limit, the oldest token that is not revoked is to be revoked.
Oldest(r, t) == t \in Unrevoked(r) /\ \A u \in Unrevoked(r) : t <= u

Pick(r, t) == [tx[r] EXCEPT !.at = "evict", !.victim = t,
                            !.over = Counting /\ MakesNoRoom(r, t)]

\* Variant: the eviction is not flushed, so it comes after the response.
RespondBeforeEviction(r) ==
    /\ tx[r].at = "pick"
    /\ \/ Unrevoked(r) = {} /\ tx' = [tx EXCEPT ![r].at = "respond"]
       \/ \E t \in Unrevoked(r) : Oldest(r, t) /\ tx' = [tx EXCEPT ![r] = Pick(r, t)]
    /\ delivered' = delivered \cup {tx[r].mints}
    /\ UNCHANGED <<table, expired, surplus, next>>

PickOldest(r) ==
    /\ tx[r].at = "pick"
    /\ IF Unrevoked(r) = {}
       THEN Goto(r, [tx[r] EXCEPT !.at = "respond"])
       ELSE \E t \in Unrevoked(r) : Oldest(r, t) /\ Goto(r, Pick(r, t))
    /\ UNCHANGED next

\* Variant: the oldest token is found but not revoked.
RevokeNothing(r) ==
    /\ tx[r].at = "evict" /\ ~Locked(r, tx[r].victim)
    /\ Goto(r, [tx[r] EXCEPT !.at = "respond"])
    /\ UNCHANGED next

RevokeOldest(r) ==
    /\ tx[r].at = "evict" /\ ~Locked(r, tx[r].victim)
    /\ Goto(r, [tx[r] EXCEPT !.revokes = @ \cup {tx[r].victim},
                             !.at = "respond"])
    /\ UNCHANGED next

\* The new row is inserted and the response is sent; it may be lost.
Respond(r) ==
    /\ tx[r].at = "respond"
    /\ tx' = [tx EXCEPT ![r].at = "commit"]
    /\ IF tx[r].mints = 0
       THEN UNCHANGED <<parent, delivered>>
       ELSE /\ parent' = [parent EXCEPT ![tx[r].mints] = tx[r].token]
            /\ \/ delivered' = delivered \cup {tx[r].mints}
               \/ Faults /\ UNCHANGED delivered
    /\ UNCHANGED <<rows, revoked, expired, next, surplus>>

\* History: s has counted, and evicted if it had to, and the token that r commits
\* takes the room that s has found or made.
TakesRoom(r, s) ==
    /\ tx[r].mints # 0 /\ ~tx[r].over
    /\ tx[s].mints # 0 /\ tx[s].at \in {"evict", "respond", "commit"}
    /\ Cardinality(((Counted(s) \ tx[r].revokes) \cup {tx[r].mints})
                     \ {tx[s].victim}) >= MaxActive

\* r's transaction has ended; the others stay where they are.
EndTx(r) ==
    /\ tx' = [s \in Requests |->
                 IF s = r THEN NoTx
                 ELSE [tx[s] EXCEPT
                         !.over = @ \/ (Counting /\ TakesRoom(r, s))]]
    /\ surplus' = surplus \cup {t \in {tx[r].mints} : tx[r].over}

\* Variants of the commit: without the revocations, without the new row, and with
\* a row for a request that minted nothing.
CommitWithoutRevocation(r) ==
    /\ tx[r].at = "commit"
    /\ rows' = rows \cup ({tx[r].mints} \ {0})
    /\ EndTx(r)
    /\ UNCHANGED <<revoked, parent, expired, next, delivered>>

CommitEmptyRow(r) ==
    /\ tx[r].at = "commit"
    /\ rows' = rows \cup {tx[r].mints}
    /\ revoked' = revoked \cup tx[r].revokes
    /\ EndTx(r)
    /\ UNCHANGED <<parent, expired, next, delivered>>

\* get_db_session commits when the response has been sent.
Commit(r) ==
    /\ tx[r].at = "commit"
    /\ rows' = rows \cup ({tx[r].mints} \ {0})
    /\ revoked' = revoked \cup tx[r].revokes
    /\ EndTx(r)
    /\ UNCHANGED <<parent, expired, next, delivered>>

Step(r) == \/ Upsert(r) \/ RejectToken(r) \/ DetectReuse(r) \/ Sweep(r)
           \/ RaiseReuse(r) \/ AcceptToken(r) \/ SkipLogout(r)
           \/ RevokeToken(r) \/ CountActive(r) \/ PickOldest(r)
           \/ RevokeOldest(r) \/ Respond(r) \/ Commit(r)

\* Postgres aborts a transaction of a deadlock: 500, rolled back.
DeadlockAbort(r) == Deadlocked(r) /\ Goto(r, NoTx) /\ UNCHANGED next

\* Variant: the revocations were committed before the failure.
FailAfterRevocation(r) == /\ Faults /\ tx[r].at # "idle"
                          /\ revoked' = revoked \cup tx[r].revokes
                          /\ tx' = [tx EXCEPT ![r] = NoTx]
                          /\ UNCHANGED <<rows, parent, expired, next, delivered,
                                         surplus>>

\* The process dies, or the connection does, before the commit.
Fail(r) == /\ Faults /\ tx[r].at # "idle"
           /\ Goto(r, NoTx)
           /\ UNCHANGED next

\* Time: the oldest token that has not expired does.
Expire == /\ expired < MaxExpired /\ expired + 1 < next
          /\ expired' = expired + 1
          /\ UNCHANGED <<table, next, delivered, tx, surplus>>

Next == \/ \E r \in Requests : \/ Login(r) \/ Refresh(r) \/ Logout(r)
                               \/ Step(r) \/ DeadlockAbort(r) \/ Fail(r)
        \/ Expire

Spec == Init /\ [][Next]_vars

-----------------------------------------------------------------------------
(* Properties.                                                               *)

Successors(t) == {u \in rows : parent[u] = t}

\* A rotation is one: a token's successor is stored only together with its own
\* revocation, whatever fails in between (tokens.py:165-181).
RotationAtomic == \A t \in Tokens : Successors(t) # {} => t \in revoked

\* Only refreshes that have looked the token up before its revocation was
\* committed can still rotate it: as many as there are requests at once.
SuccessorsBounded ==
    \A t \in Tokens : Cardinality(Successors(t)) <= Cardinality(Requests)

\* Where the history is kept: an agent has more active tokens than the limit only
\* by tokens for which there was no room when they were stored, either because
\* another transaction had stored one after the count, or because the eviction
\* had picked a token that was not active, or such a token again
\* (tokens.py:69-103).  Each that is revoked or expires is one less.
ActiveNearLimit == Cardinality(Active \ surplus) <= MaxActive

\* What requests that do not meet are promised: a token is rotated once, and the
\* limit on active tokens holds as long as the oldest token that a request at the
\* limit finds unrevoked has not expired (tokens.py:81-98).
OneAtATime == \A q, r \in Requests : q = r

RotatedOnce == \A t \in Tokens : \A u, v \in Successors(t) : u = v

NothingStale ==
    \A r \in Requests : tx[r].at = "pick" => \A t \in Unrevoked(r) : t > expired

LimitKept == Cardinality(Active) <= MaxActive

\* Reuse revokes everything: when a request that has presented a revoked token
\* ends, the tokens it found active are revoked (docs/part1-design.md:45).
ReuseRevokesAll ==
    [][\A r \in Requests :
          tx[r].at = "sweep" /\ tx'[r].at = "idle" =>
              tx[r].revokes \subseteq revoked']_vars

\* A request that fails revokes nothing: a token is revoked only by a logout that
\* names it, or together with the storing of the token that replaces it, as its
\* successor or in its place under the limit.  A refresh that fails anywhere
\* between the revocation (tokens.py:167) and the commit leaves the client the
\* token that it has presented.
RevokedWithCause ==
    [][\A t \in revoked' \ revoked : \E r \in Requests :
          \/ tx[r].op = "logout" /\ tx[r].token = t
          \/ /\ tx[r].mints \in rows' \ rows
             /\ t \in {tx[r].token, tx[r].victim}]_vars

\* Where no process and no connection fails: a token that a client has received
\* is stored, or its request is about to.  The response leaves before the commit
\* (dependencies.py:24), but after every statement that may wait for a lock or be
\* aborted in a deadlock, so no deadlock takes back what a client has been told.
DeliveredStored ==
    \A t \in delivered : t \in rows \/ \E r \in Requests : tx[r].mints = t
=============================================================================
