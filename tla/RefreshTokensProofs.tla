------------------------- MODULE RefreshTokensProofs -------------------------
(* Theorems about RefreshTokens, for any finite number of requests at once    *)
(* and any limit on active tokens.                                            *)
EXTENDS RefreshTokens, FiniteSetTheorems, TLAPS

-----------------------------------------------------------------------------
(* The inductive invariant: what a transaction's locals say about the table.  *)

\* The statements at which a rotation has updated the presented token's row.
Rotating == {"count", "pick", "evict", "respond", "commit"}

\* Where each kind of request can be.
Placed(x) ==
    \/ x = NoTx
    \/ x.op = "login" /\ x.at \in Rotating \cup {"upsert"} /\ x.token = 0
    \/ x.op = "refresh" /\ x.at \in Rotating \cup {"lookup", "sweep", "revoke"}
    \/ x.op = "logout" /\ x.at \in {"lookup", "revoke", "respond", "commit"}

\* The token being minted is nobody's yet, and after the INSERT it has its parent.
\* R, P and n are the rows, their parents and the next token.
Fresh(x, R, P, n) ==
    x.mints # 0 =>
        /\ x.op # "logout" /\ x.at \in Rotating \ {"count"}
        /\ x.mints \notin R /\ x.mints < n
        /\ x.at = "commit" => P[x.mints] = x.token

\* Only the presented token and a victim are revoked, but for the sweep of a
\* detected reuse; a request that may mint has its token before it evicts.
Causes(x) ==
    /\ x.victim # 0 => x.at \in {"evict", "respond", "commit"}
    /\ x.at \in {"respond", "commit"} => x.victim \in x.revokes \cup {0}
    /\ x.at # "sweep" => x.revokes \subseteq {x.token, x.victim}
    /\ x.op = "logout" => x.revokes \subseteq {x.token}
    /\ x.op # "logout" /\ x.at \in Rotating \ {"count"} => x.mints # 0
    /\ x.over => x.mints # 0

Sound(x, R, P, n) ==
    /\ x \in Tx /\ Placed(x) /\ Fresh(x, R, P, n) /\ Causes(x)
    /\ x.revokes \subseteq R /\ x.todo \subseteq R
    /\ x.at = "revoke" => x.token \in R
    /\ x.at = "evict" => x.victim \in R
    /\ x.op = "refresh" /\ x.at \in Rotating => x.token \in x.revokes

\* The requests that have a token to mint.
Minters == {r \in Requests : /\ tx[r].at # "idle" /\ tx[r].op # "logout"
                             /\ tx[r].mints = 0}

Distinct == \A r, s \in Requests :
                r # s /\ tx[r].mints # 0 => tx[r].mints # tx[s].mints

TokensInv == /\ TypeOK
             /\ \A r \in Requests : Sound(tx[r], rows, parent, next)
             /\ \A t \in rows : t < next
             /\ Distinct
             /\ next + Cardinality(Minters) <= MaxTokens + 1

\* The refreshes that have passed their lookup of t.
Accepted(t) == {r \in Requests : /\ tx[r].op = "refresh" /\ tx[r].token = t
                                 /\ tx[r].at \in Rotating \cup {"revoke"}}

SuccessorsInv ==
    /\ RotationAtomic
    /\ \A t \in Tokens :
         Cardinality(Successors(t)) + Cardinality(Accepted(t))
             <= Cardinality(Requests)

\* A mint that is not over the limit has found room or has made it.
HasRoom(r) == Cardinality(Counted(r) \ {tx[r].victim}) < MaxActive

Placing(r) ==
    /\ tx[r].mints # 0 /\ ~tx[r].over
    /\ tx[r].at \in {"evict", "respond", "commit"}
    => HasRoom(r)

LimitInv == ActiveNearLimit /\ \A r \in Requests : Placing(r)

-----------------------------------------------------------------------------
(* Sizes of sets that differ by one element.                                 *)

LEMMA OneMore ==
    ASSUME NEW S, NEW T, NEW x, IsFiniteSet(S), T \subseteq S \cup {x}
    PROVE  Cardinality(T) <= Cardinality(S) + 1
<1>1. IsFiniteSet(S \cup {x}) /\ Cardinality(S) \in Nat
    BY FS_AddElement, FS_CardinalityType
<1>2. Cardinality(S \cup {x}) <= Cardinality(S) + 1
    BY <1>1, FS_AddElement
<1>3. Cardinality(T) <= Cardinality(S \cup {x}) /\ Cardinality(T) \in Nat
      /\ Cardinality(S \cup {x}) \in Nat
    BY <1>1, FS_Subset, FS_CardinalityType
<1> QED BY <1>1, <1>2, <1>3

LEMMA OneLess ==
    ASSUME NEW S, NEW T, NEW x, IsFiniteSet(S), x \in S, T \subseteq S \ {x}
    PROVE  Cardinality(T) <= Cardinality(S) - 1
<1>1. IsFiniteSet(S \ {x}) /\ Cardinality(S \ {x}) = Cardinality(S) - 1
    BY FS_RemoveElement
<1> QED BY <1>1, FS_Subset

-----------------------------------------------------------------------------
(* The locals of the transactions.                                           *)

LEMMA NoTxSound ==
    ASSUME NEW R, NEW P, NEW n
    PROVE  Sound(NoTx, R, P, n)
BY BoundsAssumption DEF Sound, Causes, Placed, Fresh, Rotating, NoTx, Tx, Tokens

LEMMA MintersFinite ==
    /\ IsFiniteSet(Minters) /\ Cardinality(Minters) \in Nat
    /\ IsFiniteSet({s \in Requests : tx[s].at # "idle"})
    /\ Cardinality({s \in Requests : tx[s].at # "idle"}) \in Nat
BY BoundsAssumption, FS_Subset, FS_CardinalityType DEF Minters

\* A step to new locals that mints nothing keeps the invariant.
LEMMA GotoKeeps ==
    ASSUME TokensInv, NEW r \in Requests, NEW x,
           Goto(r, x), UNCHANGED next,
           Sound(x, rows, parent, next), x.mints \in {0, tx[r].mints},
           x.mints = 0 /\ x.at # "idle" /\ x.op # "logout" => r \in Minters
    PROVE  TokensInv'
<1>1. /\ tx' = [tx EXCEPT ![r] = x]
      /\ rows' = rows /\ revoked' = revoked /\ parent' = parent
      /\ expired' = expired /\ delivered' = delivered /\ surplus' = surplus
    BY DEF Goto, table
<1>2. x \in Tx /\ tx \in [Requests -> Tx]
    BY DEF Sound, TokensInv, TypeOK
<1>3. \A s \in Requests : tx'[s] = IF s = r THEN x ELSE tx[s]
    BY <1>1, <1>2
<1>4. TypeOK'
    BY <1>1, <1>2 DEF TypeOK, TokensInv
<1>5. \A s \in Requests : Sound(tx'[s], rows', parent', next')
    BY <1>1, <1>3 DEF TokensInv
<1>6. Distinct'
    BY <1>3 DEF TokensInv, Distinct
<1>7. Cardinality(Minters') <= Cardinality(Minters)
  <2>1. Minters' \subseteq Minters
      BY <1>3 DEF Minters
  <2> QED BY <2>1, MintersFinite, FS_Subset
<1>8. Cardinality(Minters') \in Nat
    BY <1>7, MintersFinite, FS_Subset, BoundsAssumption, FS_CardinalityType DEF Minters
<1>9. next' + Cardinality(Minters') <= MaxTokens + 1
    BY <1>7, <1>8, MintersFinite, BoundsAssumption DEF TokensInv, TypeOK
<1> QED BY <1>1, <1>4, <1>5, <1>6, <1>9 DEF TokensInv

LEMMA ArriveKeeps ==
    ASSUME TokensInv, NEW r \in Requests,
           NEW op \in {"login", "refresh", "logout"}, NEW at,
           NEW t \in 0 .. MaxTokens, NEW f \in BOOLEAN, Arrive(r, op, at, t, f),
           \/ op = "login" /\ at = "upsert" /\ t = 0 /\ Room
           \/ op = "refresh" /\ at = "lookup" /\ Room
           \/ op = "logout" /\ at = "lookup"
    PROVE  TokensInv'
<1> DEFINE x == [NoTx EXCEPT !.op = op, !.at = at, !.token = t, !.forged = f]
<1>1. /\ tx[r].at = "idle" /\ tx' = [tx EXCEPT ![r] = x]
      /\ rows' = rows /\ revoked' = revoked /\ parent' = parent /\ next' = next
      /\ expired' = expired /\ delivered' = delivered /\ surplus' = surplus
    BY DEF Arrive, table
<1>2. Sound(x, rows, parent, next)
  <2>1. at \in {"upsert", "lookup"} /\ 0 \in 0 .. MaxTokens
      BY BoundsAssumption
  <2>2. NoTx \in Tx
      BY <2>1 DEF NoTx, Tx, Tokens
  <2>3. x \in Tx /\ x.op = op /\ x.at = at /\ x.token = t
      BY <2>1, <2>2 DEF Tx
  <2>4. x.mints = 0 /\ x.revokes = {} /\ x.todo = {} /\ x.over = FALSE
        /\ x.victim = 0
      BY DEF NoTx
  <2> HIDE DEF x
  <2> QED BY <2>3, <2>4 DEF Sound, Causes, Placed, Fresh, Rotating
<1>3. x.mints = 0 /\ x.op = op /\ x.at # "idle" /\ x \in Tx
    BY <1>2 DEF NoTx, Sound
<1> HIDE DEF x
<1>4. tx \in [Requests -> Tx] /\ tx' \in [Requests -> Tx]
    BY <1>1, <1>3 DEF TokensInv, TypeOK
<1>5. \A s \in Requests : tx'[s] = IF s = r THEN x ELSE tx[s]
    BY <1>1, <1>4
<1>6. \A s \in Requests : Sound(tx'[s], rows', parent', next')
    BY <1>1, <1>2, <1>5 DEF TokensInv
<1>7. Distinct'
    BY <1>3, <1>5 DEF TokensInv, Distinct
<1>8. next' + Cardinality(Minters') <= MaxTokens + 1
  <2> DEFINE Busy == {s \in Requests : tx[s].at # "idle"}
  <2>1. CASE op = "logout"
    <3>1. Minters' = Minters
        BY <2>1, <1>1, <1>3, <1>5 DEF Minters
    <3> QED BY <3>1, <1>1 DEF TokensInv
  <2>2. CASE op # "logout"
    <3>1. Minters' \subseteq Busy \cup {r}
        BY <1>5 DEF Minters
    <3>2. r \notin Busy /\ IsFiniteSet(Busy) /\ Cardinality(Busy) \in Nat
        BY <1>1, MintersFinite
    <3>3. IsFiniteSet(Busy \cup {r}) /\ Cardinality(Busy \cup {r}) = Cardinality(Busy) + 1
        BY <3>2, FS_AddElement
    <3>4. Cardinality(Minters') <= Cardinality(Busy) + 1
        BY <3>1, <3>3, FS_Subset
    <3>5. Cardinality(Minters') \in Nat
        BY <3>1, <3>3, FS_Subset, FS_CardinalityType
    <3>6. next + Cardinality(Busy) <= MaxTokens
        BY <2>2 DEF Room
    <3> HIDE DEF Busy
    <3> QED BY <1>1, <3>2, <3>4, <3>5, <3>6, BoundsAssumption DEF TokensInv, TypeOK
  <2> QED BY <2>1, <2>2
<1> QED BY <1>1, <1>4, <1>6, <1>7, <1>8 DEF TokensInv, TypeOK

LEMMA LoginKeeps ==
    ASSUME TokensInv, NEW r \in Requests, Login(r)
    PROVE  TokensInv'
<1>1. 0 \in 0 .. MaxTokens
    BY BoundsAssumption
<1>2. Arrive(r, "login", "upsert", 0, FALSE) /\ Room
    BY DEF Login
<1> QED BY <1>1, <1>2, ArriveKeeps

LEMMA RefreshKeeps ==
    ASSUME TokensInv, NEW r \in Requests, Refresh(r) \/ Logout(r)
    PROVE  TokensInv'
<1>1. delivered \cup {0} \subseteq 0 .. MaxTokens
    BY BoundsAssumption DEF TokensInv, TypeOK, Tokens
<1>2. CASE Refresh(r)
  <2> PICK t \in delivered \cup {0}, f \in BOOLEAN :
           Arrive(r, "refresh", "lookup", t, f)
      BY <1>2 DEF Refresh
  <2>1. t \in 0 .. MaxTokens /\ Room
      BY <1>1, <1>2 DEF Refresh
  <2> QED BY <2>1, ArriveKeeps
<1>3. CASE Logout(r)
  <2> PICK t \in delivered \cup {0} : Arrive(r, "logout", "lookup", t, FALSE)
      BY <1>3 DEF Logout
  <2>1. t \in 0 .. MaxTokens
      BY <1>1
  <2> QED BY <2>1, ArriveKeeps
<1> QED BY <1>2, <1>3

\* Every statement but those that mint and commit is a Goto.
LEMMA UpsertKeeps ==
    ASSUME TokensInv, NEW r \in Requests, Upsert(r)
    PROVE  TokensInv'
<1> DEFINE x == [tx[r] EXCEPT !.at = "count"]
<1>1. Goto(r, x) /\ next' = next /\ tx[r].at = "upsert"
    BY DEF Upsert
<1>2. Sound(tx[r], rows, parent, next)
    BY DEF TokensInv
<1>3. Sound(x, rows, parent, next) /\ x.mints = tx[r].mints /\ r \in Minters
    BY <1>1, <1>2 DEF Sound, Causes, Placed, Fresh, Tx, NoTx, Rotating, Minters
<1> QED BY <1>1, <1>3, GotoKeeps

LEMMA AbortKeeps ==
    ASSUME TokensInv, NEW r \in Requests, Goto(r, NoTx), UNCHANGED next
    PROVE  TokensInv'
<1>1. NoTx.mints = 0 /\ NoTx.at = "idle"
    BY DEF NoTx
<1> QED BY <1>1, NoTxSound, GotoKeeps

LEMMA DetectReuseKeeps ==
    ASSUME TokensInv, NEW r \in Requests, DetectReuse(r)
    PROVE  TokensInv'
<1> DEFINE x == [tx[r] EXCEPT !.at = "sweep", !.todo = rows \ revoked]
<1>1. Goto(r, x) /\ next' = next /\ tx[r].at = "lookup" /\ tx[r].op = "refresh"
    BY DEF DetectReuse
<1>2. Sound(tx[r], rows, parent, next) /\ rows \subseteq Tokens
    BY DEF TokensInv, TypeOK
<1>3. Sound(x, rows, parent, next) /\ x.mints = tx[r].mints /\ r \in Minters
    BY <1>1, <1>2 DEF Sound, Causes, Placed, Fresh, Tx, NoTx, Rotating, Minters
<1> QED BY <1>1, <1>3, GotoKeeps

LEMMA SweepKeeps ==
    ASSUME TokensInv, NEW r \in Requests, Sweep(r)
    PROVE  TokensInv'
<1> PICK t \in tx[r].todo :
        Goto(r, [tx[r] EXCEPT !.todo = @ \ {t}, !.revokes = @ \cup ({t} \ revoked)])
    BY DEF Sweep
<1> DEFINE x == [tx[r] EXCEPT !.todo = @ \ {t}, !.revokes = @ \cup ({t} \ revoked)]
<1>1. Goto(r, x) /\ next' = next /\ tx[r].at = "sweep"
    BY DEF Sweep
<1>2. Sound(tx[r], rows, parent, next) /\ rows \subseteq Tokens
    BY DEF TokensInv, TypeOK
<1>3. /\ x \in Tx
      /\ x.op = tx[r].op /\ x.mints = tx[r].mints /\ x.token = tx[r].token
      /\ x.at = tx[r].at /\ x.over = tx[r].over /\ x.victim = tx[r].victim
      /\ tx[r].revokes \subseteq x.revokes
      /\ x.todo \subseteq tx[r].todo /\ x.revokes \subseteq tx[r].revokes \cup {t}
    BY <1>1, <1>2 DEF Sound, Tx
<1> HIDE DEF x
<1>4. Sound(x, rows, parent, next)
    BY <1>1, <1>2, <1>3 DEF Sound, Causes, Placed, Fresh, Rotating, NoTx
<1>5. x.mints = 0 /\ x.op # "logout" => r \in Minters
    BY <1>1, <1>3 DEF Minters
<1> QED BY <1>1, <1>3, <1>4, <1>5, GotoKeeps

LEMMA AcceptTokenKeeps ==
    ASSUME TokensInv, NEW r \in Requests, AcceptToken(r)
    PROVE  TokensInv'
<1> DEFINE x == [tx[r] EXCEPT !.at = "revoke"]
<1>1. Goto(r, x) /\ next' = next /\ tx[r].at = "lookup" /\ tx[r].token \in rows
    BY DEF AcceptToken
<1>2. Sound(tx[r], rows, parent, next)
    BY DEF TokensInv
<1>3. /\ Sound(x, rows, parent, next) /\ x.mints = tx[r].mints
      /\ x.op # "logout" => r \in Minters
    BY <1>1, <1>2 DEF Sound, Causes, Placed, Fresh, Tx, NoTx, Rotating, Minters
<1> QED BY <1>1, <1>3, GotoKeeps

LEMMA SkipLogoutKeeps ==
    ASSUME TokensInv, NEW r \in Requests, SkipLogout(r)
    PROVE  TokensInv'
<1> DEFINE x == [tx[r] EXCEPT !.at = "respond"]
<1>1. Goto(r, x) /\ next' = next /\ tx[r].at = "lookup" /\ tx[r].op = "logout"
    BY DEF SkipLogout
<1>2. Sound(tx[r], rows, parent, next)
    BY DEF TokensInv
<1>3. Sound(x, rows, parent, next) /\ x.mints = tx[r].mints /\ x.op = "logout"
    BY <1>1, <1>2 DEF Sound, Causes, Placed, Fresh, Tx, NoTx, Rotating
<1> QED BY <1>1, <1>3, GotoKeeps

LEMMA RevokeTokenKeeps ==
    ASSUME TokensInv, NEW r \in Requests, RevokeToken(r)
    PROVE  TokensInv'
<1> DEFINE x == [tx[r] EXCEPT !.revokes = @ \cup {tx[r].token},
                              !.at = IF tx[r].op = "refresh" THEN "count"
                                     ELSE "respond"]
<1>1. Goto(r, x) /\ next' = next /\ tx[r].at = "revoke"
    BY DEF RevokeToken
<1>2. Sound(tx[r], rows, parent, next) /\ rows \subseteq Tokens
    BY DEF TokensInv, TypeOK
<1>3. /\ x \in Tx
      /\ x.op = tx[r].op /\ x.mints = tx[r].mints /\ x.token = tx[r].token
      /\ x.todo = tx[r].todo /\ x.over = tx[r].over
      /\ x.victim = tx[r].victim
      /\ x.at = IF tx[r].op = "refresh" THEN "count" ELSE "respond"
      /\ x.revokes = tx[r].revokes \cup {tx[r].token}
    BY <1>1, <1>2 DEF Sound, Tx
<1> HIDE DEF x
<1>4. Sound(x, rows, parent, next)
    BY <1>1, <1>2, <1>3 DEF Sound, Causes, Placed, Fresh, Rotating, NoTx
<1>5. x.mints = 0 /\ x.op # "logout" => r \in Minters
    BY <1>1, <1>3 DEF Minters
<1> QED BY <1>1, <1>3, <1>4, <1>5, GotoKeeps

\* What the choice of a victim changes.
LEMMA PickFields ==
    ASSUME NEW r \in Requests, tx[r] \in Tx, NEW t \in 0 .. MaxTokens
    PROVE  /\ Pick(r, t) \in Tx /\ Pick(r, t).at = "evict"
           /\ Pick(r, t).victim = t
           /\ Pick(r, t).over = (Counting /\ MakesNoRoom(r, t))
           /\ Pick(r, t).op = tx[r].op /\ Pick(r, t).mints = tx[r].mints
           /\ Pick(r, t).token = tx[r].token
           /\ Pick(r, t).revokes = tx[r].revokes /\ Pick(r, t).todo = tx[r].todo
<1> DEFINE o == Counting /\ MakesNoRoom(r, t)
<1>1. o \in BOOLEAN /\ Pick(r, t) = [tx[r] EXCEPT !.at = "evict", !.victim = t, !.over = o]
    BY BoundsAssumption DEF Pick
<1> HIDE DEF o
<1>2. [tx[r] EXCEPT !.at = "evict", !.victim = t, !.over = o].over = o
    BY DEF Tx
<1>3. Pick(r, t).over = (Counting /\ MakesNoRoom(r, t))
    BY <1>1, <1>2 DEF o
<1> QED BY <1>1, <1>3 DEF Tx

LEMMA PickOldestKeeps ==
    ASSUME TokensInv, NEW r \in Requests, PickOldest(r)
    PROVE  TokensInv'
<1>1. Sound(tx[r], rows, parent, next) /\ rows \subseteq Tokens
    BY DEF TokensInv, TypeOK
<1>2. CASE Goto(r, [tx[r] EXCEPT !.at = "respond"])
  <2> DEFINE x == [tx[r] EXCEPT !.at = "respond"]
  <2>1. Goto(r, x) /\ next' = next /\ tx[r].at = "pick"
      BY <1>2 DEF PickOldest
  <2>2. /\ Sound(x, rows, parent, next) /\ x.mints = tx[r].mints
        /\ x.mints = 0 /\ x.op # "logout" => r \in Minters
      BY <1>1, <2>1 DEF Sound, Causes, Placed, Fresh, Tx, NoTx, Rotating, Minters
  <2> QED BY <2>1, <2>2, GotoKeeps
<1>3. CASE \E t \in Unrevoked(r) : Goto(r, Pick(r, t))
  <2> PICK t \in Unrevoked(r) : Goto(r, Pick(r, t))
      BY <1>3
  <2> DEFINE x == Pick(r, t)
  <2>1. Goto(r, x) /\ next' = next /\ tx[r].at = "pick"
      BY DEF PickOldest
  <2>2. t \in rows /\ t \in 0 .. MaxTokens /\ tx[r] \in Tx
      BY <1>1, BoundsAssumption DEF Unrevoked, Tokens, Sound
  <2>3. /\ x \in Tx /\ x.at = "evict" /\ x.victim = t
        /\ x.op = tx[r].op /\ x.mints = tx[r].mints /\ x.token = tx[r].token
        /\ x.revokes = tx[r].revokes /\ x.todo = tx[r].todo
      BY <1>1, <2>2, PickFields
  <2>4. x.mints # 0 /\ x.revokes \subseteq {x.token}
    <3>1. tx[r].at = "pick" /\ Placed(tx[r]) /\ Causes(tx[r]) /\ 0 \notin tx[r].revokes
        BY <1>1, <2>1 DEF Sound, Tokens
    <3> QED BY <2>3, <3>1 DEF Causes, Placed, NoTx, Rotating
  <2> HIDE DEF x
  <2>5. Sound(x, rows, parent, next)
      BY <1>1, <2>1, <2>2, <2>3, <2>4 DEF Sound, Causes, Placed, Fresh, Rotating, NoTx
  <2> QED BY <2>1, <2>3, <2>4, <2>5, GotoKeeps
<1> QED BY <1>2, <1>3 DEF PickOldest

LEMMA RevokeOldestKeeps ==
    ASSUME TokensInv, NEW r \in Requests, RevokeOldest(r)
    PROVE  TokensInv'
<1> DEFINE x == [tx[r] EXCEPT !.revokes = @ \cup {tx[r].victim}, !.at = "respond"]
<1>1. Goto(r, x) /\ next' = next /\ tx[r].at = "evict"
    BY DEF RevokeOldest
<1>2. Sound(tx[r], rows, parent, next) /\ rows \subseteq Tokens
    BY DEF TokensInv, TypeOK
<1>3. /\ x \in Tx
      /\ x.op = tx[r].op /\ x.mints = tx[r].mints /\ x.token = tx[r].token
      /\ x.todo = tx[r].todo /\ x.over = tx[r].over
      /\ x.victim = tx[r].victim
      /\ x.at = "respond" /\ x.revokes = tx[r].revokes \cup {tx[r].victim}
    BY <1>1, <1>2 DEF Sound, Tx
<1> HIDE DEF x
<1>4. Sound(x, rows, parent, next)
    BY <1>1, <1>2, <1>3 DEF Sound, Causes, Placed, Fresh, Rotating, NoTx
<1>5. x.mints = 0 /\ x.op # "logout" => r \in Minters
    BY <1>1, <1>3 DEF Minters
<1> QED BY <1>1, <1>3, <1>4, <1>5, GotoKeeps

LEMMA CountActiveKeeps ==
    ASSUME TokensInv, NEW r \in Requests, CountActive(r)
    PROVE  TokensInv'
<1> PICK at \in {"pick", "respond"} : Goto(r, [tx[r] EXCEPT !.mints = next, !.at = at])
    BY DEF CountActive
<1> DEFINE x == [tx[r] EXCEPT !.mints = next, !.at = at]
<1>1. /\ tx[r].at = "count" /\ tx' = [tx EXCEPT ![r] = x] /\ next' = next + 1
      /\ rows' = rows /\ revoked' = revoked /\ parent' = parent
      /\ expired' = expired /\ delivered' = delivered /\ surplus' = surplus
    BY DEF CountActive, Goto, table
<1>2. /\ Sound(tx[r], rows, parent, next) /\ rows \subseteq Tokens
      /\ next \in 1 .. MaxTokens + 1 /\ \A t \in rows : t < next
    BY DEF TokensInv, TypeOK
<1>3. tx[r].mints = 0 /\ tx[r].op # "logout" /\ tx[r] # NoTx
    BY <1>1, <1>2 DEF Sound, Causes, Placed, Fresh, NoTx
<1>4. r \in Minters
    BY <1>1, <1>3 DEF Minters
<1>5. next \in 1 .. MaxTokens
  <2>1. Minters # {} /\ Cardinality(Minters) # 0
      BY <1>4, MintersFinite, FS_EmptySet
  <2> QED BY <2>1, <1>2, MintersFinite, BoundsAssumption DEF TokensInv
<1>6. /\ x \in Tx /\ x.at = at /\ x.mints = next
      /\ x.op = tx[r].op /\ x.token = tx[r].token
      /\ x.revokes = tx[r].revokes /\ x.todo = tx[r].todo
      /\ x.over = tx[r].over /\ x.victim = tx[r].victim
  <2>1. tx[r] \in Tx /\ next \in 0 .. MaxTokens
      BY <1>2, <1>5, BoundsAssumption DEF Sound
  <2> QED BY <2>1 DEF Tx
<1> HIDE DEF x
<1>7. Sound(x, rows, parent, next + 1)
    BY <1>1, <1>2, <1>3, <1>5, <1>6 DEF Sound, Causes, Placed, Fresh, Rotating, NoTx
<1>8. tx \in [Requests -> Tx]
    BY DEF TokensInv, TypeOK
<1>9. \A s \in Requests : tx'[s] = IF s = r THEN x ELSE tx[s]
    BY <1>1, <1>8
<1>10. ASSUME NEW s \in Requests, s # r
       PROVE  Sound(tx[s], rows, parent, next + 1) /\ tx[s].mints # next
    <2>1. Sound(tx[s], rows, parent, next) /\ tx[s].mints \in 0 .. MaxTokens
        BY <1>8 DEF TokensInv, Tx
    <2> QED BY <2>1, <1>5 DEF Sound, Fresh
<1>11. \A s \in Requests : Sound(tx'[s], rows', parent', next')
    BY <1>1, <1>7, <1>9, <1>10
<1>12. Distinct'
    BY <1>6, <1>9, <1>10 DEF TokensInv, Distinct
<1>13. next' + Cardinality(Minters') <= MaxTokens + 1
  <2>1. Minters' = Minters \ {r}
      BY <1>5, <1>6, <1>9 DEF Minters
  <2>2. Cardinality(Minters') = Cardinality(Minters) - 1
      BY <2>1, <1>4, MintersFinite, FS_RemoveElement
  <2> QED BY <2>2, <1>1, <1>5, MintersFinite, BoundsAssumption DEF TokensInv
<1>14. TypeOK'
    BY <1>1, <1>5, <1>6, <1>8, BoundsAssumption DEF TokensInv, TypeOK
<1>15. \A t \in rows' : t < next'
    BY <1>1, <1>2, <1>5 DEF Tokens
<1> QED BY <1>11, <1>12, <1>13, <1>14, <1>15 DEF TokensInv

LEMMA RespondKeeps ==
    ASSUME TokensInv, NEW r \in Requests, Respond(r)
    PROVE  TokensInv'
<1> DEFINE x == [tx[r] EXCEPT !.at = "commit"]
<1>1. /\ tx[r].at = "respond" /\ tx' = [tx EXCEPT ![r] = x]
      /\ rows' = rows /\ revoked' = revoked /\ next' = next
      /\ expired' = expired /\ surplus' = surplus
    BY DEF Respond
<1>2. /\ Sound(tx[r], rows, parent, next) /\ rows \subseteq Tokens
      /\ tx \in [Requests -> Tx] /\ parent \in [Tokens -> 0 .. MaxTokens]
    BY DEF TokensInv, TypeOK
<1>3. /\ x \in Tx /\ x.at = "commit" /\ x.mints = tx[r].mints
      /\ x.op = tx[r].op /\ x.token = tx[r].token
      /\ x.revokes = tx[r].revokes /\ x.todo = tx[r].todo /\ x.over = tx[r].over
      /\ x.victim = tx[r].victim
    BY <1>2 DEF Sound, Tx
<1> HIDE DEF x
<1>4. /\ x.mints \in 0 .. MaxTokens /\ x.token \in 0 .. MaxTokens
      /\ \/ x.mints = 0 /\ parent' = parent
         \/ x.mints # 0 /\ parent' = [parent EXCEPT ![x.mints] = x.token]
    BY <1>3 DEF Respond, Tx
<1>5. /\ parent' \in [Tokens -> 0 .. MaxTokens]
      /\ x.mints # 0 => parent'[x.mints] = x.token
      /\ \A t \in Tokens : t # x.mints => parent'[t] = parent[t]
    BY <1>2, <1>4, BoundsAssumption DEF Tokens
<1>6. delivered' \subseteq Tokens
    BY <1>3, <1>4, BoundsAssumption DEF Respond, TokensInv, TypeOK, Tokens
<1>7. Sound(x, rows, parent', next)
    BY <1>1, <1>2, <1>3, <1>5 DEF Sound, Causes, Placed, Fresh, Rotating, NoTx
<1>8. \A s \in Requests : tx'[s] = IF s = r THEN x ELSE tx[s]
    BY <1>1, <1>2
<1>9. ASSUME NEW s \in Requests, s # r
      PROVE  Sound(tx[s], rows, parent', next)
  <2>1. Sound(tx[s], rows, parent, next) /\ tx[s].mints \in 0 .. MaxTokens
      BY <1>2 DEF TokensInv, Tx
  <2>2. tx[s].mints # 0 => tx[s].mints # x.mints
      BY <1>3, <1>9 DEF TokensInv, Distinct
  <2>3. tx[s].mints # 0 => parent'[tx[s].mints] = parent[tx[s].mints]
      BY <2>1, <2>2, <1>5, BoundsAssumption DEF Tokens
  <2> QED BY <2>1, <2>3 DEF Sound, Fresh
<1>10. \A s \in Requests : Sound(tx'[s], rows', parent', next')
    BY <1>1, <1>7, <1>8, <1>9
<1>11. Distinct'
    BY <1>3, <1>8 DEF TokensInv, Distinct
<1>12. Minters' = Minters
    BY <1>1, <1>3, <1>8 DEF Minters
<1>13. TypeOK'
    BY <1>1, <1>3, <1>5, <1>6 DEF TokensInv, TypeOK
<1> QED BY <1>1, <1>10, <1>11, <1>12, <1>13 DEF TokensInv

\* What r's commit changes in the locals of s.
LEMMA OtherFields ==
    ASSUME NEW r \in Requests, NEW s \in Requests, tx[s] \in Tx,
           tx[s].over => tx[s].mints # 0
    PROVE  LET y == [tx[s] EXCEPT !.over = @ \/ (Counting /\ TakesRoom(r, s))]
           IN  /\ y \in Tx /\ y.at = tx[s].at /\ y.op = tx[s].op
               /\ y.mints = tx[s].mints /\ y.token = tx[s].token
               /\ y.victim = tx[s].victim
               /\ y.revokes = tx[s].revokes /\ y.todo = tx[s].todo
               /\ y.over => tx[s].mints # 0
               /\ y.over <=> tx[s].over \/ (Counting /\ TakesRoom(r, s))
<1> DEFINE o == tx[s].over \/ (Counting /\ TakesRoom(r, s))
           y == [tx[s] EXCEPT !.over = o]
<1>1. o \in BOOLEAN /\ (o => tx[s].mints # 0)
    BY DEF TakesRoom, Tx
<1> HIDE DEF o
<1>2. /\ y \in Tx /\ y.at = tx[s].at /\ y.op = tx[s].op
      /\ y.mints = tx[s].mints /\ y.token = tx[s].token
      /\ y.victim = tx[s].victim
      /\ y.revokes = tx[s].revokes /\ y.todo = tx[s].todo /\ y.over = o
    BY <1>1 DEF Tx
<1> QED BY <1>1, <1>2 DEF o

LEMMA CommitKeeps ==
    ASSUME TokensInv, NEW r \in Requests, Commit(r)
    PROVE  TokensInv'
<1> DEFINE y(s) == [tx[s] EXCEPT !.over = @ \/ (Counting /\ TakesRoom(r, s))]
<1>1. /\ tx[r].at = "commit"
      /\ rows' = rows \cup ({tx[r].mints} \ {0})
      /\ revoked' = revoked \cup tx[r].revokes
      /\ tx' = [s \in Requests |-> IF s = r THEN NoTx ELSE y(s)]
      /\ surplus' = surplus \cup {t \in {tx[r].mints} : tx[r].over}
      /\ parent' = parent /\ next' = next
      /\ expired' = expired /\ delivered' = delivered
    BY DEF Commit, EndTx
<1>2. /\ Sound(tx[r], rows, parent, next) /\ rows \subseteq Tokens
      /\ tx \in [Requests -> Tx] /\ tx[r] \in Tx
      /\ tx[r].mints \in 0 .. MaxTokens
    BY DEF TokensInv, TypeOK, Tx
<1>3. rows' \subseteq Tokens /\ revoked' \subseteq rows' /\ rows \subseteq rows'
    BY <1>1, <1>2, BoundsAssumption DEF TokensInv, TypeOK, Sound, Tokens
<1>4. \A t \in rows' : t < next'
    BY <1>1, <1>2 DEF TokensInv, Sound, Fresh
<1>5. ASSUME NEW s \in Requests
      PROVE  /\ y(s) \in Tx /\ y(s).at = tx[s].at /\ y(s).op = tx[s].op
             /\ y(s).mints = tx[s].mints /\ y(s).token = tx[s].token
             /\ y(s).victim = tx[s].victim
             /\ y(s).revokes = tx[s].revokes /\ y(s).todo = tx[s].todo
             /\ y(s).over => tx[s].mints # 0
    BY <1>2, OtherFields DEF TokensInv, Sound, Causes
<1>6. NoTx \in Tx /\ NoTx.mints = 0 /\ NoTx.at = "idle"
    BY NoTxSound DEF Sound, NoTx
<1>7. tx' \in [Requests -> Tx]
    BY <1>1, <1>5, <1>6
<1>8. \A s \in Requests : tx'[s] = IF s = r THEN NoTx ELSE y(s)
    BY <1>1
<1> HIDE DEF y
<1>9. ASSUME NEW s \in Requests, s # r
      PROVE  Sound(y(s), rows', parent, next)
  <2>1. Sound(tx[s], rows, parent, next)
      BY DEF TokensInv
  <2>2. tx[s].mints # 0 => tx[s].mints # tx[r].mints
      BY <1>9 DEF TokensInv, Distinct
  <2>3. Fresh(y(s), rows', parent, next)
      BY <2>1, <2>2, <1>1, <1>5 DEF Sound, Fresh
  <2>4. Placed(y(s))
    <3>1. CASE tx[s] = NoTx
      <4>1. y(s) = NoTx
        <5>1. ~TakesRoom(r, s) /\ NoTx.over = FALSE
            BY <3>1 DEF TakesRoom, NoTx
        <5>2. (Counting /\ TakesRoom(r, s)) = FALSE
            BY <5>1
        <5>3. y(s) = [NoTx EXCEPT !.over = FALSE]
            BY <5>1, <5>2, <3>1 DEF y
        <5> QED BY <5>3 DEF NoTx
      <4> QED BY <4>1 DEF Placed
    <3>2. CASE tx[s] # NoTx
      BY <3>2, <2>1, <1>5 DEF Sound, Placed
    <3> QED BY <3>1, <3>2
  <2>5. Causes(y(s))
      BY <2>1, <1>5 DEF Sound, Causes
  <2> QED BY <2>1, <2>3, <2>4, <2>5, <1>3, <1>5 DEF Sound
<1>10. \A s \in Requests : Sound(tx'[s], rows', parent', next')
    BY <1>1, <1>8, <1>9, NoTxSound
<1>11. Distinct'
    BY <1>5, <1>6, <1>8 DEF TokensInv, Distinct
<1>12. Minters' \subseteq Minters
    BY <1>5, <1>6, <1>8 DEF Minters
<1>13. next' + Cardinality(Minters') <= MaxTokens + 1
  <2>1. /\ Cardinality(Minters') <= Cardinality(Minters)
        /\ Cardinality(Minters') \in Nat
      BY <1>12, MintersFinite, FS_Subset, FS_CardinalityType
  <2> QED BY <2>1, <1>1, MintersFinite, BoundsAssumption DEF TokensInv, TypeOK
<1>14. TypeOK'
  <2>1. surplus' \subseteq rows'
      BY <1>1, <1>2, <1>3 DEF TokensInv, TypeOK, Sound, Causes
  <2> QED BY <2>1, <1>1, <1>3, <1>7 DEF TokensInv, TypeOK
<1> QED BY <1>4, <1>10, <1>11, <1>13, <1>14 DEF TokensInv

LEMMA ExpireKeeps ==
    ASSUME TokensInv, Expire
    PROVE  TokensInv'
<1>1. /\ rows' = rows /\ revoked' = revoked /\ parent' = parent /\ next' = next
      /\ delivered' = delivered /\ tx' = tx /\ surplus' = surplus
      /\ expired' = expired + 1 /\ expired + 1 < next
    BY DEF Expire, table
<1>2. TypeOK'
    BY <1>1, BoundsAssumption DEF TokensInv, TypeOK
<1>3. Minters' = Minters /\ (Distinct <=> Distinct')
    BY <1>1 DEF Minters, Distinct
<1> QED BY <1>1, <1>2, <1>3 DEF TokensInv

LEMMA TokensInit == Init => TokensInv
<1> SUFFICES ASSUME Init PROVE TokensInv
    OBVIOUS
<1>1. NoTx \in Tx /\ NoTx.mints = 0 /\ NoTx.at = "idle"
    BY NoTxSound DEF Sound, NoTx
<1>2. TypeOK
    BY <1>1, BoundsAssumption DEF Init, TypeOK, Tokens
<1>3. \A r \in Requests : Sound(tx[r], rows, parent, next)
    BY NoTxSound DEF Init
<1>4. Distinct
    BY <1>1 DEF Init, Distinct
<1>5. Minters = {}
    BY <1>1 DEF Init, Minters
<1>6. next + Cardinality(Minters) <= MaxTokens + 1
    BY <1>5, FS_EmptySet, BoundsAssumption DEF Init
<1> QED BY <1>2, <1>3, <1>4, <1>6 DEF TokensInv, Init

LEMMA TokensStutter == TokensInv /\ UNCHANGED vars => TokensInv'
<1> SUFFICES ASSUME TokensInv, UNCHANGED vars PROVE TokensInv'
    OBVIOUS
<1>1. /\ rows' = rows /\ revoked' = revoked /\ parent' = parent /\ next' = next
      /\ delivered' = delivered /\ tx' = tx /\ surplus' = surplus
      /\ expired' = expired
    BY DEF vars
<1>2. Minters' = Minters /\ (Distinct <=> Distinct') /\ (TypeOK <=> TypeOK')
    BY <1>1 DEF Minters, Distinct, TypeOK
<1> QED BY <1>1, <1>2 DEF TokensInv

LEMMA TokensStep == TokensInv /\ [Next]_vars => TokensInv'
<1> SUFFICES ASSUME TokensInv, [Next]_vars PROVE TokensInv'
    OBVIOUS
<1>1. ASSUME NEW r \in Requests,
             RejectToken(r) \/ RaiseReuse(r) \/ DeadlockAbort(r) \/ Fail(r)
      PROVE  TokensInv'
    BY <1>1, AbortKeeps DEF RejectToken, RaiseReuse, DeadlockAbort, Fail
<1>2. ASSUME NEW r \in Requests, Step(r)
      PROVE  TokensInv'
    BY <1>1, <1>2, UpsertKeeps, DetectReuseKeeps, SweepKeeps, AcceptTokenKeeps,
       SkipLogoutKeeps, RevokeTokenKeeps, CountActiveKeeps, PickOldestKeeps,
       RevokeOldestKeeps, RespondKeeps, CommitKeeps DEF Step
<1> QED BY <1>1, <1>2, LoginKeeps, RefreshKeeps, ExpireKeeps, TokensStutter DEF Next

\* Every reachable state has its type: a transaction updates and inserts only
\* rows that are there, and no token is minted twice (tokens.py:61-125).
THEOREM TypeCorrect == Spec => []TypeOK
<1>1. TokensInv => TypeOK
    BY DEF TokensInv
<1> QED BY <1>1, TokensInit, TokensStep, PTL DEF Spec

-----------------------------------------------------------------------------
(* Rotations.                                                                *)

\* Only a response and a commit write the table.
LEMMA TableChanges ==
    ASSUME [Next]_vars
    PROVE  \/ UNCHANGED table
           \/ \E r \in Requests : Respond(r) \/ Commit(r)
<1>1. CASE Next
    BY <1>1 DEF Next, Login, Refresh, Logout, Arrive, Step, DeadlockAbort, Fail,
       Expire, Upsert, RejectToken, DetectReuse, Sweep, RaiseReuse, AcceptToken,
       SkipLogout, RevokeToken, CountActive, PickOldest, RevokeOldest, Goto
<1>2. CASE UNCHANGED vars
    BY <1>2 DEF vars, table
<1> QED BY <1>1, <1>2

\* A successor of t appears when a refresh that has presented t is committed.
LEMMA SuccessorAppears ==
    ASSUME TokensInv, [Next]_vars, NEW t \in Tokens
    PROVE  /\ revoked \subseteq revoked'
           /\ \/ Successors(t)' \subseteq Successors(t)
              \/ \E r \in Requests :
                   /\ Commit(r) /\ tx[r].op = "refresh" /\ tx[r].token = t
                   /\ Successors(t)' \subseteq Successors(t) \cup {tx[r].mints}
<1>1. CASE UNCHANGED table
    BY <1>1 DEF table, Successors
<1>2. ASSUME NEW r \in Requests, Respond(r)
      PROVE  revoked' = revoked /\ Successors(t)' \subseteq Successors(t)
  <2>1. /\ rows' = rows /\ revoked' = revoked
        /\ \/ parent' = parent
           \/ tx[r].mints # 0 /\ parent' = [parent EXCEPT ![tx[r].mints] = tx[r].token]
      BY <1>2 DEF Respond
  <2>2. rows \subseteq Tokens /\ parent \in [Tokens -> 0 .. MaxTokens]
      BY DEF TokensInv, TypeOK
  <2>3. tx[r].mints # 0 => tx[r].mints \notin rows
      BY DEF TokensInv, Sound, Fresh
  <2>4. \A u \in rows : parent'[u] = parent[u]
      BY <2>1, <2>2, <2>3
  <2> QED BY <2>1, <2>4 DEF Successors
<1>3. ASSUME NEW r \in Requests, Commit(r)
      PROVE  /\ revoked \subseteq revoked'
             /\ Successors(t)' \subseteq Successors(t) \cup {tx[r].mints}
             /\ \/ Successors(t)' \subseteq Successors(t)
                \/ tx[r].op = "refresh" /\ tx[r].token = t
  <2>1. /\ rows' = rows \cup ({tx[r].mints} \ {0}) /\ parent' = parent
        /\ tx[r].at = "commit" /\ revoked' = revoked \cup tx[r].revokes
      BY <1>3 DEF Commit
  <2>2. /\ tx[r].mints # 0 => /\ parent[tx[r].mints] = tx[r].token
                              /\ tx[r].op # "logout"
        /\ Placed(tx[r])
      BY <2>1 DEF TokensInv, Sound, Fresh
  <2>3. tx[r].mints # 0 => tx[r].op = "refresh" \/ tx[r].token = 0
      BY <2>1, <2>2 DEF Placed, NoTx
  <2>4. t # 0
      BY DEF Tokens
  <2> QED BY <2>1, <2>2, <2>3, <2>4 DEF Successors
<1> QED BY <1>1, <1>2, <1>3, TableChanges DEF table

LEMMA RotationStep ==
    TokensInv /\ RotationAtomic /\ [Next]_vars => RotationAtomic'
<1> SUFFICES ASSUME TokensInv, RotationAtomic, [Next]_vars,
                    NEW t \in Tokens, Successors(t)' # {}
             PROVE  t \in revoked'
    BY DEF RotationAtomic
<1>1. CASE Successors(t)' \subseteq Successors(t)
    BY <1>1, SuccessorAppears DEF RotationAtomic
<1>2. ASSUME NEW r \in Requests, Commit(r), tx[r].op = "refresh", tx[r].token = t
      PROVE  t \in revoked'
  <2>1. tx[r].at = "commit" /\ revoked' = revoked \cup tx[r].revokes
      BY <1>2 DEF Commit
  <2>2. t \in tx[r].revokes
      BY <1>2, <2>1 DEF TokensInv, Sound, Rotating
  <2> QED BY <2>1, <2>2
<1> QED BY <1>1, <1>2, SuccessorAppears

\* A stored successor has a revoked predecessor: the revocation and the new row
\* of a rotation are committed together, also when it meets others that rotate,
\* evict or log out the same token (tokens.py:165-181).
THEOREM RotationsAreAtomic == Spec => []RotationAtomic
<1>1. Init => RotationAtomic
    BY DEF Init, RotationAtomic, Successors
<1> QED BY <1>1, TokensInit, TokensStep, RotationStep, PTL DEF Spec

\* While t is not revoked a lookup may accept it; once it is, the number of
\* refreshes that have accepted it can only fall.
LEMMA AcceptedShrinks ==
    ASSUME TokensInv, [Next]_vars, NEW t \in revoked
    PROVE  Accepted(t)' \subseteq Accepted(t)
<1> SUFFICES ASSUME NEW s \in Requests, s \notin Accepted(t)
             PROVE  s \notin Accepted(t)'
    BY DEF Accepted
<1>1. Sound(tx[s], rows, parent, next) /\ tx \in [Requests -> Tx]
    BY DEF TokensInv, TypeOK
<1>2. CASE tx'[s] = tx[s] \/ tx'[s] = NoTx
    BY <1>2 DEF Accepted, NoTx, Rotating
<1>3. CASE Login(s) \/ Refresh(s) \/ Logout(s)
  <2>1. tx'[s].at \in {"upsert", "lookup"}
      BY <1>3, <1>1 DEF Login, Refresh, Logout, Arrive, NoTx
  <2> QED BY <2>1 DEF Accepted, Rotating
<1>4. CASE Upsert(s) \/ SkipLogout(s)
  <2>1. tx'[s].op = tx[s].op /\ tx[s].op # "refresh"
      BY <1>4, <1>1 DEF Upsert, SkipLogout, Goto, Tx, Sound, Placed, NoTx, Rotating
  <2> QED BY <2>1 DEF Accepted
<1>5. CASE DetectReuse(s) \/ Sweep(s)
  <2>1. tx'[s].at = "sweep"
      BY <1>5, <1>1 DEF DetectReuse, Sweep, Goto, Tx
  <2> QED BY <2>1 DEF Accepted, Rotating
<1>6. CASE AcceptToken(s)
  <2>1. tx'[s].token = tx[s].token /\ tx[s].token # t
      BY <1>6, <1>1 DEF AcceptToken, Goto, Tx
  <2> QED BY <2>1 DEF Accepted
<1>7. CASE \/ RevokeToken(s) \/ CountActive(s) \/ PickOldest(s) \/ RevokeOldest(s)
           \/ Respond(s)
  <2>1. /\ tx'[s].op = tx[s].op /\ tx'[s].token = tx[s].token
        /\ tx[s].at \in Rotating \cup {"revoke"}
    <3>1. tx[s] \in Tx
        BY <1>1 DEF Sound
    <3>2. CASE RevokeToken(s)
        BY <3>1, <3>2, <1>1 DEF RevokeToken, Goto, Tx
    <3>3. CASE CountActive(s)
        BY <3>1, <3>3, <1>1 DEF CountActive, Goto, Tx, Rotating
    <3>4. CASE PickOldest(s)
      <4>1. PICK x \in {[tx[s] EXCEPT !.at = "respond"]}
                       \cup {Pick(s, v) : v \in Unrevoked(s)} :
              tx' = [tx EXCEPT ![s] = x]
          BY <3>4 DEF PickOldest, Goto
      <4>2. CASE x = [tx[s] EXCEPT !.at = "respond"]
        <5>1. tx'[s] = x /\ x.op = tx[s].op /\ x.token = tx[s].token
            BY <3>1, <4>1, <4>2, <1>1 DEF Tx
        <5> QED BY <5>1, <3>4 DEF PickOldest, Rotating
      <4>3. ASSUME NEW v \in Unrevoked(s), x = Pick(s, v)
            PROVE  /\ tx'[s].op = tx[s].op /\ tx'[s].token = tx[s].token
                   /\ tx[s].at \in Rotating \cup {"revoke"}
        <5>1. v \in 0 .. MaxTokens
            BY DEF TokensInv, TypeOK, Unrevoked, Tokens
        <5>2. tx'[s] = Pick(s, v)
            BY <4>1, <4>3, <1>1
        <5> QED BY <5>1, <5>2, <3>1, <3>4, PickFields DEF PickOldest, Rotating
      <4> QED BY <4>1, <4>2, <4>3
    <3>5. CASE RevokeOldest(s)
        BY <3>1, <3>5, <1>1 DEF RevokeOldest, Goto, Tx, Rotating
    <3>6. CASE Respond(s)
        BY <3>1, <3>6, <1>1 DEF Respond, Tx, Rotating
    <3> QED BY <1>7, <3>2, <3>3, <3>4, <3>5, <3>6
  <2> QED BY <2>1 DEF Accepted
<1>8. ASSUME NEW r \in Requests, Commit(r), r # s
      PROVE  s \notin Accepted(t)'
  <2>1. tx'[s] = [tx[s] EXCEPT !.over = @ \/ (Counting /\ TakesRoom(r, s))]
      BY <1>8 DEF Commit, EndTx
  <2>2. tx[s] \in Tx /\ (tx[s].over => tx[s].mints # 0)
      BY <1>1 DEF Sound, Causes
  <2>3. /\ tx'[s].op = tx[s].op /\ tx'[s].token = tx[s].token
        /\ tx'[s].at = tx[s].at
      BY <2>1, <2>2, OtherFields
  <2> QED BY <2>3 DEF Accepted
<1>9. ASSUME NEW r \in Requests, Login(r) \/ Refresh(r) \/ Logout(r) \/ Step(r)
                                 \/ DeadlockAbort(r) \/ Fail(r), r # s, ~Commit(r)
      PROVE  tx'[s] = tx[s]
    BY <1>9, <1>1
       DEF Login, Refresh, Logout, Arrive, Step, DeadlockAbort, Fail, Upsert,
           RejectToken, DetectReuse, Sweep, RaiseReuse, AcceptToken, SkipLogout,
           RevokeToken, CountActive, PickOldest, RevokeOldest, Respond, Goto
<1>10. CASE RejectToken(s) \/ RaiseReuse(s) \/ DeadlockAbort(s) \/ Fail(s) \/ Commit(s)
    BY <1>10, <1>1, <1>2
       DEF RejectToken, RaiseReuse, DeadlockAbort, Fail, Goto, Commit, EndTx
<1>11. CASE Expire \/ UNCHANGED vars
    BY <1>11, <1>2 DEF Expire, vars
<1> QED BY <1>2, <1>3, <1>4, <1>5, <1>6, <1>7, <1>8, <1>9, <1>10, <1>11 DEF Next, Step

LEMMA SetsFinite ==
    ASSUME TokensInv, NEW t
    PROVE  /\ IsFiniteSet(rows) /\ IsFiniteSet(revoked)
           /\ IsFiniteSet(Successors(t)) /\ Cardinality(Successors(t)) \in Nat
           /\ IsFiniteSet(Accepted(t)) /\ Cardinality(Accepted(t)) \in Nat
           /\ Cardinality(Requests) \in Nat
           /\ IsFiniteSet(Active) /\ Cardinality(Active) \in Nat
<1>1. IsFiniteSet(Tokens)
    BY FS_Interval, BoundsAssumption DEF Tokens
<1>2. IsFiniteSet(rows) /\ IsFiniteSet(revoked)
    BY <1>1, FS_Subset DEF TokensInv, TypeOK
<1>3. /\ Successors(t) \subseteq rows /\ Accepted(t) \subseteq Requests
      /\ Active \subseteq rows
    BY DEF Successors, Accepted, Active
<1> QED BY <1>2, <1>3, BoundsAssumption, FS_Subset, FS_CardinalityType

LEMMA SuccessorsStep ==
    TokensInv /\ TokensInv' /\ SuccessorsInv /\ [Next]_vars => SuccessorsInv'
<1> SUFFICES ASSUME TokensInv, TokensInv', SuccessorsInv, [Next]_vars,
                    NEW t \in Tokens
             PROVE  Cardinality(Successors(t)') + Cardinality(Accepted(t)')
                        <= Cardinality(Requests)
    BY RotationStep DEF SuccessorsInv
<1> DEFINE S == Cardinality(Successors(t))  A == Cardinality(Accepted(t))
           Q == Cardinality(Requests)
           T == Cardinality(Successors(t)') B == Cardinality(Accepted(t)')
<1>1. /\ S \in Nat /\ A \in Nat /\ Q \in Nat /\ T \in Nat /\ B \in Nat
      /\ S + A <= Q
  <2>1. Successors(t)' \subseteq rows' /\ Accepted(t)' \subseteq Requests
      BY DEF Successors, Accepted
  <2>2. IsFiniteSet(Tokens)
      BY FS_Interval, BoundsAssumption DEF Tokens
  <2>3. rows' \subseteq Tokens
      BY DEF TokensInv, TypeOK
  <2>4. IsFiniteSet(Successors(t)') /\ IsFiniteSet(Accepted(t)')
      BY <2>1, <2>2, <2>3, BoundsAssumption, FS_Subset
  <2> QED BY <2>4, SetsFinite, FS_CardinalityType DEF SuccessorsInv
<1>2. Accepted(t)' \subseteq Requests /\ B <= Q
    BY BoundsAssumption, FS_Subset DEF Accepted
<1>3. CASE Successors(t)' \subseteq Successors(t)
  <2>1. T <= S
      BY <1>3, SetsFinite, FS_Subset
  <2>2. CASE t \in revoked
    <3>1. B <= A
        BY <2>2, AcceptedShrinks, SetsFinite, FS_Subset
    <3> QED BY <2>1, <3>1, <1>1
  <2>3. CASE t \notin revoked
    <3>1. Successors(t) = {}
        BY <2>3 DEF SuccessorsInv, RotationAtomic
    <3>2. S = 0
        BY <3>1, FS_EmptySet
    <3> QED BY <2>1, <3>2, <1>1, <1>2
  <2> QED BY <2>2, <2>3
<1>4. ASSUME NEW r \in Requests,
             Commit(r), tx[r].op = "refresh", tx[r].token = t,
             Successors(t)' \subseteq Successors(t) \cup {tx[r].mints}
      PROVE  T + B <= Q
  <2>1. tx'[r] = NoTx /\ tx[r].at = "commit"
      BY <1>4 DEF Commit, EndTx
  <2>2. r \notin Accepted(t)' /\ r \in Accepted(t)
      BY <1>4, <2>1 DEF Accepted, NoTx, Rotating
  <2>3. T <= S + 1
      BY <1>4, SetsFinite, OneMore
  <2>4. CASE t \in revoked
    <3>1. Accepted(t)' \subseteq Accepted(t) \ {r}
        BY <2>2, <2>4, AcceptedShrinks
    <3>2. /\ IsFiniteSet(Accepted(t) \ {r})
          /\ Cardinality(Accepted(t) \ {r}) = A - 1
        BY <2>2, SetsFinite, FS_RemoveElement
    <3>3. B <= A - 1
        BY <3>1, <3>2, FS_Subset
    <3> QED BY <2>3, <3>3, <1>1
  <2>5. CASE t \notin revoked
    <3>1. Successors(t) = {}
        BY <2>5 DEF SuccessorsInv, RotationAtomic
    <3>2. S = 0
        BY <3>1, FS_EmptySet
    <3>3. Accepted(t)' \subseteq Requests \ {r}
        BY <1>2, <2>2
    <3>4. IsFiniteSet(Requests \ {r}) /\ Cardinality(Requests \ {r}) = Q - 1
        BY BoundsAssumption, FS_RemoveElement
    <3>5. B <= Q - 1
        BY <3>3, <3>4, FS_Subset
    <3> QED BY <2>3, <3>2, <3>5, <1>1
  <2> QED BY <2>4, <2>5
<1> QED BY <1>3, <1>4, SuccessorAppears

\* The lookup takes no lock, so a token can be rotated more than once, but only
\* by requests that were in progress together: at most as many successors of a
\* token are stored as there are requests at once (tokens.py:143-167).
THEOREM ForksAreBounded == Spec => []SuccessorsBounded
<1>1. Init => SuccessorsInv
  <2> SUFFICES ASSUME Init PROVE SuccessorsInv
      OBVIOUS
  <2>1. TokensInv
      BY TokensInit
  <2>2. \A t \in Tokens : Successors(t) = {} /\ Accepted(t) = {}
      BY DEF Init, Successors, Accepted, NoTx
  <2>3. Cardinality({}) = 0 /\ Cardinality(Requests) \in Nat
      BY FS_EmptySet, <2>1, SetsFinite
  <2> QED BY <2>2, <2>3 DEF SuccessorsInv, RotationAtomic
<1>2. TokensInv /\ SuccessorsInv => SuccessorsBounded
  <2> SUFFICES ASSUME TokensInv, SuccessorsInv, NEW t \in Tokens
               PROVE  Cardinality(Successors(t)) <= Cardinality(Requests)
      BY DEF SuccessorsBounded
  <2> QED BY SetsFinite DEF SuccessorsInv
<1> QED BY <1>1, <1>2, TokensInit, TokensStep, SuccessorsStep, PTL DEF Spec

\* A request that fails anywhere before its commit has revoked nothing: what is
\* revoked is what a logout named, or what a token stored in the same commit
\* replaces (tokens.py:94-121,165-181, dependencies.py:17-27).
THEOREM SessionsAreKept == Spec => RevokedWithCause
<1>1. ASSUME TokensInv, [Next]_vars, NEW t \in revoked' \ revoked
      PROVE  \E r \in Requests :
                \/ tx[r].op = "logout" /\ tx[r].token = t
                \/ /\ tx[r].mints \in rows' \ rows
                   /\ t \in {tx[r].token, tx[r].victim}
  <2>1. PICK r \in Requests : Commit(r)
      BY <1>1, TableChanges DEF table, Respond
  <2>2. /\ t \in tx[r].revokes /\ tx[r].at = "commit"
        /\ rows' = rows \cup ({tx[r].mints} \ {0})
      BY <1>1, <2>1 DEF Commit
  <2>3. /\ Placed(tx[r]) /\ Causes(tx[r])
        /\ tx[r].mints # 0 => tx[r].mints \notin rows
      BY <1>1 DEF TokensInv, Sound, Fresh
  <2>4. CASE tx[r].op = "logout"
      BY <2>2, <2>3, <2>4 DEF Causes
  <2>5. CASE tx[r].op # "logout"
    <3>1. tx[r].mints # 0 /\ t \in {tx[r].token, tx[r].victim}
        BY <2>2, <2>3, <2>5 DEF Causes, Rotating
    <3>2. tx[r].mints \in rows' \ rows
        BY <3>1, <2>2, <2>3
    <3> QED BY <3>1, <3>2
  <2> QED BY <2>4, <2>5
<1>2. TokensInv /\ [Next]_vars =>
        [\A t \in revoked' \ revoked : \E r \in Requests :
            \/ tx[r].op = "logout" /\ tx[r].token = t
            \/ /\ tx[r].mints \in rows' \ rows
               /\ t \in {tx[r].token, tx[r].victim}]_vars
    BY <1>1
<1> QED BY <1>2, TokensInit, TokensStep, PTL DEF Spec, RevokedWithCause

-----------------------------------------------------------------------------
(* Responses.                                                                *)

\* A token that a client has received is stored, or only the commit is left.
Answered ==
    \A t \in delivered :
        t \in rows \/ \E r \in Requests : tx[r].mints = t /\ tx[r].at = "commit"

\* A request that has responded does not wait, is not refused and is not chosen
\* to break a deadlock: it can only commit.
LEMMA OnlyCommitIsLeft ==
    ASSUME TokensInv, ~Faults, [Next]_vars,
           NEW r \in Requests, tx[r].at = "commit"
    PROVE  (tx'[r].mints = tx[r].mints /\ tx'[r].at = "commit") \/ Commit(r)
<1>1. tx \in [Requests -> Tx] /\ tx[r] \in Tx
    BY DEF TokensInv, TypeOK
<1>2. CASE Expire \/ UNCHANGED vars
    BY <1>2 DEF Expire, vars
<1>3. ~DeadlockAbort(r)
    BY DEF DeadlockAbort, Deadlocked, WaitsFor
<1>4. ASSUME NEW s \in Requests, Login(s) \/ Refresh(s) \/ Logout(s) \/ Step(s)
                                 \/ DeadlockAbort(s) \/ Fail(s), r # s, ~Commit(s)
      PROVE  tx'[r] = tx[r]
    BY <1>4, <1>1
       DEF Login, Refresh, Logout, Arrive, Step, DeadlockAbort, Fail, Upsert,
           RejectToken, DetectReuse, Sweep, RaiseReuse, AcceptToken, SkipLogout,
           RevokeToken, CountActive, PickOldest, RevokeOldest, Respond, Goto
<1>5. ASSUME NEW s \in Requests, r # s, Commit(s)
      PROVE  tx'[r].mints = tx[r].mints /\ tx'[r].at = "commit"
  <2>1. tx'[r] = [tx[r] EXCEPT !.over = @ \/ (Counting /\ TakesRoom(s, r))]
      BY <1>5 DEF Commit, EndTx
  <2>2. tx[r].over => tx[r].mints # 0
      BY DEF TokensInv, Sound, Causes
  <2> QED BY <2>1, <2>2, <1>1, OtherFields
<1>6. ~(\/ Login(r) \/ Refresh(r) \/ Logout(r) \/ Fail(r) \/ Upsert(r)
       \/ RejectToken(r) \/ DetectReuse(r) \/ Sweep(r) \/ RaiseReuse(r)
       \/ AcceptToken(r) \/ SkipLogout(r) \/ RevokeToken(r) \/ CountActive(r)
       \/ PickOldest(r) \/ RevokeOldest(r) \/ Respond(r))
    BY DEF Login, Refresh, Logout, Arrive, Fail, Upsert, RejectToken, DetectReuse,
           Sweep, RaiseReuse, AcceptToken, SkipLogout, RevokeToken, CountActive,
           PickOldest, RevokeOldest, Respond
<1> QED BY <1>2, <1>3, <1>4, <1>5, <1>6 DEF Next, Step

LEMMA AnsweredStep ==
    ASSUME ~Faults
    PROVE  TokensInv /\ Answered /\ [Next]_vars => Answered'
<1> SUFFICES ASSUME TokensInv, Answered, [Next]_vars, NEW t \in delivered'
             PROVE  \/ t \in rows'
                    \/ \E r \in Requests : tx'[r].mints = t /\ tx'[r].at = "commit"
    BY DEF Answered
<1>1. rows \subseteq rows'
  <2>1. ASSUME NEW r \in Requests, Respond(r) \/ Commit(r)
        PROVE  rows \subseteq rows'
      BY <2>1 DEF Respond, Commit
  <2> QED BY <2>1, TableChanges DEF table
<1>2. CASE t \in rows
    BY <1>1, <1>2
<1>3. ASSUME NEW r \in Requests, tx[r].mints = t, tx[r].at = "commit"
      PROVE  \/ t \in rows'
             \/ \E s \in Requests : tx'[s].mints = t /\ tx'[s].at = "commit"
  <2>1. CASE Commit(r)
    <3>1. t \in delivered /\ t # 0
      <4>1. delivered' = delivered /\ delivered \subseteq Tokens
          BY <2>1 DEF Commit, TokensInv, TypeOK
      <4> QED BY <4>1 DEF Tokens
    <3> QED BY <3>1, <2>1, <1>3 DEF Commit
  <2> QED BY <2>1, <1>3, OnlyCommitIsLeft
<1>4. CASE t \notin delivered
  <2>1. PICK r \in Requests : Respond(r) /\ t = tx[r].mints
    <3>1. CASE UNCHANGED vars \/ Expire
        BY <3>1, <1>4 DEF vars, Expire
    <3>2. ASSUME NEW r \in Requests, Login(r) \/ Refresh(r) \/ Logout(r) \/ Step(r)
                                     \/ DeadlockAbort(r) \/ Fail(r), ~Respond(r)
          PROVE  delivered' = delivered
        BY <3>2 DEF Login, Refresh, Logout, Arrive, Step, DeadlockAbort, Fail, Upsert,
           RejectToken, DetectReuse, Sweep, RaiseReuse, AcceptToken, SkipLogout,
           RevokeToken, CountActive, PickOldest, RevokeOldest, Goto, Commit
    <3>3. \E r \in Requests : Respond(r)
        BY <3>1, <3>2, <1>4 DEF Next
    <3> QED BY <3>3, <1>4 DEF Respond
  <2>2. tx \in [Requests -> Tx] /\ tx[r] \in Tx
      BY DEF TokensInv, TypeOK
  <2>3. tx'[r].mints = t /\ tx'[r].at = "commit"
      BY <2>1, <2>2 DEF Respond, Tx
  <2> QED BY <2>3
<1> QED BY <1>2, <1>3, <1>4 DEF Answered

\* Where nothing fails, what a client has been sent is stored: the response goes
\* out before the commit, but after every statement that can wait, be refused or
\* be aborted for a deadlock (dependencies.py:17-27, tokens.py:61-195).
THEOREM ResponsesAreKept ==
    ASSUME ~Faults
    PROVE  Spec => []DeliveredStored
<1>1. Init => Answered
    BY DEF Init, Answered
<1>2. Answered => DeliveredStored
    BY DEF Answered, DeliveredStored
<1> QED BY <1>1, <1>2, TokensInit, TokensStep, AnsweredStep, PTL DEF Spec

-----------------------------------------------------------------------------
(* The limit on active tokens.                                               *)

\* What is counted of a transaction's tokens is finite and within the limit.
LEMMA CountedFinite ==
    ASSUME TokensInv, NEW r \in Requests
    PROVE  /\ Counted(r) \subseteq rows /\ Counted(r) \subseteq Active \ surplus
           /\ IsFiniteSet(Counted(r)) /\ Cardinality(Counted(r)) \in Nat
           /\ IsFiniteSet(Active \ surplus)
           /\ Cardinality(Active \ surplus) \in Nat
<1>1. Counted(r) \subseteq rows /\ Counted(r) \subseteq Active \ surplus
    BY DEF Counted, Unrevoked, Active
<1> QED BY <1>1, SetsFinite, FS_Subset, FS_CardinalityType

\* A part of a set that leaves room leaves room.
LEMMA Fewer ==
    ASSUME NEW S, NEW T, IsFiniteSet(S), T \subseteq S, Cardinality(S) < MaxActive
    PROVE  Cardinality(T) < MaxActive
<1>1. IsFiniteSet(T) /\ Cardinality(T) <= Cardinality(S)
    BY FS_Subset
<1> QED BY <1>1, FS_CardinalityType, BoundsAssumption

\* A commit stores a token that is over the limit, or one that has its room.
LEMMA CommitLimit ==
    ASSUME TokensInv, LimitInv, NEW r \in Requests, Commit(r)
    PROVE  ActiveNearLimit'
<1> DEFINE m == tx[r].mints
           v == tx[r].victim
<1>1. /\ tx[r].at = "commit" /\ expired' = expired
      /\ rows' = rows \cup ({m} \ {0})
      /\ revoked' = revoked \cup tx[r].revokes
      /\ surplus' = surplus \cup {t \in {m} : tx[r].over}
    BY DEF Commit, EndTx
<1>2. (Active \ surplus)' = Active' \ surplus'
    OBVIOUS
<1>3. CASE m = 0 \/ tx[r].over
  <2>1. Active' \ surplus' \subseteq Active \ surplus
      BY <1>1, <1>3 DEF Active
  <2>2. /\ Cardinality(Active' \ surplus') <= Cardinality(Active \ surplus)
        /\ IsFiniteSet(Active' \ surplus')
      BY <2>1, CountedFinite, FS_Subset
  <2>3. Cardinality(Active' \ surplus') \in Nat
      BY <2>2, FS_CardinalityType
  <2>4. Cardinality(Active \ surplus) <= MaxActive
        /\ Cardinality(Active \ surplus) \in Nat
      BY CountedFinite DEF LimitInv, ActiveNearLimit
  <2>5. Cardinality(Active' \ surplus') <= MaxActive
      BY <2>2, <2>3, <2>4, BoundsAssumption
  <2> QED BY <1>2, <2>5 DEF ActiveNearLimit
<1>4. CASE m # 0 /\ ~tx[r].over
  <2> DEFINE C == Counted(r) \ {v}
  <2>1. HasRoom(r)
      BY <1>1, <1>4 DEF LimitInv, Placing
  <2>2. /\ v \in tx[r].revokes \cup {0} /\ 0 \notin rows
    <3>1. Causes(tx[r]) /\ rows \subseteq Tokens
        BY DEF TokensInv, TypeOK, Sound
    <3> QED BY <3>1, <1>1 DEF Causes, Tokens
  <2>3. Active' \ surplus' \subseteq C \cup {m}
      BY <1>1, <2>2 DEF Active, Counted, Unrevoked
  <2>4. IsFiniteSet(C) /\ Cardinality(C) \in Nat
      BY CountedFinite, FS_Subset, FS_CardinalityType
  <2>5. Cardinality(C) < MaxActive
      BY <2>1 DEF HasRoom
  <2>6. Cardinality(Active' \ surplus') <= Cardinality(C) + 1
      BY <2>3, <2>4, OneMore
  <2>7. Cardinality(Active' \ surplus') \in Nat
    <3>1. IsFiniteSet(C \cup {m})
        BY <2>4, FS_AddElement
    <3> QED BY <3>1, <2>3, FS_Subset, FS_CardinalityType
  <2> QED BY <1>2, <2>4, <2>5, <2>6, <2>7, BoundsAssumption DEF ActiveNearLimit
<1> QED BY <1>3, <1>4

\* Every other step only lets tokens expire.
LEMMA OtherKeeps ==
    ASSUME TokensInv, [Next]_vars, \A r \in Requests : ~Commit(r)
    PROVE  /\ rows' = rows /\ revoked' = revoked /\ surplus' = surplus
           /\ \A t \in rows : t > expired' => t > expired
<1>1. /\ rows' = rows /\ revoked' = revoked /\ surplus' = surplus
      /\ expired' \in {expired, expired + 1}
  <2>1. CASE UNCHANGED vars
      BY <2>1 DEF vars
  <2>2. CASE Expire
      BY <2>2 DEF Expire, table
  <2>3. ASSUME NEW r \in Requests, Login(r) \/ Refresh(r) \/ Logout(r) \/ Step(r)
                                   \/ DeadlockAbort(r) \/ Fail(r)
        PROVE  /\ rows' = rows /\ revoked' = revoked /\ surplus' = surplus
               /\ expired' = expired
      BY <2>3 DEF Login, Refresh, Logout, Arrive, Step, DeadlockAbort, Fail, Upsert,
         RejectToken, DetectReuse, Sweep, RaiseReuse, AcceptToken, SkipLogout,
         RevokeToken, CountActive, PickOldest, RevokeOldest, Respond, Goto, table
  <2> QED BY <2>1, <2>2, <2>3 DEF Next
<1>2. expired \in Nat /\ rows \subseteq Nat
    BY BoundsAssumption DEF TokensInv, TypeOK, Tokens
<1> QED BY <1>1, <1>2

LEMMA OtherLimit ==
    ASSUME TokensInv, ActiveNearLimit, [Next]_vars, \A r \in Requests : ~Commit(r)
    PROVE  ActiveNearLimit'
<1>1. Active' \ surplus' \subseteq Active \ surplus
    BY OtherKeeps DEF Active
<1>2. IsFiniteSet(Active \ surplus) /\ Cardinality(Active \ surplus) \in Nat
    BY SetsFinite, FS_Subset, FS_CardinalityType
<1>3. /\ Cardinality(Active' \ surplus') <= Cardinality(Active \ surplus)
      /\ Cardinality(Active' \ surplus') \in Nat
    BY <1>1, <1>2, FS_Subset, FS_CardinalityType
<1> QED BY <1>2, <1>3, BoundsAssumption DEF ActiveNearLimit

\* The room that s has found or made stays while s counts no more than before.
LEMMA PlacingStays ==
    ASSUME TokensInv, NEW s \in Requests, Placing(s),
           Counted(s)' \subseteq Counted(s), tx'[s].victim = tx[s].victim,
           tx'[s].mints = tx[s].mints, tx[s].over => tx'[s].over,
           tx'[s].at \in {"evict", "respond", "commit"} =>
               tx[s].at \in {"evict", "respond", "commit"}
    PROVE  Placing(s)'
<1>1. HasRoom(s) => HasRoom(s)'
  <2> DEFINE S == Counted(s) \ {tx[s].victim}
             T == Counted(s)' \ {tx'[s].victim}
  <2>1. T \subseteq S /\ IsFiniteSet(S)
      BY CountedFinite, FS_Subset
  <2>2. Cardinality(S) < MaxActive => Cardinality(T) < MaxActive
      BY <2>1, Fewer
  <2> QED BY <2>2 DEF HasRoom
<1> QED BY <1>1 DEF Placing

\* A request that mints nothing yet, or nothing any more, has nothing to place.
LEMMA NothingToPlace ==
    ASSUME TokensInv', NEW r \in Requests, tx'[r].at \notin {"evict", "respond", "commit"}
    PROVE  Placing(r)'
BY DEF Placing

\* An eviction makes room: the victim is one of those that were counted, or they
\* were not as many as there may be.
LEMMA PlacingPick ==
    ASSUME Counting, TokensInv, ActiveNearLimit, NEW r \in Requests, PickOldest(r)
    PROVE  Placing(r)'
<1>1. tx[r] \in Tx /\ tx \in [Requests -> Tx]
    BY DEF TokensInv, TypeOK, Sound
<1>2. expired' = expired /\ rows' = rows /\ revoked' = revoked /\ surplus' = surplus
    BY DEF PickOldest, Goto, table
<1>3. CASE Unrevoked(r) = {}
  <2>1. tx'[r].revokes = tx[r].revokes
      BY <1>1, <1>3 DEF PickOldest, Goto, Tx
  <2>2. Counted(r)' \ {tx'[r].victim} = {}
      BY <2>1, <1>2, <1>3 DEF Unrevoked, Counted
  <2>3. Cardinality(Counted(r)' \ {tx'[r].victim}) = 0
      BY <2>2, FS_EmptySet
  <2> QED BY <2>3, BoundsAssumption DEF HasRoom, Placing
<1>4. ASSUME NEW t \in Unrevoked(r), Goto(r, Pick(r, t))
      PROVE  Placing(r)'
  <2>1. t \in 0 .. MaxTokens
      BY DEF TokensInv, TypeOK, Unrevoked, Tokens
  <2>2. /\ tx'[r].victim = t /\ tx'[r].revokes = tx[r].revokes
        /\ tx'[r].over = MakesNoRoom(r, t)
    <3>1. tx'[r] = Pick(r, t)
        BY <1>1, <1>4 DEF Goto
    <3>2. Pick(r, t).over = (Counting /\ MakesNoRoom(r, t))
        BY <1>1, <2>1, PickFields
    <3> QED BY <1>1, <2>1, <3>1, <3>2, PickFields DEF MakesNoRoom
  <2>3. Counted(r)' = Counted(r)
      BY <1>2, <2>2 DEF Counted, Unrevoked
  <2>4. ASSUME ~MakesNoRoom(r, t)
        PROVE  Cardinality(Counted(r) \ {t}) < MaxActive
    <3>1. CASE t \in Counted(r)
      <4>1. Cardinality(Counted(r) \ {t}) = Cardinality(Counted(r)) - 1
          BY <3>1, CountedFinite, FS_RemoveElement
      <4>2. Cardinality(Counted(r)) <= Cardinality(Active \ surplus)
          BY CountedFinite, FS_Subset
      <4> QED BY <4>1, <4>2, CountedFinite, BoundsAssumption DEF ActiveNearLimit
    <3>2. CASE Cardinality(Counted(r)) < MaxActive
        BY <3>2, CountedFinite, Fewer
    <3>3. ~(Cardinality(Counted(r)) >= MaxActive) => Cardinality(Counted(r)) < MaxActive
        BY CountedFinite, BoundsAssumption
    <3> QED BY <2>4, <3>1, <3>2, <3>3 DEF MakesNoRoom
  <2> QED BY <2>2, <2>3, <2>4 DEF Placing, HasRoom
<1> QED BY <1>3, <1>4 DEF PickOldest

LEMMA PlacingCount ==
    ASSUME TokensInv, NEW r \in Requests, CountActive(r)
    PROVE  Placing(r)'
<1>1. tx[r] \in Tx /\ tx \in [Requests -> Tx]
    BY DEF TokensInv, TypeOK, Sound
<1>2. expired' = expired /\ rows' = rows /\ revoked' = revoked /\ surplus' = surplus
    BY DEF CountActive, Goto, table
<1> DEFINE U == {t \in Unrevoked(r) : t > expired}
           n == Cardinality(U)
<1>3. /\ tx'[r].at = (IF n >= MaxActive THEN "pick" ELSE "respond")
      /\ tx'[r].revokes = tx[r].revokes
    BY <1>1 DEF CountActive, Goto, Tx
<1>4. IsFiniteSet(U) /\ n \in Nat
  <2>1. U \subseteq rows
      BY DEF Unrevoked
  <2> QED BY <2>1, SetsFinite, FS_Subset, FS_CardinalityType
<1>5. Counted(r)' \ {tx'[r].victim} \subseteq U
    BY <1>2, <1>3 DEF Counted, Unrevoked
<1>6. n < MaxActive => HasRoom(r)'
    BY <1>4, <1>5, Fewer DEF HasRoom
<1>7. n >= MaxActive \/ n < MaxActive
    BY <1>4, BoundsAssumption
<1> QED BY <1>3, <1>6, <1>7 DEF Placing

LEMMA PlacingEvict ==
    ASSUME TokensInv, NEW r \in Requests, Placing(r), RevokeOldest(r) \/ Respond(r)
    PROVE  Placing(r)'
<1>1. /\ tx[r] \in Tx /\ tx \in [Requests -> Tx]
      /\ tx[r].at \in {"evict", "respond"}
    BY DEF TokensInv, TypeOK, Sound, RevokeOldest, Respond
<1>2. expired' = expired /\ rows' = rows /\ revoked' = revoked /\ surplus' = surplus
    BY DEF RevokeOldest, Respond, Goto, table
<1>3. /\ tx'[r].over = tx[r].over /\ tx'[r].mints = tx[r].mints
      /\ tx'[r].victim = tx[r].victim /\ tx[r].revokes \subseteq tx'[r].revokes
  <2>1. CASE RevokeOldest(r)
      BY <1>1, <2>1 DEF RevokeOldest, Goto, Tx
  <2>2. CASE Respond(r)
      BY <1>1, <2>2 DEF Respond, Tx
  <2> QED BY <2>1, <2>2
<1>4. Counted(r)' \subseteq Counted(r)
    BY <1>2, <1>3 DEF Counted, Unrevoked
<1> QED BY <1>1, <1>3, <1>4, PlacingStays

\* A commit takes the room of another request, and marks what that one mints, or
\* leaves it.
LEMMA PlacingCommit ==
    ASSUME Counting, TokensInv, NEW r \in Requests, Commit(r),
           NEW s \in Requests, s # r, Placing(s)
    PROVE  Placing(s)'
<1>1. tx[s] \in Tx /\ (tx[s].over => tx[s].mints # 0)
    BY DEF TokensInv, TypeOK, Sound, Causes
<1>2. tx'[s] = [tx[s] EXCEPT !.over = @ \/ (Counting /\ TakesRoom(r, s))]
    BY DEF Commit, EndTx
<1>3. /\ tx'[s].at = tx[s].at /\ tx'[s].mints = tx[s].mints
      /\ tx'[s].victim = tx[s].victim /\ tx'[s].revokes = tx[s].revokes
      /\ tx'[s].over <=> tx[s].over \/ TakesRoom(r, s)
    BY <1>1, <1>2, OtherFields
<1>4. /\ rows' = rows \cup ({tx[r].mints} \ {0}) /\ expired' = expired
      /\ revoked' = revoked \cup tx[r].revokes
      /\ surplus' = surplus \cup {t \in {tx[r].mints} : tx[r].over}
    BY DEF Commit, EndTx
<1>5. CASE tx[r].mints = 0 \/ tx[r].over
  <2>1. Counted(s)' \subseteq Counted(s)
      BY <1>3, <1>4, <1>5 DEF Counted, Unrevoked
  <2> QED BY <2>1, <1>3, PlacingStays
<1>6. CASE tx[r].mints # 0 /\ ~tx[r].over
  <2> SUFFICES ASSUME tx[s].mints # 0, ~TakesRoom(r, s),
                      tx[s].at \in {"evict", "respond", "commit"}
               PROVE  HasRoom(s)'
      BY <1>3 DEF Placing
  <2> DEFINE S == ((Counted(s) \ tx[r].revokes) \cup {tx[r].mints}) \ {tx[s].victim}
             T == Counted(s)' \ {tx'[s].victim}
  <2>1. T \subseteq S
      BY <1>3, <1>4 DEF Counted, Unrevoked
  <2>2. IsFiniteSet(S) /\ Cardinality(S) \in Nat
    <3>1. IsFiniteSet(Counted(s) \ tx[r].revokes)
        BY CountedFinite, FS_Subset
    <3>2. IsFiniteSet((Counted(s) \ tx[r].revokes) \cup {tx[r].mints})
        BY <3>1, FS_AddElement
    <3> QED BY <3>2, FS_Subset, FS_CardinalityType
  <2>3. ~(Cardinality(S) >= MaxActive)
      BY <1>6 DEF TakesRoom
  <2>4. Cardinality(S) < MaxActive
      BY <2>2, <2>3, BoundsAssumption
  <2>5. Cardinality(T) < MaxActive
      BY <2>1, <2>2, <2>4, Fewer
  <2> QED BY <2>5 DEF HasRoom
<1> QED BY <1>5, <1>6

LEMMA PlacingOther ==
    ASSUME TokensInv, TokensInv', NEW r \in Requests,
           \/ Login(r) \/ Refresh(r) \/ Logout(r) \/ DeadlockAbort(r) \/ Fail(r)
           \/ Upsert(r) \/ RejectToken(r) \/ DetectReuse(r) \/ Sweep(r)
           \/ RaiseReuse(r) \/ AcceptToken(r) \/ SkipLogout(r) \/ RevokeToken(r)
    PROVE  Placing(r)'
<1>1. tx[r] \in Tx /\ tx \in [Requests -> Tx]
    BY DEF TokensInv, TypeOK, Sound
<1>2. CASE Login(r) \/ Refresh(r) \/ Logout(r)
  <2>1. tx'[r].at \in {"upsert", "lookup"}
      BY <1>1, <1>2 DEF Login, Refresh, Logout, Arrive, NoTx
  <2> QED BY <2>1, NothingToPlace
<1>3. CASE DeadlockAbort(r) \/ Fail(r) \/ RejectToken(r) \/ RaiseReuse(r)
  <2>1. tx'[r].at = "idle"
      BY <1>1, <1>3 DEF DeadlockAbort, Fail, RejectToken, RaiseReuse, Goto, NoTx
  <2> QED BY <2>1, NothingToPlace
<1>4. CASE Upsert(r) \/ DetectReuse(r) \/ Sweep(r) \/ AcceptToken(r)
  <2>1. tx'[r].at \in {"count", "sweep", "revoke"}
    <3>1. CASE Upsert(r)
        BY <1>1, <3>1 DEF Upsert, Goto, Tx
    <3>2. CASE DetectReuse(r)
        BY <1>1, <3>2 DEF DetectReuse, Goto, Tx
    <3>3. CASE Sweep(r)
      <4>1. PICK x \in {[tx[r] EXCEPT !.todo = @ \ {t},
                                      !.revokes = @ \cup ({t} \ revoked)] :
                            t \in tx[r].todo} :
              tx' = [tx EXCEPT ![r] = x]
          BY <3>3 DEF Sweep, Goto
      <4>2. tx'[r] = x /\ x.at = tx[r].at
          BY <1>1, <4>1 DEF Tx
      <4> QED BY <4>2, <3>3 DEF Sweep
    <3>4. CASE AcceptToken(r)
        BY <1>1, <3>4 DEF AcceptToken, Goto, Tx
    <3> QED BY <1>4, <3>1, <3>2, <3>3, <3>4
  <2> QED BY <2>1, NothingToPlace
<1>5. CASE SkipLogout(r) \/ RevokeToken(r)
  <2>1. tx[r].at \in {"lookup", "revoke"} /\ tx'[r].mints = tx[r].mints
    <3>1. CASE SkipLogout(r)
        BY <1>1, <3>1 DEF SkipLogout, Goto, Tx
    <3>2. CASE RevokeToken(r)
        BY <1>1, <3>2 DEF RevokeToken, Goto, Tx
    <3> QED BY <1>5, <3>1, <3>2
  <2>2. tx'[r].mints = 0
      BY <2>1 DEF TokensInv, Sound, Fresh, Rotating
  <2> QED BY <2>2 DEF Placing
<1> QED BY <1>2, <1>3, <1>4, <1>5

LEMMA LimitStep ==
    ASSUME Counting
    PROVE  TokensInv /\ TokensInv' /\ LimitInv /\ [Next]_vars => LimitInv'
<1> SUFFICES ASSUME TokensInv, TokensInv', LimitInv, [Next]_vars
             PROVE  LimitInv'
    OBVIOUS
<1>1. ActiveNearLimit'
    BY CommitLimit, OtherLimit DEF LimitInv
<1>2. ASSUME NEW s \in Requests
      PROVE  Placing(s)'
  <2>0. tx \in [Requests -> Tx] /\ Placing(s) /\ ActiveNearLimit
      BY DEF TokensInv, TypeOK, LimitInv
  <2>1. ASSUME NEW r \in Requests, Commit(r)
        PROVE  Placing(s)'
    <3>1. CASE s = r
      <4>1. tx'[s].mints = 0
          BY <2>1, <3>1 DEF Commit, EndTx, NoTx
      <4> QED BY <4>1 DEF Placing
    <3> QED BY <2>0, <2>1, <3>1, PlacingCommit
  <2>2. ASSUME \A r \in Requests : ~Commit(r), tx'[s] = tx[s]
        PROVE  Placing(s)'
    <3>1. Counted(s)' \subseteq Counted(s)
        BY <2>2, OtherKeeps DEF Counted, Unrevoked
    <3> QED BY <3>1, <2>0, <2>2, PlacingStays
  <2>3. CASE UNCHANGED vars \/ Expire
    <3>1. tx' = tx
        BY <2>3 DEF vars, Expire
    <3> QED BY <2>1, <2>2, <3>1
  <2>4. ASSUME NEW r \in Requests,
               Login(r) \/ Refresh(r) \/ Logout(r) \/ Step(r)
                 \/ DeadlockAbort(r) \/ Fail(r),
               r # s, ~Commit(r)
        PROVE  Placing(s)'
    <3>1. tx'[s] = tx[s]
        BY <2>0, <2>4
           DEF Login, Refresh, Logout, Arrive, Step, DeadlockAbort, Fail, Upsert,
               RejectToken, DetectReuse, Sweep, RaiseReuse, AcceptToken, SkipLogout,
               RevokeToken, CountActive, PickOldest, RevokeOldest, Respond, Goto
    <3> QED BY <2>1, <2>2, <3>1
  <2>5. CASE Login(s) \/ Refresh(s) \/ Logout(s) \/ (Step(s) /\ ~Commit(s))
             \/ DeadlockAbort(s) \/ Fail(s)
      BY <2>0, <2>5, PlacingOther, PlacingPick, PlacingCount, PlacingEvict DEF Step
  <2> QED BY <2>1, <2>3, <2>4, <2>5 DEF Next, Step
<1> QED BY <1>1, <1>2 DEF LimitInv

\* The limit on active tokens is exceeded only by tokens for which there was no
\* room when they were stored, because another one was stored after the count or
\* because the eviction picked a token that did not count; the bound does not
\* grow with what has happened before (tokens.py:81-102).
THEOREM LimitIsNear ==
    ASSUME Counting
    PROVE  Spec => []ActiveNearLimit
<1>1. Init => LimitInv
  <2> SUFFICES ASSUME Init PROVE LimitInv
      OBVIOUS
  <2>1. \A r \in Requests : Placing(r)
      BY DEF Init, Placing, NoTx
  <2>2. Active \ surplus = {}
      BY DEF Init, Active
  <2>3. ActiveNearLimit
      BY <2>2, FS_EmptySet, BoundsAssumption DEF ActiveNearLimit
  <2> QED BY <2>1, <2>3 DEF LimitInv
<1>2. LimitInv => ActiveNearLimit
    BY DEF LimitInv
<1> QED BY <1>1, <1>2, TokensInit, TokensStep, LimitStep, PTL DEF Spec

-----------------------------------------------------------------------------
(* One request at a time.                                                    *)

\* With one request nobody else stores a token between its count and its commit.
NoSurplus == surplus = {} /\ \A r \in Requests : ~tx[r].over

LEMMA OverKept ==
    ASSUME TokensInv, NEW r \in Requests, NEW x, Goto(r, x), x.over = tx[r].over
    PROVE  surplus' = surplus /\ tx'[r].over = tx[r].over
BY DEF TokensInv, TypeOK, Goto

LEMMA NobodyIsOver ==
    ASSUME OneAtATime
    PROVE  TokensInv /\ NothingStale /\ NoSurplus /\ [Next]_vars => NoSurplus'
<1> SUFFICES ASSUME TokensInv, NothingStale, NoSurplus, [Next]_vars
             PROVE  NoSurplus'
    OBVIOUS
<1>1. tx \in [Requests -> Tx] /\ NoTx.over = FALSE
    BY DEF TokensInv, TypeOK, NoTx
<1>2. CASE UNCHANGED vars \/ Expire
    BY <1>2 DEF vars, Expire, NoSurplus
<1>3. ASSUME NEW r \in Requests, Commit(r)
      PROVE  NoSurplus'
  <2>1. \A s \in Requests : tx'[s] = NoTx
      BY <1>3 DEF Commit, EndTx, OneAtATime
  <2>2. surplus' = {}
      BY <1>3 DEF Commit, EndTx, NoSurplus
  <2> QED BY <2>1, <2>2, <1>1 DEF NoSurplus
<1>4. ASSUME NEW r \in Requests,
             Login(r) \/ Refresh(r) \/ Logout(r) \/ Step(r)
               \/ DeadlockAbort(r) \/ Fail(r),
             ~Commit(r)
      PROVE  NoSurplus'
  <2>1. tx[r] \in Tx /\ tx[r].over = FALSE
      BY <1>1 DEF NoSurplus, Tx
  <2>2. CASE Login(r) \/ Refresh(r) \/ Logout(r)
    <3>1. PICK op, a, t, f : Arrive(r, op, a, t, f)
        BY <2>2 DEF Login, Refresh, Logout
    <3>2. surplus' = surplus /\ tx'[r].over = FALSE
        BY <3>1, <1>1 DEF Arrive, NoTx
    <3> QED BY <3>2 DEF NoSurplus, OneAtATime
  <2>3. CASE RejectToken(r) \/ RaiseReuse(r) \/ DeadlockAbort(r) \/ Fail(r)
    <3>1. surplus' = surplus /\ tx' = [tx EXCEPT ![r] = NoTx]
        BY <2>3 DEF RejectToken, RaiseReuse, DeadlockAbort, Fail, Goto
    <3>2. tx'[r].over = FALSE
        BY <3>1, <1>1
    <3> QED BY <3>1, <3>2 DEF NoSurplus, OneAtATime
  <2>4. CASE \/ Upsert(r) \/ DetectReuse(r) \/ Sweep(r) \/ AcceptToken(r)
             \/ SkipLogout(r) \/ RevokeToken(r)
    <3> SUFFICES surplus' = surplus /\ tx'[r].over = tx[r].over
        BY <2>1 DEF NoSurplus, OneAtATime
    <3>1. CASE Upsert(r)
      <4> DEFINE x == [tx[r] EXCEPT !.at = "count"]
      <4>1. Goto(r, x) /\ x.over = tx[r].over
          BY <3>1, <2>1 DEF Upsert, Tx
      <4> QED BY <4>1, OverKept
    <3>2. CASE DetectReuse(r)
      <4> DEFINE x == [tx[r] EXCEPT !.at = "sweep", !.todo = rows \ revoked]
      <4>1. Goto(r, x) /\ x.over = tx[r].over
          BY <3>2, <2>1 DEF DetectReuse, Tx
      <4> QED BY <4>1, OverKept
    <3>3. CASE AcceptToken(r)
      <4> DEFINE x == [tx[r] EXCEPT !.at = "revoke"]
      <4>1. Goto(r, x) /\ x.over = tx[r].over
          BY <3>3, <2>1 DEF AcceptToken, Tx
      <4> QED BY <4>1, OverKept
    <3>4. CASE SkipLogout(r)
      <4> DEFINE x == [tx[r] EXCEPT !.at = "respond"]
      <4>1. Goto(r, x) /\ x.over = tx[r].over
          BY <3>4, <2>1 DEF SkipLogout, Tx
      <4> QED BY <4>1, OverKept
    <3>5. CASE RevokeToken(r)
      <4> DEFINE x == [tx[r] EXCEPT
             !.revokes = @ \cup {tx[r].token},
             !.at = IF tx[r].op = "refresh" THEN "count" ELSE "respond"]
      <4>1. Goto(r, x) /\ x.over = tx[r].over
          BY <3>5, <2>1 DEF RevokeToken, Tx
      <4> QED BY <4>1, OverKept
    <3>6. CASE Sweep(r)
      <4>1. PICK t : Goto(r, [tx[r] EXCEPT !.todo = @ \ {t},
                                           !.revokes = @ \cup ({t} \ revoked)])
          BY <3>6 DEF Sweep
      <4> DEFINE x == [tx[r] EXCEPT !.todo = @ \ {t},
                                    !.revokes = @ \cup ({t} \ revoked)]
      <4>2. x.over = tx[r].over
          BY <2>1 DEF Tx
      <4> QED BY <4>1, <4>2, OverKept
    <3> QED BY <2>4, <3>1, <3>2, <3>3, <3>4, <3>5, <3>6
  <2>5. CASE CountActive(r) \/ PickOldest(r) \/ RevokeOldest(r) \/ Respond(r)
    <3> SUFFICES surplus' = surplus /\ tx'[r].over = tx[r].over
        BY <2>1 DEF NoSurplus, OneAtATime
    <3>1. CASE CountActive(r)
        BY <3>1, <1>1, <2>1 DEF CountActive, Goto, Tx
    <3>2. CASE PickOldest(r)
      <4>1. CASE Goto(r, [tx[r] EXCEPT !.at = "respond"])
        <5> DEFINE x == [tx[r] EXCEPT !.at = "respond"]
        <5>1. Goto(r, x) /\ x.over = tx[r].over
            BY <4>1, <2>1 DEF Tx
        <5> QED BY <5>1, OverKept
      <4>2. ASSUME NEW t \in Unrevoked(r), Goto(r, Pick(r, t))
            PROVE  surplus' = surplus /\ tx'[r].over = tx[r].over
        <5>1. t \in 0 .. MaxTokens
            BY DEF TokensInv, TypeOK, Unrevoked, Tokens
        <5>2. t \in Counted(r)
            BY <3>2 DEF PickOldest, NothingStale, NoSurplus, Counted
        <5>3. (Counting /\ MakesNoRoom(r, t)) = FALSE
            BY <5>2 DEF MakesNoRoom
        <5>4. Pick(r, t).over = FALSE
          <6>1. Pick(r, t).over = (Counting /\ MakesNoRoom(r, t))
              BY <5>1, <2>1, PickFields
          <6> QED BY <5>3, <6>1
        <5> QED BY <5>4, <4>2, <2>1, OverKept
      <4> QED BY <3>2, <4>1, <4>2 DEF PickOldest
    <3>3. CASE RevokeOldest(r)
        BY <3>3, <1>1, <2>1 DEF RevokeOldest, Goto, Tx
    <3>4. CASE Respond(r)
        BY <3>4, <1>1, <2>1 DEF Respond, Tx
    <3> QED BY <2>5, <3>1, <3>2, <3>3, <3>4
  <2> QED BY <1>4, <2>2, <2>3, <2>4, <2>5 DEF Step
<1> QED BY <1>2, <1>3, <1>4 DEF Next, Step

\* With one request at a time, and as long as the oldest token that a request at
\* the limit finds unrevoked has not expired, the limit is never exceeded: the
\* count and the eviction of tokens.py:69-103 are right but for what is
\* concurrent with them and for the expired tokens that they do not tell apart.
THEOREM LimitIsKeptAlone ==
    ASSUME Counting, OneAtATime
    PROVE  Spec /\ []NothingStale => []LimitKept
<1>1. Init => NoSurplus
    BY DEF Init, NoSurplus, NoTx
<1>2. ActiveNearLimit /\ NoSurplus => LimitKept
  <2>1. surplus = {} => Active \ surplus = Active
      OBVIOUS
  <2> QED BY <2>1 DEF ActiveNearLimit, NoSurplus, LimitKept
<1> QED BY <1>1, <1>2, TokensInit, TokensStep, NobodyIsOver, LimitIsNear, PTL
        DEF Spec

\* With one request at a time a token has one successor (tokens.py:143-181).
THEOREM RotatesOnceAlone ==
    ASSUME OneAtATime
    PROVE  Spec => []RotatedOnce
<1>1. TokensInv /\ SuccessorsBounded => RotatedOnce
  <2> SUFFICES ASSUME TokensInv, SuccessorsBounded, NEW t \in Tokens,
                      NEW u \in Successors(t), NEW v \in Successors(t), u # v
               PROVE  FALSE
      BY DEF RotatedOnce
  <2>1. Cardinality(Requests) <= 1 /\ Cardinality(Requests) \in Nat
    <3>1. CASE Requests = {}
        BY <3>1, FS_EmptySet
    <3>2. ASSUME NEW r \in Requests
          PROVE  Cardinality(Requests) = 1
      <4>1. Requests = {r}
          BY <3>2 DEF OneAtATime
      <4> QED BY <4>1, FS_Singleton
    <3> QED BY <3>1, <3>2
  <2>2. IsFiniteSet(Successors(t))
      BY SetsFinite, FS_Subset DEF Successors
  <2>3. Cardinality({u, v}) = 2
    <3>1. IsFiniteSet({u}) /\ Cardinality({u}) = 1 /\ v \notin {u}
        BY FS_Singleton
    <3>2. Cardinality({u} \cup {v}) = 2
        BY <3>1, FS_AddElement
    <3>3. {u} \cup {v} = {u, v}
        OBVIOUS
    <3> QED BY <3>2, <3>3
  <2>4. Cardinality({u, v}) <= Cardinality(Successors(t))
        /\ Cardinality(Successors(t)) \in Nat
      BY <2>2, FS_Subset, FS_CardinalityType
  <2> QED BY <2>1, <2>3, <2>4 DEF SuccessorsBounded
<1> QED BY <1>1, TokensInit, TokensStep, ForksAreBounded, PTL DEF Spec

=============================================================================
