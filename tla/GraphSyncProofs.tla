--------------------------- MODULE GraphSyncProofs ---------------------------
(* Theorems about GraphSync, for any number of users, items and transactions: *)
(* what the triggers send to the graph is right when nothing is in progress,  *)
(* except where the model says why it is not.                                 *)
EXTENDS GraphSync, FiniteSetTheorems, SequenceTheorems, TLAPS

-----------------------------------------------------------------------------
(* The operators.                                                            *)

\* A follow is between users, every other edge goes to a post or a comment.
LEMMA EdgeKinds ==
    /\ \A e \in Follows : e[1] \in Agents /\ e[2] \in Agents /\ e # None
    /\ \A a, x : <<a, x>> \in Agents \X Items => <<a, x>> \notin Follows
    /\ \A e \in Edges \ Follows : /\ e[1] \in Agents /\ e[2] \in Items
                                  /\ e = <<e[1], e[2]>>
BY ItemsAssumption DEF Edges

LEMMA WeightType ==
    ASSUME NEW a, NEW x, NEW R, NEW P
    PROVE  Weight(a, x, R, P) \in Nat
<1>1. IsFiniteSet({x} \cap R)
  <2>1. IsFiniteSet({x})
      BY FS_Singleton
  <2> QED BY <2>1, FS_Subset
<1>2. IsFiniteSet({c \in R \cap Comments :
                     Author[c] = a /\ (On[c] = x \/ P[c] = x)})
    BY ItemsAssumption, FS_Subset
<1> QED BY <1>1, <1>2, FS_CardinalityType DEF Weight

\* A weight of a's edges depends on the items that a wrote alone.
LEMMA WeightSame ==
    ASSUME NEW a, NEW x, NEW R, NEW P, NEW S, NEW Q,
           a = Author[x] => (x \in R <=> x \in S),
           a # Author[x] =>
             \A c \in Comments : Author[c] = a =>
               (c \in R /\ (On[c] = x \/ P[c] = x)
                  <=> c \in S /\ (On[c] = x \/ Q[c] = x))
    PROVE  Weight(a, x, R, P) = Weight(a, x, S, Q)
<1>1. CASE a = Author[x]
  <2>1. {x} \cap R = {x} \cap S
      BY <1>1
  <2> QED BY <1>1, <2>1 DEF Weight
<1>2. CASE a # Author[x]
  <2>1. {c \in R \cap Comments : Author[c] = a /\ (On[c] = x \/ P[c] = x)}
          = {c \in S \cap Comments : Author[c] = a /\ (On[c] = x \/ Q[c] = x)}
      BY <1>2
  <2> QED BY <1>2, <2>1 DEF Weight
<1> QED BY <1>1, <1>2

\* The parent of the row that an insert or an update of x writes.
ParentIn(t, x) == IF x \in Comments THEN t.parents[x] ELSE None

LEMMA SendsFacts ==
    ASSUME NEW x \in Items, NEW p \in Comments \cup {None}
    PROVE  /\ Sends(x, p) \subseteq (Agents \X Items) \ Follows
           /\ Sends(x, p) \subseteq Edges
           /\ \A e \in Sends(x, p) : e[1] = Author[x]
           /\ <<Author[x], x>> \in Sends(x, p)
           /\ \A y \in Items : /\ x \in Comments
                               /\ On[x] = y \/ p = y
                               /\ Author[y] # Author[x]
                               => <<Author[x], y>> \in Sends(x, p)
<1>1. Targets(x, p) \subseteq Items
    BY ItemsAssumption DEF Targets, Items
<1>2. Sends(x, p) \subseteq Agents \X Items
    BY <1>1, ItemsAssumption DEF Sends
<1>3. \A e \in Sends(x, p) : e[1] = Author[x]
    BY DEF Sends
<1>4. \A y \in Items : y \in Targets(x, p) /\ (y = x \/ Author[y] # Author[x])
                         => <<Author[x], y>> \in Sends(x, p)
    BY DEF Sends
<1>5. \A y \in Items : x \in Comments /\ (On[x] = y \/ p = y)
                         => y \in Targets(x, p)
    BY ItemsAssumption DEF Targets
<1>6. x \in Targets(x, p)
    BY DEF Targets
<1> QED BY <1>2, <1>3, <1>4, <1>5, <1>6, EdgeKinds DEF Edges

-----------------------------------------------------------------------------
(* One transaction.                                                          *)

\* What holds of a transaction whatever the tables and the others do: how far it
\* can be, that it holds the counter of everybody whose rows it has written, and
\* that it has sent the edges of every row it has inserted.
Sound(t) ==
    /\ t \in Tx
    /\ t.op \in {"follow", "unfollow"} <=> t.pair \in Follows
    /\ t.op = "batch" /\ t.at = "bump" => t.todo # <<>>
    /\ t.op = "follow" /\ t.at \in {"write", "commit"} => t.bumps[t.pair[1]] # 0
    /\ t.ticker # 0 => t.op = "follow" /\ t.at = "commit"
    /\ t.drops => t.op = "unfollow" /\ t.at = "commit"
    /\ t.at = "idle" => t.sent = {} /\ t.links = {}
    /\ t.ticker # 0 \/ t.drops => t.pair \in t.sent
    /\ \A c \in Comments : t.parents[c] \in {None, ReplyTo[c]}
    /\ \A x \in t.adds \cup t.links : t.bumps[Author[x]] # 0
    /\ \A c \in t.links : t.parents[c] # None
    /\ \A x \in t.adds : Sends(x, ParentIn(t, x)) \subseteq t.sent
    /\ \A e \in t.sent : IF e \in Follows
                         THEN e = t.pair /\ (t.ticker # 0 \/ t.drops)
                         ELSE t.bumps[e[1]] # 0

LEMMA NoTxSound == Sound(NoTx)
<1>1. NoTx \in Tx
    BY ItemsAssumption DEF NoTx, Tx, Orphans
<1> QED BY <1>1, ItemsAssumption DEF Sound, NoTx, Orphans

LEMMA NoTxFields ==
    /\ NoTx.op = "none" /\ NoTx.at = "idle" /\ NoTx.ticker = 0 /\ ~NoTx.drops
    /\ NoTx.adds = {} /\ NoTx.links = {} /\ NoTx.sent = {} /\ NoTx.pair = None
    /\ \A a \in Agents : NoTx.bumps[a] = 0
BY DEF NoTx

-----------------------------------------------------------------------------
(* What each step does to its transaction: t is what it becomes.             *)

TxInv == TypeOK /\ \A r \in Sessions : Sound(tx[r])

LEMMA BeginFacts ==
    ASSUME TxInv, NEW r \in Sessions,
           BeginFollow(r) \/ BeginUnfollow(r) \/ BeginBatch(r)
    PROVE  /\ \E t : /\ tx' = [tx EXCEPT ![r] = t]
                     /\ Sound(t)
                     /\ t.sent = {} /\ t.adds = {} /\ t.links = {}
                     /\ t.ticker = 0 /\ ~t.drops
                     /\ \A a \in Agents : t.bumps[a] = 0
           /\ begun' \in 0 .. MaxTx
           /\ UNCHANGED <<tables, graph, load, since, torn>>
<1>1. NoTx \in Tx
    BY NoTxSound DEF Sound
<1>2. \A n \in 0 .. MaxTx : n < MaxTx => n + 1 \in 0 .. MaxTx
    BY BoundsAssumption
<1>3. CASE BeginFollow(r)
  <2>1. PICK e \in Follows : Begin(r, [NoTx EXCEPT !.op = "follow", !.at = "bump",
                                                   !.pair = e])
      BY <1>3 DEF BeginFollow
  <2> DEFINE t == [NoTx EXCEPT !.op = "follow", !.at = "bump", !.pair = e]
  <2>2. /\ t \in Tx /\ t.op = "follow" /\ t.at = "bump" /\ t.pair = e
        /\ t.ticker = 0 /\ ~t.drops /\ t.parents = Orphans
        /\ t.adds = {} /\ t.links = {} /\ t.sent = {}
        /\ \A a \in Agents : t.bumps[a] = 0
      BY <1>1 DEF NoTx, Tx
  <2>3. tx' = [tx EXCEPT ![r] = t] /\ begun' \in 0 .. MaxTx
      BY <1>2, <2>1 DEF Begin, TxInv, TypeOK
  <2> HIDE DEF t
  <2>4. Sound(t)
      BY <2>2 DEF Sound, Orphans
  <2> QED BY <2>1, <2>2, <2>3, <2>4 DEF Begin
<1>4. CASE BeginUnfollow(r)
  <2>1. PICK e \in Follows : Begin(r, [NoTx EXCEPT !.op = "unfollow",
                                                   !.at = "write", !.pair = e])
      BY <1>4 DEF BeginUnfollow
  <2> DEFINE t == [NoTx EXCEPT !.op = "unfollow", !.at = "write", !.pair = e]
  <2>2. /\ t \in Tx /\ t.op = "unfollow" /\ t.at = "write" /\ t.pair = e
        /\ t.ticker = 0 /\ ~t.drops /\ t.parents = Orphans
        /\ t.adds = {} /\ t.links = {} /\ t.sent = {}
        /\ \A a \in Agents : t.bumps[a] = 0
      BY <1>1 DEF NoTx, Tx
  <2>3. tx' = [tx EXCEPT ![r] = t] /\ begun' \in 0 .. MaxTx
      BY <1>2, <2>1 DEF Begin, TxInv, TypeOK
  <2> HIDE DEF t
  <2>4. Sound(t)
      BY <2>2 DEF Sound, Orphans
  <2> QED BY <2>1, <2>2, <2>3, <2>4 DEF Begin
<1>5. CASE BeginBatch(r)
  <2>1. PICK b \in Batches :
          Begin(r, [NoTx EXCEPT
                 !.op = "batch", !.at = "bump", !.todo = b,
                 !.parents = [c \in Comments |->
                    IF ReplyTo[c] \in rows \cup ToSet(b) THEN ReplyTo[c]
                    ELSE None]])
      BY <1>5 DEF BeginBatch
  <2> DEFINE q == [c \in Comments |->
                    IF ReplyTo[c] \in rows \cup ToSet(b) THEN ReplyTo[c] ELSE None]
             t == [NoTx EXCEPT !.op = "batch", !.at = "bump", !.todo = b,
                               !.parents = q]
  <2>2. /\ q \in [Comments -> Comments \cup {None}]
        /\ \A c \in Comments : q[c] \in {None, ReplyTo[c]}
      BY ItemsAssumption
  <2>3. b \in Seq(Items) /\ b # <<>>
      BY ItemsAssumption
  <2>4. tx' = [tx EXCEPT ![r] = t] /\ begun' \in 0 .. MaxTx
      BY <1>2, <2>1 DEF Begin, TxInv, TypeOK
  <2> HIDE DEF q
  <2>5. /\ t \in Tx /\ t.op = "batch" /\ t.at = "bump" /\ t.pair = None
        /\ t.ticker = 0 /\ ~t.drops /\ t.parents = q /\ t.todo = b
        /\ t.adds = {} /\ t.links = {} /\ t.sent = {}
        /\ \A a \in Agents : t.bumps[a] = 0
      BY <1>1, <2>2, <2>3 DEF NoTx, Tx
  <2> HIDE DEF t
  <2>6. Sound(t)
      BY <2>2, <2>3, <2>5, ItemsAssumption DEF Sound
  <2> QED BY <2>1, <2>4, <2>5, <2>6 DEF Begin
<1> QED BY <1>3, <1>4, <1>5

LEMMA BumpFacts ==
    ASSUME TxInv, NEW r \in Sessions, Bump(r)
    PROVE  /\ tx[r].pair[1] \in Agents /\ ~VsidLocked(r, tx[r].pair[1])
           /\ \E t : /\ tx' = [tx EXCEPT ![r] = t]
                     /\ Sound(t)
                     /\ t.sent = tx[r].sent /\ t.adds = tx[r].adds
                     /\ t.links = tx[r].links /\ t.parents = tx[r].parents
                     /\ t.pair = tx[r].pair /\ ~t.drops
                     /\ t.ticker = 0 /\ tx[r].ticker = 0
                     /\ \A a \in Agents \ {tx[r].pair[1]} :
                            t.bumps[a] = tx[r].bumps[a]
           /\ UNCHANGED <<tables, graph, begun, load, since, torn>>
<1> DEFINE u == tx[r]
           a == tx[r].pair[1]
           t == [tx[r] EXCEPT !.bumps = [@ EXCEPT ![a] = 1], !.at = "write"]
<1>1. Sound(u) /\ u \in Tx /\ u.op = "follow" /\ u.at = "bump"
    BY DEF TxInv, Sound, Bump
<1>2. u.pair \in Follows /\ a \in Agents /\ u.ticker = 0 /\ ~u.drops
    BY <1>1, EdgeKinds DEF Sound, Tx
<1>3. tx' = [tx EXCEPT ![r] = t]
    BY DEF Bump
<1>4. u.bumps \in [Agents -> Nat]
    BY <1>1 DEF Tx
<1>5. /\ t \in Tx /\ t.op = "follow" /\ t.at = "write" /\ t.pair = u.pair
      /\ t.todo = u.todo /\ t.parents = u.parents /\ t.ticker = 0 /\ ~t.drops
      /\ t.adds = u.adds /\ t.links = u.links /\ t.sent = u.sent
      /\ t.bumps = [u.bumps EXCEPT ![a] = 1]
    BY <1>1, <1>2, <1>4 DEF Tx
<1> HIDE DEF t
<1>6. t.bumps[a] = 1 /\ \A b \in Agents \ {a} : t.bumps[b] = u.bumps[b]
    BY <1>2, <1>4, <1>5
<1>7. \A b \in Agents : u.bumps[b] # 0 => t.bumps[b] # 0
    BY <1>6
<1>8. Sound(t)
  <2>1. u.adds \subseteq Items /\ u.links \subseteq Comments /\ u.sent \subseteq Edges
      BY <1>1 DEF Tx
  <2>2. \A x \in t.adds \cup t.links : t.bumps[Author[x]] # 0
      BY <1>1, <1>5, <1>7, <2>1, ItemsAssumption DEF Sound, Items
  <2>3. \A e \in t.sent : IF e \in Follows
                          THEN e = t.pair /\ (t.ticker # 0 \/ t.drops)
                          ELSE t.bumps[e[1]] # 0
    <3> SUFFICES ASSUME NEW e \in t.sent
                 PROVE  IF e \in Follows
                        THEN e = t.pair /\ (t.ticker # 0 \/ t.drops)
                        ELSE t.bumps[e[1]] # 0
        OBVIOUS
    <3>1. e \in u.sent /\ e \in Edges
        BY <1>5, <2>1
    <3> QED BY <1>1, <1>2, <1>5, <1>7, <3>1, EdgeKinds DEF Sound
  <2>4. \A x \in t.adds : Sends(x, ParentIn(t, x)) \subseteq t.sent
      BY <1>1, <1>5 DEF Sound, ParentIn
  <2> QED BY <1>1, <1>2, <1>5, <1>6, <2>2, <2>3, <2>4 DEF Sound
<1>9. \A b \in Agents \ {a} : t.bumps[b] = tx[r].bumps[b]
    BY <1>6
<1>10. /\ ~VsidLocked(r, a)
       /\ UNCHANGED <<tables, graph, begun, load, since, torn>>
    BY DEF Bump
<1> HIDE DEF u, a
<1> QED BY <1>2, <1>3, <1>5, <1>8, <1>9, <1>10 DEF u, a

\* A field that a step changes on top of the locks leaves the rest of Sound.
LEMMA SoundRows ==
    ASSUME NEW u, NEW t, Sound(u), t \in Tx,
           t.parents = u.parents, t.adds = u.adds, t.links = u.links,
           \A a \in Agents : u.bumps[a] # 0 => t.bumps[a] # 0
    PROVE  /\ \A c \in Comments : t.parents[c] \in {None, ReplyTo[c]}
           /\ \A x \in t.adds \cup t.links : t.bumps[Author[x]] # 0
           /\ \A c \in t.links : t.parents[c] # None
           /\ \A x \in t.adds : Sends(x, ParentIn(t, x)) \subseteq u.sent
           /\ \A e \in u.sent \ Follows : t.bumps[e[1]] # 0
<1>1. u \in Tx
    BY DEF Sound
<1>2. u.adds \subseteq Items /\ u.links \subseteq Comments /\ u.sent \subseteq Edges
    BY <1>1 DEF Tx
<1>3. \A x \in t.adds \cup t.links : t.bumps[Author[x]] # 0
    BY <1>2, ItemsAssumption DEF Sound, Items
<1>4. \A x \in t.adds : Sends(x, ParentIn(t, x)) \subseteq u.sent
    BY DEF Sound, ParentIn
<1>5. \A e \in u.sent \ Follows : t.bumps[e[1]] # 0
    BY <1>2, EdgeKinds DEF Sound
<1> QED BY <1>3, <1>4, <1>5 DEF Sound

LEMMA WriteFollowFacts ==
    ASSUME TxInv, NEW r \in Sessions, WriteFollow(r),
           NEW e \in {tx[r].pair}
    PROVE  /\ e \in Follows /\ ~RowLocked(r, e) /\ tx[r].bumps[e[1]] # 0
           /\ tx[r].ticker = 0 /\ ~tx[r].drops
           /\ \E t : /\ tx' = [tx EXCEPT ![r] = t]
                     /\ Sound(t)
                     /\ t.pair = e /\ ~t.drops
                     /\ t.adds = tx[r].adds /\ t.links = tx[r].links
                     /\ t.parents = tx[r].parents /\ t.sent = tx[r].sent \cup {e}
                     /\ t.ticker = vsid[e[1]] + t.bumps[e[1]]
                     /\ \A a \in Agents \ {e[1]} : t.bumps[a] = tx[r].bumps[a]
                     /\ graph' = [graph EXCEPT ![e] = t.ticker]
           /\ torn' = torn \ {e} /\ Touch({e})
           /\ UNCHANGED <<tables, begun, load>>
<1> DEFINE u == tx[r]
           n == IF follow[e] = 0 THEN 1 ELSE 2
           b == [u.bumps EXCEPT ![e[1]] = n]
           k == vsid[e[1]] + n
           v == [u EXCEPT !.bumps = b, !.at = "commit", !.ticker = k]
           t == [v EXCEPT !.sent = @ \cup {e}]
<1>1. Sound(u) /\ u \in Tx /\ u.op = "follow" /\ u.at = "write"
      /\ u.pair = e /\ ~RowLocked(r, e)
    BY DEF TxInv, Sound, WriteFollow
<1>2. /\ e \in Follows /\ e \in Edges /\ e[1] \in Agents /\ u.ticker = 0
      /\ ~u.drops /\ u.bumps[e[1]] # 0
    BY <1>1, EdgeKinds DEF Sound, Tx, Edges
<1>4. /\ tx' = [tx EXCEPT ![r] = t]
      /\ graph' = [f \in Edges |-> IF f \in {e} THEN vsid[e[1]] + n ELSE graph[f]]
      /\ torn' = torn \ {e} /\ Touch({e})
      /\ UNCHANGED <<tables, begun, load>>
    BY DEF WriteFollow, Send
<1>5. u.bumps \in [Agents -> Nat] /\ vsid[e[1]] \in Nat /\ n \in Nat /\ n # 0
    BY <1>1, <1>2 DEF Tx, TxInv, TypeOK
<1> HIDE DEF n, u
<1>3. /\ v \in Tx /\ v.op = "follow" /\ v.at = "commit" /\ v.pair = e
      /\ v.todo = u.todo /\ v.parents = u.parents /\ ~v.drops
      /\ v.adds = u.adds /\ v.links = u.links /\ v.sent = u.sent
      /\ v.bumps = b /\ v.ticker = k
  <2>1. vsid[e[1]] + n \in Nat
      BY <1>5
  <2>2. b \in [Agents -> Nat]
      BY <1>5
  <2> HIDE DEF k, b
  <2> QED BY <1>1, <1>2, <2>1, <2>2 DEF Tx, k
<1> HIDE DEF v, b, k
<1>6. /\ t \in Tx /\ t.op = "follow" /\ t.at = "commit" /\ t.pair = e
      /\ t.todo = u.todo /\ t.parents = u.parents /\ ~t.drops
      /\ t.adds = u.adds /\ t.links = u.links /\ t.sent = u.sent \cup {e}
      /\ t.bumps = b /\ t.ticker = k
    BY <1>2, <1>3 DEF Tx
<1> HIDE DEF t
<1>7. t.bumps[e[1]] = n /\ \A a \in Agents \ {e[1]} : t.bumps[a] = u.bumps[a]
    BY <1>2, <1>5, <1>6 DEF b
<1>8. \A a \in Agents : u.bumps[a] # 0 => t.bumps[a] # 0
    BY <1>5, <1>7
<1>9. t.ticker # 0
    BY <1>5, <1>6 DEF k
<1>10. \A f \in u.sent : f \notin Follows
    BY <1>1, <1>2 DEF Sound
<1>11. Sound(t)
  <2>1. /\ \A c \in Comments : t.parents[c] \in {None, ReplyTo[c]}
        /\ \A x \in t.adds \cup t.links : t.bumps[Author[x]] # 0
        /\ \A c \in t.links : t.parents[c] # None
        /\ \A x \in t.adds : Sends(x, ParentIn(t, x)) \subseteq u.sent
        /\ \A f \in u.sent \ Follows : t.bumps[f[1]] # 0
      BY <1>1, <1>6, <1>8, SoundRows
  <2> QED BY <1>2, <1>6, <1>7, <1>5, <1>9, <1>10, <2>1 DEF Sound
<1>12. graph' = [graph EXCEPT ![e] = t.ticker]
    BY <1>2, <1>4, <1>6 DEF TxInv, TypeOK, k
<1>13. \A a \in Agents \ {e[1]} : t.bumps[a] = tx[r].bumps[a]
    BY <1>7 DEF u
<1>14. t.ticker = vsid[e[1]] + t.bumps[e[1]]
    BY <1>6, <1>7 DEF k
<1> QED BY <1>1, <1>2, <1>4, <1>6, <1>11, <1>12, <1>13, <1>14 DEF u

LEMMA WriteUnfollowFacts ==
    ASSUME TxInv, NEW r \in Sessions, WriteUnfollow(r),
           NEW e \in {tx[r].pair}
    PROVE  /\ e \in Follows /\ ~RowLocked(r, e)
           /\ tx[r].ticker = 0 /\ ~tx[r].drops
           /\ \E t, E : /\ E = IF follow[e] # 0 THEN {e} ELSE {}
                        /\ tx' = [tx EXCEPT ![r] = t]
                        /\ Sound(t)
                        /\ t.pair = e /\ (t.drops <=> follow[e] # 0) /\ t.ticker = 0
                        /\ t.adds = tx[r].adds /\ t.links = tx[r].links
                        /\ t.parents = tx[r].parents /\ t.sent = tx[r].sent \cup E
                        /\ t.bumps = tx[r].bumps
                        /\ graph' = [f \in Edges |-> IF f \in E THEN 0 ELSE graph[f]]
                        /\ torn' = torn \ E /\ Touch(E)
           /\ UNCHANGED <<tables, begun, load>>
<1> DEFINE u == tx[r]
           E == IF follow[e] # 0 THEN {e} ELSE {}
           v == [u EXCEPT !.drops = (follow[e] # 0), !.at = "commit"]
           t == [v EXCEPT !.sent = @ \cup E]
<1>1. Sound(u) /\ u \in Tx /\ u.op = "unfollow" /\ u.at = "write"
    BY DEF TxInv, Sound, WriteUnfollow
<1>2. e \in Follows /\ e \in Edges /\ u.ticker = 0 /\ ~u.drops
    BY <1>1, EdgeKinds DEF Sound, Tx, Edges
<1>3. Send(r, v, E, LAMBDA f : 0) /\ ~RowLocked(r, e)
    BY DEF WriteUnfollow
<1>4. /\ tx' = [tx EXCEPT ![r] = t]
      /\ graph' = [f \in Edges |-> IF f \in E THEN 0 ELSE graph[f]]
      /\ torn' = torn \ E /\ Touch(E)
      /\ UNCHANGED <<tables, begun, load>>
    BY <1>3 DEF Send
<1>5. E \subseteq Edges /\ \A f \in E : f = e /\ follow[e] # 0
    BY <1>2
<1>6. /\ t \in Tx /\ t.op = "unfollow" /\ t.at = "commit" /\ t.pair = e
      /\ t.todo = u.todo /\ t.parents = u.parents /\ (t.drops <=> follow[e] # 0)
      /\ t.adds = u.adds /\ t.links = u.links /\ t.sent = u.sent \cup E
      /\ t.bumps = u.bumps /\ t.ticker = 0
    BY <1>1, <1>2, <1>5 DEF Tx
<1> HIDE DEF t, v
<1>7. \A f \in u.sent : f \notin Follows
    BY <1>1, <1>2 DEF Sound
<1>8. Sound(t)
  <2>1. /\ \A c \in Comments : t.parents[c] \in {None, ReplyTo[c]}
        /\ \A x \in t.adds \cup t.links : t.bumps[Author[x]] # 0
        /\ \A c \in t.links : t.parents[c] # None
        /\ \A x \in t.adds : Sends(x, ParentIn(t, x)) \subseteq u.sent
        /\ \A f \in u.sent \ Follows : t.bumps[f[1]] # 0
      BY <1>1, <1>6, SoundRows
  <2> QED BY <1>2, <1>5, <1>6, <1>7, <2>1 DEF Sound
<1> HIDE DEF u, E
<1>9. E = IF follow[e] # 0 THEN {e} ELSE {}
    BY DEF E
<1> QED BY <1>2, <1>3, <1>4, <1>6, <1>8, <1>9 DEF u

\* The parents that the tables have when t commits.
NewParent(t, P) == [c \in Comments |-> IF c \in t.adds \cup t.links
                                       THEN t.parents[c] ELSE P[c]]

LEMMA TailFacts ==
    ASSUME NEW S, NEW q \in Seq(S), q # <<>>
    PROVE  Tail(q) \in Seq(S) /\ (Len(q) # 1 => Tail(q) # <<>>)
<1>1. PICK h : h = Tail(q)
    OBVIOUS
<1>2. h \in Seq(S) /\ Len(h) = Len(q) - 1 /\ Len(q) \in Nat
    BY <1>1, HeadTailProperties, LenProperties
<1>3. Len(<<>>) = 0
    BY EmptySeq
<1>4. h = <<>> => Len(q) = 1
    BY <1>2, <1>3
<1> QED BY <1>1, <1>2, <1>4

\* Transaction r becomes t and sends the edges E when it upserts x with the
\* parent p: an insert, the update that sets the parent of a stored comment, or
\* one that changes nothing.
UpsertStep(r, x, p, t, E) ==
    /\ tx' = [tx EXCEPT ![r] = t]
    /\ Sound(t)
    /\ t.pair = tx[r].pair /\ ~t.drops /\ t.ticker = 0
    /\ t.parents = tx[r].parents
    /\ t.bumps[Author[x]] # 0
    /\ \A a \in Agents \ {Author[x]} : t.bumps[a] = tx[r].bumps[a]
    /\ t.sent = tx[r].sent \cup E
    /\ torn' = torn \ E /\ Touch(E)
    /\ \/ /\ x \notin rows \cup tx[r].adds
          /\ E = Sends(x, p)
          /\ t.adds = tx[r].adds \cup {x} /\ t.links = tx[r].links
          /\ graph' = [e \in Edges |->
                 IF e \in E
                 THEN Weight(e[1], e[2], rows \cup t.adds,
                             NewParent(t, parent))
                 ELSE graph[e]]
       \/ /\ x \in Comments /\ p # None /\ parent[x] # p
          /\ E = {} /\ t.adds = tx[r].adds
          /\ t.links = tx[r].links \cup {x} /\ graph' = graph
       \/ /\ E = {} /\ t.adds = tx[r].adds /\ t.links = tx[r].links
          /\ graph' = graph

LEMMA UpsertFacts ==
    ASSUME TxInv, NEW r \in Sessions, Upsert(r),
           NEW x, x = Head(tx[r].todo), NEW p, p = ParentIn(tx[r], x)
    PROVE  /\ x \in Items /\ Author[x] \in Agents /\ ~VsidLocked(r, Author[x])
           /\ p \in Comments \cup {None}
           /\ tx[r].ticker = 0 /\ ~tx[r].drops
           /\ \E t, E : UpsertStep(r, x, p, t, E)
           /\ UNCHANGED <<tables, begun, load>>
<1> DEFINE u == tx[r]
           a == Author[x]
           g == IF Len(u.todo) = 1 THEN "commit" ELSE "bump"
           seen == rows \cup u.adds
           P == [c \in Comments |-> IF c \in u.adds \cup u.links \cup {x}
                                    THEN u.parents[c] ELSE parent[c]]
           b == [u.bumps EXCEPT ![a] = u.bumps[a] + 1]
           n == [u EXCEPT !.bumps = b, !.todo = Tail(@), !.at = g]
<1>1. Sound(u) /\ u \in Tx /\ u.op = "batch" /\ u.at = "bump" /\ ~VsidLocked(r, a)
    BY DEF TxInv, Sound, Upsert
<1>2. u.todo \in Seq(Items) /\ u.todo # <<>> /\ u.pair \notin Follows
    BY <1>1 DEF Sound, Tx
<1>3. x \in Items /\ a \in Agents
    BY <1>2, ItemsAssumption
<1>4. p \in Comments \cup {None} /\ (x \in Comments => p = u.parents[x])
    BY <1>1 DEF ParentIn, Tx
<1>5. u.ticker = 0 /\ ~u.drops
    BY <1>1 DEF Sound
<1>6. u.bumps \in [Agents -> Nat] /\ b \in [Agents -> Nat]
      /\ b[a] # 0 /\ \A c \in Agents : c # a => b[c] = u.bumps[c]
    BY <1>1, <1>3 DEF Tx
<1>7. /\ UNCHANGED <<tables, begun, load>>
      /\ \/ /\ x \notin seen
            /\ tx' = [tx EXCEPT ![r] =
                 [[n EXCEPT !.adds = @ \cup {x}] EXCEPT !.sent = @ \cup Sends(x, p)]]
            /\ graph' = [e \in Edges |->
                 IF e \in Sends(x, p) THEN Weight(e[1], e[2], seen \cup {x}, P)
                 ELSE graph[e]]
            /\ torn' = torn \ Sends(x, p) /\ Touch(Sends(x, p))
         \/ /\ x \in seen /\ p # None /\ x \notin u.adds /\ parent[x] # p
            /\ tx' = [tx EXCEPT ![r] =
                 [[n EXCEPT !.links = @ \cup {x}] EXCEPT !.sent = @ \cup {}]]
            /\ graph' = [e \in Edges |-> IF e \in {} THEN 0 ELSE graph[e]]
            /\ torn' = torn \ {} /\ Touch({})
         \/ /\ tx' = [tx EXCEPT ![r] = [n EXCEPT !.sent = @ \cup {}]]
            /\ graph' = [e \in Edges |-> IF e \in {} THEN 0 ELSE graph[e]]
            /\ torn' = torn \ {} /\ Touch({})
  <2>1. CASE x \notin seen
    <3>1. /\ tx' = [tx EXCEPT ![r] =
               [[n EXCEPT !.adds = @ \cup {x}] EXCEPT !.sent = @ \cup Sends(x, p)]]
          /\ graph' = [e \in Edges |->
               IF e \in Sends(x, p) THEN Weight(e[1], e[2], seen \cup {x}, P)
               ELSE graph[e]]
          /\ torn' = torn \ Sends(x, p) /\ Touch(Sends(x, p))
          /\ UNCHANGED <<tables, begun, load>>
        BY <2>1 DEF Upsert, Send, ParentIn
    <3> HIDE DEF n, seen, P
    <3> QED BY <2>1, <3>1
  <2>2. CASE x \in seen /\ p # None /\ x \notin u.adds /\ parent[x] # p
    <3>1. /\ tx' = [tx EXCEPT ![r] =
               [[n EXCEPT !.links = @ \cup {x}] EXCEPT !.sent = @ \cup {}]]
          /\ graph' = [e \in Edges |-> IF e \in {} THEN 0 ELSE graph[e]]
          /\ torn' = torn \ {} /\ Touch({})
          /\ UNCHANGED <<tables, begun, load>>
        BY <2>2 DEF Upsert, Send, ParentIn
    <3> HIDE DEF n, seen, P
    <3> QED BY <2>2, <3>1
  <2>3. CASE x \in seen /\ ~(p # None /\ x \notin u.adds /\ parent[x] # p)
    <3>1. /\ tx' = [tx EXCEPT ![r] = [n EXCEPT !.sent = @ \cup {}]]
          /\ graph' = [e \in Edges |-> IF e \in {} THEN 0 ELSE graph[e]]
          /\ torn' = torn \ {} /\ Touch({})
          /\ UNCHANGED <<tables, begun, load>>
        BY <2>3 DEF Upsert, Send, ParentIn
    <3> HIDE DEF n, seen, P
    <3> QED BY <3>1
  <2> QED BY <2>1, <2>2, <2>3
<1>8. /\ Tail(u.todo) \in Seq(Items) /\ g \in {"commit", "bump"}
      /\ g = "bump" => Tail(u.todo) # <<>>
    BY <1>2, TailFacts
<1> HIDE DEF b, g
<1>9. /\ n \in Tx /\ n.op = "batch" /\ n.at = g /\ n.todo = Tail(u.todo)
      /\ n.pair = u.pair /\ n.parents = u.parents /\ n.bumps = b
      /\ n.ticker = 0 /\ ~n.drops
      /\ n.adds = u.adds /\ n.links = u.links /\ n.sent = u.sent
    BY <1>1, <1>5, <1>6, <1>8 DEF Tx
<1> HIDE DEF n
<1>10. \A c \in Agents : u.bumps[c] # 0 => b[c] # 0
    BY <1>6
<1>11. \A f \in u.sent : f \notin Follows
    BY <1>1, <1>5 DEF Sound
\* Whatever the upsert does to the rows, its transaction is sound again.
<1>12. ASSUME NEW t \in Tx, NEW E \in SUBSET (Edges \ Follows),
              t.op = "batch", t.at = g, t.todo = n.todo, t.pair = n.pair,
              t.parents = n.parents, t.bumps = b, t.ticker = 0, ~t.drops,
              t.sent = u.sent \cup E,
              \A e \in E : e[1] = a,
              \/ t.adds = u.adds /\ t.links = u.links
              \/ t.adds = u.adds \cup {x} /\ t.links = u.links /\ Sends(x, p) \subseteq E
              \/ t.adds = u.adds /\ t.links = u.links \cup {x} /\ p # None
                                 /\ x \in Comments
       PROVE  Sound(t)
  <2>1. /\ u.adds \subseteq Items /\ u.links \subseteq Comments
        /\ u.sent \subseteq Edges
      BY <1>1 DEF Tx
  <2>2. t.op = "batch" /\ t.at = "bump" => t.todo # <<>>
      BY <1>8, <1>9, <1>12
  <2>3. \A c \in Comments : t.parents[c] \in {None, ReplyTo[c]}
      BY <1>1, <1>9, <1>12 DEF Sound
  <2>4. \A y \in t.adds \cup t.links : t.bumps[Author[y]] # 0
    <3>1. \A y \in u.adds \cup u.links : Author[y] \in Agents /\ u.bumps[Author[y]] # 0
        BY <1>1, <2>1, ItemsAssumption DEF Sound, Items
    <3> QED BY <1>6, <1>10, <1>12, <3>1
  <2>5. \A c \in t.links : t.parents[c] # None
      BY <1>1, <1>4, <1>9, <1>12 DEF Sound
  <2>6. \A y \in t.adds : Sends(y, ParentIn(t, y)) \subseteq t.sent
    <3>1. \A y : ParentIn(t, y) = ParentIn(u, y)
        BY <1>9, <1>12 DEF ParentIn
    <3>2. \A y \in u.adds : Sends(y, ParentIn(u, y)) \subseteq u.sent
        BY <1>1 DEF Sound
    <3> QED BY <1>12, <3>1, <3>2
  <2>7. \A e \in t.sent : e \notin Follows /\ t.bumps[e[1]] # 0
    <3>1. \A e \in u.sent : e[1] \in Agents /\ u.bumps[e[1]] # 0
        BY <1>1, <1>11, <2>1, EdgeKinds DEF Sound
    <3> QED BY <1>6, <1>10, <1>11, <1>12, <3>1
  <2>8. t.at # "idle" /\ t.pair = u.pair
      BY <1>8, <1>9, <1>12
  <2> QED BY <1>2, <1>12, <2>2, <2>3, <2>4, <2>5, <2>6, <2>7, <2>8 DEF Sound
<1> HIDE DEF u, a
<1>13. /\ Sends(x, p) \subseteq Edges \ Follows
       /\ \A e \in Sends(x, p) : e[1] = a
  <2>1. Sends(x, p) \subseteq (Agents \X Items) \ Follows
      BY <1>3, <1>4, SendsFacts
  <2>2. \A e \in Sends(x, p) : e[1] = Author[x]
      BY <1>3, <1>4, SendsFacts
  <2> QED BY <2>1, <2>2 DEF Edges, a
<1>14. [e \in Edges |-> IF e \in {} THEN 0 ELSE graph[e]] = graph
    BY DEF TxInv, TypeOK
<1>15. b[Author[x]] # 0 /\ \A c \in Agents \ {Author[x]} : b[c] = tx[r].bumps[c]
    BY <1>6 DEF a, u
<1> HIDE DEF seen, P
<1>16. CASE /\ x \notin seen
            /\ tx' = [tx EXCEPT ![r] =
                 [[n EXCEPT !.adds = @ \cup {x}] EXCEPT !.sent = @ \cup Sends(x, p)]]
            /\ graph' = [e \in Edges |->
                 IF e \in Sends(x, p) THEN Weight(e[1], e[2], seen \cup {x}, P)
                 ELSE graph[e]]
            /\ torn' = torn \ Sends(x, p) /\ Touch(Sends(x, p))
  <2> DEFINE t == [[n EXCEPT !.adds = @ \cup {x}]
                      EXCEPT !.sent = @ \cup Sends(x, p)]
  <2>1. /\ t \in Tx /\ t.op = "batch" /\ t.at = g /\ t.todo = n.todo
        /\ t.pair = n.pair /\ t.parents = n.parents /\ t.bumps = b
        /\ t.ticker = 0 /\ ~t.drops
        /\ t.adds = u.adds \cup {x} /\ t.links = u.links
        /\ t.sent = u.sent \cup Sends(x, p)
      BY <1>3, <1>9, <1>13 DEF Tx
  <2>2. tx' = [tx EXCEPT ![r] = t]
      BY <1>16
  <2> HIDE DEF t
  <2>3. Sound(t)
      BY <1>12, <1>13, <2>1
  <2>4. seen \cup {x} = rows \cup t.adds
      BY <2>1 DEF seen
  <2>5. P = NewParent(t, parent)
      BY <1>9, <2>1 DEF P, NewParent
  <2>6. graph' = [e \in Edges |->
                   IF e \in Sends(x, p)
                   THEN Weight(e[1], e[2], rows \cup t.adds, NewParent(t, parent))
                   ELSE graph[e]]
      BY <1>16, <2>4, <2>5
  <2>7. x \notin rows \cup tx[r].adds
      BY <1>16 DEF seen, u
  <2>8. t.pair = tx[r].pair /\ t.parents = tx[r].parents
        /\ t.adds = tx[r].adds \cup {x} /\ t.links = tx[r].links
        /\ t.sent = tx[r].sent \cup Sends(x, p)
      BY <1>9, <2>1 DEF u
  <2>9. /\ x \in Items /\ Author[x] \in Agents /\ ~VsidLocked(r, Author[x])
        /\ tx[r].ticker = 0 /\ ~tx[r].drops
      BY <1>1, <1>3, <1>5 DEF u, a
  <2>10. torn' = torn \ Sends(x, p) /\ Touch(Sends(x, p))
         /\ UNCHANGED <<tables, begun, load>>
      BY <1>7, <1>16
  <2> HIDE DEF b, n, seen, P
  <2>11. UpsertStep(r, x, p, t, Sends(x, p))
      BY <1>15, <2>1, <2>2, <2>3, <2>6, <2>7, <2>8, <2>10 DEF UpsertStep
  <2> QED BY <1>4, <2>9, <2>10, <2>11
<1>17. CASE /\ x \in seen /\ p # None /\ x \notin u.adds /\ parent[x] # p
            /\ tx' = [tx EXCEPT ![r] =
                 [[n EXCEPT !.links = @ \cup {x}] EXCEPT !.sent = @ \cup {}]]
            /\ graph' = [e \in Edges |-> IF e \in {} THEN 0 ELSE graph[e]]
            /\ torn' = torn \ {} /\ Touch({})
  <2> DEFINE t == [[n EXCEPT !.links = @ \cup {x}] EXCEPT !.sent = @ \cup {}]
  <2>0. x \in Comments
      BY <1>17 DEF ParentIn
  <2>1. /\ t \in Tx /\ t.op = "batch" /\ t.at = g /\ t.todo = n.todo
        /\ t.pair = n.pair /\ t.parents = n.parents /\ t.bumps = b
        /\ t.ticker = 0 /\ ~t.drops
        /\ t.adds = u.adds /\ t.links = u.links \cup {x}
        /\ t.sent = u.sent \cup {}
      BY <1>9, <2>0 DEF Tx
  <2>2. tx' = [tx EXCEPT ![r] = t]
      BY <1>17
  <2> HIDE DEF t
  <2>3. Sound(t)
      BY <1>12, <1>17, <2>0, <2>1
  <2>4. graph' = graph
      BY <1>14, <1>17
  <2>5. t.pair = tx[r].pair /\ t.parents = tx[r].parents
        /\ t.adds = tx[r].adds /\ t.links = tx[r].links \cup {x}
        /\ t.sent = tx[r].sent \cup {}
      BY <1>9, <2>1 DEF u
  <2>6. /\ x \in Items /\ Author[x] \in Agents /\ ~VsidLocked(r, Author[x])
        /\ tx[r].ticker = 0 /\ ~tx[r].drops
      BY <1>1, <1>3, <1>5 DEF u, a
  <2>7. p # None /\ parent[x] # p /\ torn' = torn \ {} /\ Touch({})
        /\ UNCHANGED <<tables, begun, load>>
      BY <1>7, <1>17
  <2>8. UpsertStep(r, x, p, t, {})
      BY <1>15, <2>0, <2>1, <2>2, <2>3, <2>4, <2>5, <2>7 DEF UpsertStep
  <2> QED BY <1>4, <2>6, <2>7, <2>8
<1>18. CASE /\ tx' = [tx EXCEPT ![r] = [n EXCEPT !.sent = @ \cup {}]]
            /\ graph' = [e \in Edges |-> IF e \in {} THEN 0 ELSE graph[e]]
            /\ torn' = torn \ {} /\ Touch({})
  <2> DEFINE t == [n EXCEPT !.sent = @ \cup {}]
  <2>1. /\ t \in Tx /\ t.op = "batch" /\ t.at = g /\ t.todo = n.todo
        /\ t.pair = n.pair /\ t.parents = n.parents /\ t.bumps = b
        /\ t.ticker = 0 /\ ~t.drops
        /\ t.adds = u.adds /\ t.links = u.links
        /\ t.sent = u.sent \cup {}
      BY <1>9 DEF Tx
  <2>2. tx' = [tx EXCEPT ![r] = t]
      BY <1>18
  <2> HIDE DEF t
  <2>3. Sound(t)
    <3>1. {} \in SUBSET (Edges \ Follows) /\ \A e \in {} : e[1] = a
        OBVIOUS
    <3> QED BY <1>12, <2>1, <3>1
  <2>4. graph' = graph
      BY <1>14, <1>18
  <2>5. t.pair = tx[r].pair /\ t.parents = tx[r].parents
        /\ t.adds = tx[r].adds /\ t.links = tx[r].links
        /\ t.sent = tx[r].sent \cup {}
      BY <1>9, <2>1 DEF u
  <2>6. /\ x \in Items /\ Author[x] \in Agents /\ ~VsidLocked(r, Author[x])
        /\ tx[r].ticker = 0 /\ ~tx[r].drops
      BY <1>1, <1>3, <1>5 DEF u, a
  <2>7. torn' = torn \ {} /\ Touch({}) /\ UNCHANGED <<tables, begun, load>>
      BY <1>7, <1>18
  <2>8. UpsertStep(r, x, p, t, {})
      BY <1>15, <2>1, <2>2, <2>3, <2>4, <2>5, <2>7 DEF UpsertStep
  <2> QED BY <1>4, <2>6, <2>7, <2>8
<1> QED BY <1>7, <1>16, <1>17, <1>18

-----------------------------------------------------------------------------
(* Type correctness.                                                         *)

LEMMA TxUpdate ==
    ASSUME TxInv, NEW r \in Sessions, NEW t, Sound(t), tx' = [tx EXCEPT ![r] = t]
    PROVE  /\ tx' \in [Sessions -> Tx]
           /\ \A s \in Sessions : Sound(tx'[s])
           /\ tx'[r] = t /\ \A s \in Sessions \ {r} : tx'[s] = tx[s]
<1>1. t \in Tx
    BY DEF Sound
<1> QED BY <1>1 DEF TxInv, TypeOK

\* What TxInv asks of the other variables.
RestTyped == /\ follow \in [Follows -> Nat]
             /\ rows \subseteq Items
             /\ parent \in [Comments -> Comments \cup {None}]
             /\ vsid \in [Agents -> Nat]
             /\ graph \in [Edges -> Nat]
             /\ begun \in 0 .. MaxTx
             /\ init \in {"start", "read", "reset", "loaded", "aborted", "done",
                          "failed"}
             /\ attempt \in 0 .. MaxRetries - 1
             /\ snapshot \in [Edges -> Nat]
             /\ since \subseteq Edges /\ torn \subseteq Edges

LEMMA TxInvParts ==
    TxInv <=> RestTyped /\ tx \in [Sessions -> Tx] /\ \A r \in Sessions : Sound(tx[r])
BY DEF TxInv, TypeOK, RestTyped, Sound

LEMMA TxInvNext ==
    ASSUME RestTyped', tx' \in [Sessions -> Tx], \A r \in Sessions : Sound(tx'[r])
    PROVE  TxInv'
BY DEF TxInv, TypeOK, RestTyped, Sound

LEMMA TypeInit == Init => TxInv
<1> SUFFICES ASSUME Init
             PROVE  RestTyped /\ tx \in [Sessions -> Tx] /\ \A r \in Sessions : Sound(tx[r])
    BY TxInvParts
<1>1. RestTyped
    BY BoundsAssumption DEF Init, RestTyped, Orphans, NoEdges
<1>2. NoTx \in Tx
    BY NoTxSound DEF Sound
<1> QED BY <1>1, <1>2, NoTxSound DEF Init

LEMMA TouchType ==
    ASSUME TxInv, NEW E \in SUBSET Edges, Touch(E)
    PROVE  since' \subseteq Edges
BY DEF Touch, TxInv, TypeOK

LEMMA LinkedFacts ==
    ASSUME TxInv, NEW r \in Sessions
    PROVE  /\ Linked(r) \subseteq Edges
           /\ \A c \in tx[r].links : /\ c \in Comments
                                     /\ tx[r].parents[c] \in Comments
                                     /\ tx[r].parents[c] = ReplyTo[c]
                                     /\ <<Author[c], tx[r].parents[c]>> \in Linked(r)
<1>1. Linked(r) \subseteq Edges
    BY DEF Linked
<1>2. Sound(tx[r]) /\ tx[r] \in Tx
    BY DEF TxInv, Sound
<1> SUFFICES ASSUME NEW c \in tx[r].links
             PROVE  /\ c \in Comments
                    /\ tx[r].parents[c] \in Comments
                    /\ tx[r].parents[c] = ReplyTo[c]
                    /\ <<Author[c], tx[r].parents[c]>> \in Linked(r)
    BY <1>1
<1>3. c \in Comments
    BY <1>2 DEF Tx
<1>4. /\ tx[r].parents[c] # None /\ tx[r].parents[c] \in {None, ReplyTo[c]}
    BY <1>2, <1>3 DEF Sound
<1>5. tx[r].parents[c] \in Comments
    BY <1>3, <1>4, ItemsAssumption
<1>6. Author[c] \in Agents /\ tx[r].parents[c] \in Items
    BY <1>3, <1>5, ItemsAssumption DEF Items
<1>7. <<Author[c], tx[r].parents[c]>> \in Edges
    BY <1>6 DEF Edges
<1> QED BY <1>3, <1>4, <1>5, <1>7 DEF Linked

LEMMA CommitFacts ==
    ASSUME TxInv, NEW r \in Sessions, Commit(r)
    PROVE  /\ tx' = [tx EXCEPT ![r] = NoTx]
           /\ follow' \in [Follows -> Nat] /\ rows' \subseteq Items
           /\ parent' = NewParent(tx[r], parent)
           /\ parent' \in [Comments -> Comments \cup {None}]
           /\ vsid' \in [Agents -> Nat]
           /\ torn' = torn \cup Linked(r) /\ Touch(Linked(r))
           /\ UNCHANGED <<graph, begun, load>>
<1>1. Sound(tx[r]) /\ tx[r] \in Tx
    BY DEF TxInv, Sound
<1>2. /\ tx[r].ticker \in Nat /\ tx[r].adds \subseteq Items
      /\ tx[r].parents \in [Comments -> Comments \cup {None}]
      /\ tx[r].bumps \in [Agents -> Nat]
    BY <1>1 DEF Tx
<1>3. \A a \in Agents : vsid[a] \in Nat /\ tx[r].bumps[a] \in Nat
                        => vsid[a] + tx[r].bumps[a] \in Nat
    OBVIOUS
<1>4. vsid' \in [Agents -> Nat]
    BY <1>2, <1>3 DEF Commit, TxInv, TypeOK
<1>5. follow' \in [Follows -> Nat]
    BY <1>2 DEF Commit, TxInv, TypeOK
<1>6. rows' \subseteq Items
    BY <1>2 DEF Commit, TxInv, TypeOK
<1>7. parent' = NewParent(tx[r], parent)
    BY DEF Commit, NewParent
<1>8. parent' \in [Comments -> Comments \cup {None}]
    BY <1>2, <1>7 DEF NewParent, TxInv, TypeOK
<1> QED BY <1>4, <1>5, <1>6, <1>7, <1>8 DEF Commit

LEMMA TypeSession ==
    ASSUME TxInv, NEW r \in Sessions,
           \/ BeginFollow(r) \/ BeginUnfollow(r) \/ BeginBatch(r) \/ Bump(r)
           \/ WriteFollow(r) \/ WriteUnfollow(r) \/ Upsert(r)
    PROVE  TxInv'
<1>0. RestTyped
    BY TxInvParts
<1>1. CASE BeginFollow(r) \/ BeginUnfollow(r) \/ BeginBatch(r) \/ Bump(r)
  <2>1. PICK t : tx' = [tx EXCEPT ![r] = t] /\ Sound(t)
      BY <1>1, BeginFacts, BumpFacts
  <2>2. /\ begun' \in 0 .. MaxTx
        /\ UNCHANGED <<tables, graph, load, since, torn>>
      BY <1>1, BeginFacts, BumpFacts DEF TxInv, TypeOK
  <2>3. RestTyped'
      BY <1>0, <2>2 DEF RestTyped, tables, load
  <2> QED BY <2>1, <2>3, TxUpdate, TxInvNext
<1>2. CASE WriteFollow(r)
  <2> DEFINE e == tx[r].pair
  <2>1. PICK t : /\ tx' = [tx EXCEPT ![r] = t] /\ Sound(t)
                 /\ graph' = [graph EXCEPT ![e] = t.ticker]
      BY <1>2, WriteFollowFacts
  <2>2. /\ e \in Follows /\ torn' = torn \ {e} /\ Touch({e})
        /\ UNCHANGED <<tables, begun, load>>
      BY <1>2, WriteFollowFacts
  <2>3. graph' \in [Edges -> Nat]
    <3>1. t.ticker \in Nat
        BY <2>1 DEF Sound, Tx
    <3> QED BY <1>0, <2>1, <3>1 DEF RestTyped
  <2>4. since' \subseteq Edges
      BY <2>2, TouchType DEF Edges
  <2>5. RestTyped'
      BY <1>0, <2>2, <2>3, <2>4 DEF RestTyped, tables, load
  <2> QED BY <2>1, <2>5, TxUpdate, TxInvNext
<1>3. CASE WriteUnfollow(r)
  <2> DEFINE e == tx[r].pair
  <2>1. PICK t, E : /\ E = IF follow[e] # 0 THEN {e} ELSE {}
                    /\ tx' = [tx EXCEPT ![r] = t] /\ Sound(t)
                    /\ graph' = [f \in Edges |-> IF f \in E THEN 0 ELSE graph[f]]
                    /\ torn' = torn \ E /\ Touch(E)
      BY <1>3, WriteUnfollowFacts
  <2>2. e \in Follows /\ UNCHANGED <<tables, begun, load>>
      BY <1>3, WriteUnfollowFacts
  <2>3. E \subseteq Edges
      BY <2>1, <2>2 DEF Edges
  <2>4. since' \subseteq Edges
      BY <2>1, <2>3, TouchType
  <2>5. RestTyped'
      BY <1>0, <2>1, <2>2, <2>4 DEF RestTyped, tables, load
  <2> QED BY <2>1, <2>5, TxUpdate, TxInvNext
<1>4. CASE Upsert(r)
  <2> DEFINE x == Head(tx[r].todo)
             p == ParentIn(tx[r], x)
  <2>1. PICK t, E : UpsertStep(r, x, p, t, E)
      BY <1>4, UpsertFacts
  <2>2. /\ x \in Items /\ p \in Comments \cup {None}
        /\ UNCHANGED <<tables, begun, load>>
      BY <1>4, UpsertFacts
  <2> HIDE DEF x, p
  <2>3. /\ tx' = [tx EXCEPT ![r] = t] /\ Sound(t)
        /\ torn' = torn \ E /\ Touch(E)
      BY <2>1 DEF UpsertStep
  <2>4. E \subseteq Edges /\ graph' \in [Edges -> Nat]
    <3>1. CASE E = Sends(x, p) /\
               graph' = [e \in Edges |->
                   IF e \in E THEN Weight(e[1], e[2], rows \cup t.adds,
                                          NewParent(t, parent))
                   ELSE graph[e]]
        BY <1>0, <2>2, <3>1, SendsFacts, WeightType DEF RestTyped
    <3>2. CASE E = {} /\ graph' = graph
        BY <1>0, <3>2 DEF RestTyped
    <3> QED BY <2>1, <3>1, <3>2 DEF UpsertStep
  <2>5. since' \subseteq Edges
      BY <2>3, <2>4, TouchType
  <2>6. RestTyped'
      BY <1>0, <2>2, <2>3, <2>4, <2>5 DEF RestTyped, tables, load
  <2> QED BY <2>3, <2>6, TxUpdate, TxInvNext
<1> QED BY <1>1, <1>2, <1>3, <1>4

LEMMA TypeEnd ==
    ASSUME TxInv, NEW r \in Sessions,
           Commit(r) \/ DeadlockAbort(r) \/ Fail(r)
    PROVE  TxInv'
<1>0. RestTyped
    BY TxInvParts
<1>1. tx' = [tx EXCEPT ![r] = NoTx]
    BY DEF Commit, DeadlockAbort, Fail, Rollback
<1>2. CASE Commit(r)
  <2>1. since' \subseteq Edges
      BY <1>2, CommitFacts, LinkedFacts, TouchType
  <2>2. RestTyped'
      BY <1>0, <1>2, <2>1, CommitFacts, LinkedFacts DEF RestTyped, load
  <2> QED BY <1>1, <2>2, NoTxSound, TxUpdate, TxInvNext
<1>3. CASE DeadlockAbort(r) \/ Fail(r)
  <2>1. tx[r].sent \subseteq Edges
      BY DEF TxInv, TypeOK, Tx
  <2>2. RestTyped'
      BY <1>0, <1>3, <2>1 DEF DeadlockAbort, Fail, Rollback, RestTyped, tables, load
  <2> QED BY <1>1, <2>2, NoTxSound, TxUpdate, TxInvNext
<1> QED BY <1>2, <1>3

LEMMA SentTyped ==
    ASSUME TxInv, NEW r \in Sessions
    PROVE  tx[r].sent \subseteq Edges /\ tx[r].sent \cup Linked(r) \subseteq Edges
BY LinkedFacts DEF TxInv, TypeOK, Tx

LEMMA TypeLoad ==
    ASSUME TxInv,
           \/ InitRead \/ InitReset \/ InitLoad \/ InitSynced \/ InitTryAgain
           \/ InitRetry \/ Restart
    PROVE  TxInv'
<1>0. RestTyped
    BY TxInvParts
<1>1. \A e \in Edges : Image(e) \in Nat
    BY <1>0, WeightType DEF Image, RestTyped
<1>2. NoEdges \in [Edges -> Nat]
    BY DEF NoEdges
<1>3. CASE Restart
  <2>1. tx' \in [Sessions -> Tx] /\ \A r \in Sessions : Sound(tx'[r])
    <3>1. \A r \in Sessions : tx'[r] = NoTx \/ tx'[r] = tx[r]
        BY <1>3 DEF Restart
    <3>2. NoTx \in Tx
        BY NoTxSound DEF Sound
    <3> QED BY <1>3, <3>1, <3>2, NoTxSound DEF Restart, TxInv, TypeOK
  <2>2. torn' \subseteq Edges
      BY <1>0, <1>3, SentTyped DEF Restart, RestTyped
  <2>3. RestTyped'
      BY <1>0, <1>2, <1>3, <2>2, BoundsAssumption DEF Restart, RestTyped, tables
  <2> QED BY <2>1, <2>3, TxInvNext
<1>4. CASE ~Restart
  <2>1. tx' = tx /\ UNCHANGED <<tables, begun>>
      BY <1>4 DEF InitRead, InitReset, InitLoad, InitSynced, InitTryAgain, InitRetry
  <2>2. graph' \in [Edges -> Nat] /\ torn' \subseteq Edges
      BY <1>0, <1>2, <1>4
      DEF InitRead, InitReset, InitLoad, InitSynced, InitTryAgain, InitRetry,
          RestTyped
  <2>3. snapshot' \in [Edges -> Nat] /\ since' \subseteq Edges
      BY <1>0, <1>1, <1>2, <1>4, SentTyped
      DEF InitRead, InitReset, InitLoad, InitSynced, InitTryAgain, InitRetry,
          RestTyped
  <2>4. /\ attempt' \in 0 .. MaxRetries - 1
        /\ init' \in {"start", "read", "reset", "loaded", "aborted", "done", "failed"}
      BY <1>0, <1>4, BoundsAssumption
      DEF InitRead, InitReset, InitLoad, InitSynced, InitTryAgain, InitRetry,
          RestTyped
  <2>5. RestTyped'
      BY <1>0, <2>1, <2>2, <2>3, <2>4 DEF RestTyped, tables
  <2> QED BY <1>0, <2>1, <2>5, TxInvParts, TxInvNext
<1> QED BY <1>3, <1>4

LEMMA TypeStep == TxInv /\ [Next]_vars => TxInv'
<1> SUFFICES ASSUME TxInv, [Next]_vars
             PROVE  TxInv'
    OBVIOUS
<1>1. CASE UNCHANGED vars
    BY <1>1 DEF vars, TxInv, TypeOK
<1> QED BY <1>1, TypeSession, TypeEnd, TypeLoad DEF Next

\* Every reachable state has its type (TypeOK): in particular a batch is never
\* asked for a row after its last one (handlers/comments.py:130-131), and the
\* bulk load never makes more attempts than it may (database.py:237-262).
THEOREM TypeCorrect == Spec => []TypeOK
<1>1. TxInv => TypeOK
    BY DEF TxInv
<1> QED BY <1>1, TypeInit, TypeStep, PTL DEF Spec

-----------------------------------------------------------------------------
(* The locks.  The row of user_vsids makes the transactions that write rows   *)
(* or follows of one user come one after the other (Alone); an unfollow takes *)
(* no such lock, but that of the row it deletes (AloneOnRow), which is there  *)
(* as long as it holds it.                                                    *)

Wrote(t) == t.ticker # 0 \/ t.drops

Alone == \A r, s \in Sessions : r # s =>
           \A a \in Agents : tx[r].bumps[a] = 0 \/ tx[s].bumps[a] = 0

AloneOnRow == \A r, s \in Sessions : r # s =>
                ~(tx[r].pair = tx[s].pair /\ Wrote(tx[r]) /\ Wrote(tx[s]))

DropsRow == \A r \in Sessions : tx[r].drops => follow[tx[r].pair] # 0

\* The tickers: no follow has a newer one than its subject's counter, and a
\* follow in progress has the one that its commit will leave there.
Clock == /\ \A f \in Follows : follow[f] <= vsid[f[1]]
         /\ \A r \in Sessions : tx[r].ticker # 0 =>
              tx[r].ticker = vsid[tx[r].pair[1]] + tx[r].bumps[tx[r].pair[1]]

LockInv == TxInv /\ Alone /\ AloneOnRow /\ DropsRow /\ Clock

\* What transaction r has to see to become t.
Admits(r, t) ==
    /\ tx' = [tx EXCEPT ![r] = t]
    /\ Sound(t)
    /\ \A s \in Sessions \ {r} : \A a \in Agents :
         t.bumps[a] = 0 \/ tx[s].bumps[a] = 0
    /\ \A s \in Sessions \ {r} : ~(t.pair = tx[s].pair /\ Wrote(t) /\ Wrote(tx[s]))
    /\ t.drops => follow[t.pair] # 0
    /\ t.ticker # 0 => t.ticker = vsid[t.pair[1]] + t.bumps[t.pair[1]]

LEMMA AdmitsLocks ==
    ASSUME LockInv, NEW r \in Sessions, NEW t, Admits(r, t),
           follow' = follow, vsid' = vsid
    PROVE  Alone' /\ AloneOnRow' /\ DropsRow' /\ Clock'
<1>1. tx'[r] = t /\ \A s \in Sessions \ {r} : tx'[s] = tx[s]
    BY TxUpdate DEF LockInv, Admits
<1>2. Alone'
    BY <1>1 DEF LockInv, Alone, Admits
<1>3. AloneOnRow'
    BY <1>1 DEF LockInv, AloneOnRow, Admits
<1>4. DropsRow'
    BY <1>1 DEF LockInv, DropsRow, Admits
<1>5. Clock'
    BY <1>1 DEF LockInv, Clock, Admits
<1> QED BY <1>2, <1>3, <1>4, <1>5

LEMMA Unlocked ==
    ASSUME TxInv, NEW r \in Sessions, NEW a \in Agents, ~VsidLocked(r, a)
    PROVE  \A s \in Sessions \ {r} : tx[s].bumps[a] = 0
<1> SUFFICES ASSUME NEW s \in Sessions \ {r}
             PROVE  tx[s].bumps[a] = 0
    OBVIOUS
<1>1. tx[s].bumps[a] \in Nat
    BY DEF TxInv, TypeOK, Tx
<1>2. ~(tx[s].bumps[a] > 0)
    BY DEF VsidLocked
<1> QED BY <1>1, <1>2

LEMMA SessionAdmits ==
    ASSUME LockInv, NEW r \in Sessions,
           \/ BeginFollow(r) \/ BeginUnfollow(r) \/ BeginBatch(r) \/ Bump(r)
           \/ WriteFollow(r) \/ WriteUnfollow(r) \/ Upsert(r)
    PROVE  (\E t : Admits(r, t)) /\ UNCHANGED tables
<1>0. TxInv
    BY DEF LockInv
<1>1. CASE BeginFollow(r) \/ BeginUnfollow(r) \/ BeginBatch(r)
  <2>1. PICK t : /\ tx' = [tx EXCEPT ![r] = t] /\ Sound(t)
                 /\ t.ticker = 0 /\ ~t.drops
                 /\ \A a \in Agents : t.bumps[a] = 0
      BY <1>0, <1>1, BeginFacts
  <2>2. Admits(r, t)
      BY <2>1 DEF Admits, Wrote
  <2> QED BY <1>0, <1>1, <2>2, BeginFacts
<1>2. CASE Bump(r)
  <2> DEFINE b == tx[r].pair[1]
  <2>1. PICK t : /\ tx' = [tx EXCEPT ![r] = t] /\ Sound(t)
                 /\ t.ticker = 0 /\ ~t.drops
                 /\ \A a \in Agents \ {b} : t.bumps[a] = tx[r].bumps[a]
      BY <1>0, <1>2, BumpFacts
  <2>2. \A s \in Sessions \ {r} : tx[s].bumps[b] = 0
      BY <1>0, <1>2, BumpFacts, Unlocked
  <2>3. \A s \in Sessions \ {r} : \A a \in Agents :
           t.bumps[a] = 0 \/ tx[s].bumps[a] = 0
      BY <2>1, <2>2 DEF LockInv, Alone
  <2>4. Admits(r, t)
      BY <2>1, <2>3 DEF Admits, Wrote
  <2> QED BY <1>0, <1>2, <2>4, BumpFacts
<1>3. CASE WriteFollow(r)
  <2> DEFINE e == tx[r].pair
  <2>1. /\ e \in Follows /\ ~RowLocked(r, e) /\ tx[r].bumps[e[1]] # 0
        /\ UNCHANGED tables
      BY <1>0, <1>3, WriteFollowFacts
  <2>0. e \in {tx[r].pair}
      OBVIOUS
  <2> HIDE DEF e
  <2>2. PICK t : /\ tx' = [tx EXCEPT ![r] = t]
                 /\ Sound(t)
                 /\ t.pair = e /\ ~t.drops
                 /\ t.adds = tx[r].adds /\ t.links = tx[r].links
                 /\ t.parents = tx[r].parents /\ t.sent = tx[r].sent \cup {e}
                 /\ t.ticker = vsid[e[1]] + t.bumps[e[1]]
                 /\ \A a \in Agents \ {e[1]} : t.bumps[a] = tx[r].bumps[a]
                 /\ graph' = [graph EXCEPT ![e] = t.ticker]
      BY <1>0, <1>3, <2>0, WriteFollowFacts
  <2>3. \A s \in Sessions \ {r} : tx[s].bumps[e[1]] = 0
    <3>1. e[1] \in Agents /\ tx[r].bumps[e[1]] # 0
        BY <2>1, EdgeKinds
    <3> HIDE DEF e
    <3> QED BY <3>1 DEF LockInv, Alone
  <2>4. \A s \in Sessions \ {r} : \A a \in Agents :
           t.bumps[a] = 0 \/ tx[s].bumps[a] = 0
      BY <2>2, <2>3 DEF LockInv, Alone
  <2>5. ASSUME NEW s \in Sessions \ {r}, e = tx[s].pair
        PROVE  ~Wrote(tx[s])
    <3>1. Sound(tx[s])
        BY <1>0 DEF TxInv
    <3>2. tx[s].ticker = 0
        BY <2>3, <2>5, <3>1 DEF Sound
    <3>3. ~tx[s].drops
        BY <2>1, <2>5 DEF RowLocked, LockInv, DropsRow
    <3> QED BY <3>2, <3>3 DEF Wrote
  <2>6. Admits(r, t)
      BY <2>2, <2>4, <2>5 DEF Admits
  <2> QED BY <2>1, <2>6
<1>4. CASE WriteUnfollow(r)
  <2> DEFINE e == tx[r].pair
  <2>1. e \in Follows /\ ~RowLocked(r, e) /\ UNCHANGED tables
      BY <1>0, <1>4, WriteUnfollowFacts
  <2>2. PICK t : /\ tx' = [tx EXCEPT ![r] = t] /\ Sound(t)
                 /\ t.pair = e /\ (t.drops <=> follow[e] # 0) /\ t.ticker = 0
                 /\ t.bumps = tx[r].bumps
      BY <1>0, <1>4, WriteUnfollowFacts
  <2>3. \A s \in Sessions \ {r} : \A a \in Agents :
           t.bumps[a] = 0 \/ tx[s].bumps[a] = 0
      BY <2>2 DEF LockInv, Alone
  <2>4. ASSUME NEW s \in Sessions \ {r}, t.pair = tx[s].pair, Wrote(t), Wrote(tx[s])
        PROVE  FALSE
    <3>1. follow[e] # 0
        BY <2>2, <2>4 DEF Wrote
    <3>2. tx[s].pair = e /\ (tx[s].ticker # 0 \/ tx[s].drops)
        BY <2>2, <2>4 DEF Wrote
    <3>3. RowLocked(r, e)
        BY <3>1, <3>2 DEF RowLocked
    <3> QED BY <2>1, <3>3
  <2>5. Admits(r, t)
      BY <2>2, <2>3, <2>4 DEF Admits
  <2> QED BY <2>1, <2>5
<1>5. CASE Upsert(r)
  <2> DEFINE x == Head(tx[r].todo)
             p == ParentIn(tx[r], x)
  <2>1. PICK t, E : UpsertStep(r, x, p, t, E)
      BY <1>0, <1>5, UpsertFacts
  <2>2. Author[x] \in Agents /\ ~VsidLocked(r, Author[x]) /\ UNCHANGED tables
      BY <1>0, <1>5, UpsertFacts
  <2> HIDE DEF x, p
  <2>3. /\ tx' = [tx EXCEPT ![r] = t] /\ Sound(t) /\ ~t.drops /\ t.ticker = 0
        /\ \A a \in Agents \ {Author[x]} : t.bumps[a] = tx[r].bumps[a]
      BY <2>1 DEF UpsertStep
  <2>4. \A s \in Sessions \ {r} : tx[s].bumps[Author[x]] = 0
      BY <1>0, <2>2, Unlocked
  <2>5. \A s \in Sessions \ {r} : \A a \in Agents :
           t.bumps[a] = 0 \/ tx[s].bumps[a] = 0
      BY <2>3, <2>4 DEF LockInv, Alone
  <2>6. Admits(r, t)
      BY <2>3, <2>5 DEF Admits, Wrote
  <2> QED BY <2>2, <2>6
<1> QED BY <1>1, <1>2, <1>3, <1>4, <1>5

\* What a commit of r leaves to the others.
LEMMA CommitLocks ==
    ASSUME LockInv, NEW r \in Sessions, Commit(r)
    PROVE  /\ \A f \in Follows : follow'[f] =
                 IF f = tx[r].pair /\ tx[r].drops THEN 0
                 ELSE IF f = tx[r].pair /\ tx[r].ticker # 0 THEN tx[r].ticker
                 ELSE follow[f]
           /\ \A a \in Agents : vsid'[a] = vsid[a] + tx[r].bumps[a]
           /\ tx'[r] = NoTx /\ \A s \in Sessions \ {r} : tx'[s] = tx[s]
           /\ Alone' /\ AloneOnRow' /\ DropsRow' /\ Clock'
<1>0. TxInv
    BY DEF LockInv
<1> DEFINE u == tx[r]
<1>1. Sound(u) /\ u \in Tx
    BY <1>0 DEF TxInv, Sound
<1>2. \A f \in Follows : follow'[f] = IF f = u.pair /\ u.drops THEN 0
                                      ELSE IF f = u.pair /\ u.ticker # 0
                                      THEN u.ticker ELSE follow[f]
    BY DEF Commit
<1>3. \A a \in Agents : vsid'[a] = vsid[a] + u.bumps[a]
    BY DEF Commit
<1>4. tx'[r] = NoTx /\ \A s \in Sessions \ {r} : tx'[s] = tx[s]
    BY <1>0, TxUpdate, NoTxSound DEF Commit
<1>5. \A a \in Agents : vsid[a] \in Nat /\ u.bumps[a] \in Nat
    BY <1>0, <1>1 DEF TxInv, TypeOK, Tx
<1>6. Alone'
    BY <1>4, NoTxFields DEF LockInv, Alone
<1>7. AloneOnRow'
    BY <1>4, NoTxFields DEF LockInv, AloneOnRow, Wrote
<1>8. DropsRow'
  <2> SUFFICES ASSUME NEW s \in Sessions, tx'[s].drops
               PROVE  follow'[tx'[s].pair] # 0
      BY DEF DropsRow
  <2>1. s # r /\ tx'[s] = tx[s]
      BY <1>4, NoTxFields
  <2>2. Sound(tx[s]) /\ tx[s].drops /\ tx[s].pair \in Follows
      BY <1>0, <2>1 DEF TxInv, Sound
  <2>3. ~(tx[s].pair = u.pair /\ Wrote(u))
      BY <2>1, <2>2 DEF LockInv, AloneOnRow, Wrote
  <2> QED BY <1>2, <2>1, <2>2, <2>3 DEF LockInv, DropsRow, Wrote
<1>9. Clock'
  <2>1. ASSUME NEW f \in Follows
        PROVE  follow'[f] <= vsid'[f[1]]
    <3>0. f[1] \in Agents /\ vsid'[f[1]] = vsid[f[1]] + u.bumps[f[1]]
        BY <1>3, EdgeKinds
    <3>1. /\ f[1] \in Agents /\ follow[f] \in Nat /\ vsid'[f[1]] \in Nat
          /\ follow[f] <= vsid[f[1]]
      <4>1. follow[f] \in Nat
          BY <1>0 DEF TxInv, TypeOK
      <4>2. follow[f] <= vsid[f[1]]
          BY DEF LockInv, Clock
      <4> HIDE DEF u
      <4> QED BY <1>5, <3>0, <4>1, <4>2
    <3>2. follow[f] <= vsid'[f[1]]
        BY <1>3, <1>5, <3>1
    <3>3. f = u.pair /\ u.ticker # 0 => u.ticker = vsid'[f[1]]
        BY <1>3, <3>1 DEF LockInv, Clock
    <3>4. follow'[f] \in {0, follow[f]} \/ (f = u.pair /\ u.ticker # 0
                                             /\ follow'[f] = u.ticker)
        BY <1>2
    <3>5. 0 <= vsid'[f[1]] /\ vsid'[f[1]] <= vsid'[f[1]]
        BY <3>1
    <3> QED BY <3>2, <3>3, <3>4, <3>5
  <2>2. ASSUME NEW s \in Sessions, tx'[s].ticker # 0
        PROVE  tx'[s].ticker
                 = vsid'[tx'[s].pair[1]] + tx'[s].bumps[tx'[s].pair[1]]
    <3>1. s # r /\ tx'[s] = tx[s]
        BY <1>4, <2>2, NoTxFields
    <3> DEFINE b == tx[s].pair[1]
    <3>2. Sound(tx[s]) /\ tx[s].ticker # 0 /\ tx[s].op = "follow" /\ tx[s].at = "commit"
        BY <1>0, <2>2, <3>1 DEF TxInv, Sound
    <3>3. tx[s].bumps[b] # 0 /\ b \in Agents
        BY <3>2, EdgeKinds DEF Sound
    <3>4. u.bumps[b] = 0
        BY <3>1, <3>3 DEF LockInv, Alone
    <3>5. vsid'[b] = vsid[b]
        BY <1>3, <1>5, <3>3, <3>4
    <3> QED BY <3>1, <3>2, <3>5 DEF LockInv, Clock
  <2> QED BY <2>1, <2>2 DEF Clock
<1> QED BY <1>2, <1>3, <1>4, <1>6, <1>7, <1>8, <1>9

\* A step that only takes transactions back, or none.
LEMMA FewerLocks ==
    ASSUME LockInv, \A r \in Sessions : tx'[r] = NoTx \/ tx'[r] = tx[r],
           follow' = follow, vsid' = vsid
    PROVE  Alone' /\ AloneOnRow' /\ DropsRow' /\ Clock'
<1>1. Alone'
    BY NoTxFields DEF LockInv, Alone
<1>2. AloneOnRow'
    BY NoTxFields DEF LockInv, AloneOnRow, Wrote
<1>3. DropsRow'
    BY NoTxFields DEF LockInv, DropsRow
<1>4. Clock'
    BY NoTxFields DEF LockInv, Clock
<1> QED BY <1>1, <1>2, <1>3, <1>4

LEMMA TakenBack ==
    ASSUME TxInv,
           \/ \E r \in Sessions : DeadlockAbort(r) \/ Fail(r)
           \/ InitRead \/ InitReset \/ InitLoad \/ InitSynced \/ InitTryAgain
           \/ InitRetry \/ Restart \/ UNCHANGED vars
    PROVE  UNCHANGED tables /\ \A r \in Sessions : tx'[r] = NoTx \/ tx'[r] = tx[r]
BY DEF TxInv, TypeOK, DeadlockAbort, Fail, Rollback, InitRead, InitReset, InitLoad,
       InitSynced, InitTryAgain, InitRetry, Restart, vars, tables

LEMMA LockInit == Init => LockInv
<1> SUFFICES ASSUME Init
             PROVE  LockInv
    OBVIOUS
<1>1. \A r \in Sessions : tx[r] = NoTx
    BY DEF Init
<1>2. \A f \in Follows : follow[f] = 0 /\ vsid[f[1]] = 0
    BY EdgeKinds DEF Init
<1> QED BY <1>1, <1>2, TypeInit, NoTxFields
        DEF LockInv, Alone, AloneOnRow, DropsRow, Clock, Wrote

LEMMA LockStep == LockInv /\ [Next]_vars => LockInv'
<1> SUFFICES ASSUME LockInv, [Next]_vars
             PROVE  LockInv'
    OBVIOUS
<1>1. TxInv /\ TxInv'
    BY TypeStep DEF LockInv
<1>2. ASSUME NEW r \in Sessions,
             \/ BeginFollow(r) \/ BeginUnfollow(r) \/ BeginBatch(r) \/ Bump(r)
             \/ WriteFollow(r) \/ WriteUnfollow(r) \/ Upsert(r)
      PROVE  LockInv'
    BY <1>1, <1>2, SessionAdmits, AdmitsLocks DEF LockInv, tables
<1>3. ASSUME NEW r \in Sessions, Commit(r)
      PROVE  LockInv'
    BY <1>1, <1>3, CommitLocks DEF LockInv
<1>4. CASE \/ \E r \in Sessions : DeadlockAbort(r) \/ Fail(r)
           \/ InitRead \/ InitReset \/ InitLoad \/ InitSynced \/ InitTryAgain
           \/ InitRetry \/ Restart \/ UNCHANGED vars
    BY <1>1, <1>4, TakenBack, FewerLocks DEF LockInv, tables
<1> QED BY <1>2, <1>3, <1>4 DEF Next

\* The follows of a subject are committed in the order of their tickers
\* (TickersGrow), however follows, unfollows and the crawler's batches of any
\* number of sessions interleave and fail (schema/ddl.py 34-41, 235-238).
THEOREM TickersInOrder == Spec => TickersGrow
<1> DEFINE Newer(e) == follow'[e] \notin {0, follow[e]}
                         => \A f \in Follows : f[1] = e[1] => follow[f] < follow'[e]
<1>1. ASSUME LockInv, [Next]_vars, NEW e \in Follows,
             follow'[e] \notin {0, follow[e]}
      PROVE  \A f \in Follows : f[1] = e[1] => follow[f] < follow'[e]
  <2>1. PICK r \in Sessions : Commit(r)
      BY <1>1, SessionAdmits, TakenBack DEF Next, LockInv, tables
  <2>2. e = tx[r].pair /\ tx[r].ticker # 0 /\ follow'[e] = tx[r].ticker
      BY <1>1, <2>1, CommitLocks
  <2>3. Sound(tx[r]) /\ tx[r] \in Tx
      BY <1>1 DEF LockInv, TxInv, Sound
  <2>4. e[1] \in Agents /\ tx[r].bumps[e[1]] # 0
      BY <1>1, <2>2, <2>3, EdgeKinds DEF Sound
  <2>5. tx[r].bumps[e[1]] \in Nat /\ vsid[e[1]] \in Nat
      BY <1>1, <2>3, <2>4 DEF Tx, LockInv, TxInv, TypeOK
  <2>6. tx[r].ticker = vsid[e[1]] + tx[r].bumps[e[1]]
      BY <1>1, <2>2 DEF LockInv, Clock
  <2>7. vsid[e[1]] < follow'[e]
      BY <2>2, <2>4, <2>5, <2>6
  <2>8. ASSUME NEW f \in Follows, f[1] = e[1]
        PROVE  follow[f] < follow'[e]
    <3>1. follow[f] \in Nat /\ follow[f] <= vsid[e[1]]
        BY <1>1, <2>8 DEF LockInv, TxInv, TypeOK, Clock
    <3> QED BY <2>2, <2>5, <2>6, <2>7, <3>1
  <2> QED BY <2>8
<1>2. LockInv /\ [Next]_vars => [\A e \in Follows : Newer(e)]_vars
    BY <1>1
<1> QED BY <1>2, LockInit, LockStep, PTL DEF TickersGrow, Spec

-----------------------------------------------------------------------------
(* The graph.  An edge is right when it is what the tables say, or what they  *)
(* will say when the transaction that sent it last commits.                   *)

\* The value of the edge e once t is committed to the tables F, R and P.
After(t, e, F, R, P) ==
    IF e \in Follows
    THEN IF e # t.pair THEN F[e]
         ELSE IF t.drops THEN 0
         ELSE IF t.ticker # 0 THEN t.ticker ELSE F[e]
    ELSE Weight(e[1], e[2], R \cup t.adds, NewParent(t, P))

LinkedIn(t) == {<<Author[c], t.parents[c]>> : c \in t.links} \cap Edges

ParentSound == \A c \in Comments : parent[c] \in {None, ReplyTo[c]}

AddsNew == \A r \in Sessions : tx[r].adds \cap rows = {}

SentRight == \A r \in Sessions : \A e \in tx[r].sent \ (torn \cup LinkedIn(tx[r])) :
               graph[e] = After(tx[r], e, follow, rows, parent)

\* What the bulk load has read is right except for the edges it must miss.
LoadRight ==
    /\ init \in {"read", "reset"} =>
         /\ \A e \in Edges \ since : snapshot[e] = Image(e)
         /\ \A r \in Sessions : tx[r].sent \subseteq since
    /\ init = "reset" => \A e \in Edges \ since : graph[e] = 0

GraphInv == /\ LockInv /\ ParentSound /\ AddsNew /\ SentRight /\ LoadRight
            /\ GraphTrue

\* Only one transaction at a time has sent an edge.
LEMMA SentOnce ==
    ASSUME LockInv, NEW r \in Sessions, NEW s \in Sessions \ {r},
           NEW e, e \in tx[r].sent
    PROVE  e \notin tx[s].sent
<1>1. /\ Sound(tx[r]) /\ Sound(tx[s]) /\ e \in Edges
    BY DEF LockInv, TxInv, TypeOK, Tx
<1> SUFFICES ASSUME e \in tx[s].sent
             PROVE  FALSE
    OBVIOUS
<1>2. CASE e \in Follows
  <2>1. e = tx[r].pair /\ (tx[r].ticker # 0 \/ tx[r].drops)
      BY <1>1, <1>2 DEF Sound
  <2>2. e = tx[s].pair /\ (tx[s].ticker # 0 \/ tx[s].drops)
      BY <1>1, <1>2 DEF Sound
  <2> QED BY <2>1, <2>2 DEF LockInv, AloneOnRow, Wrote
<1>3. CASE e \notin Follows
  <2>1. e[1] \in Agents
      BY <1>1, <1>3, EdgeKinds
  <2>2. tx[r].bumps[e[1]] # 0 /\ tx[s].bumps[e[1]] # 0
      BY <1>1, <1>3 DEF Sound
  <2> QED BY <2>1, <2>2 DEF LockInv, Alone
<1> QED BY <1>2, <1>3

EdgesApart == \A r, s \in Sessions : r # s =>
                \A e : e \in tx[r].sent => e \notin tx[s].sent

LEMMA SentOnceNext == LockInv' => EdgesApart'
<1>1. LockInv => EdgesApart
    BY SentOnce DEF EdgesApart
<1> QED BY <1>1, PTL

\* What an insert does not send, neither its post nor its parent stands for.
LEMMA NotSent ==
    ASSUME NEW c \in Comments, NEW p \in Comments \cup {None}, NEW y \in Items,
           Author[y] # Author[c], <<Author[c], y>> \notin Sends(c, p)
    PROVE  On[c] # y /\ p # y
<1>1. c \in Items
    BY DEF Items
<1>2. \A z \in Items : /\ c \in Comments /\ (On[c] = z \/ p = z)
                       /\ Author[z] # Author[c]
                       => <<Author[c], z>> \in Sends(c, p)
    BY <1>1, SendsFacts
<1> QED BY <1>2

\* To insert x changes no edge but those that are sent.
LEMMA InsertSame ==
    ASSUME NEW x \in Items, NEW p \in Comments \cup {None},
           NEW e \in Edges \ Follows, e \notin Sends(x, p),
           NEW R, x \notin R, NEW P, NEW Q,
           \A c \in Comments : c # x => Q[c] = P[c],
           x \in Comments => Q[x] = p
    PROVE  Weight(e[1], e[2], R \cup {x}, Q) = Weight(e[1], e[2], R, P)
<1> DEFINE a == e[1]
           y == e[2]
<1>1. a \in Agents /\ y \in Items /\ e = <<a, y>>
    BY EdgeKinds
<1>2. a = Author[y] => y # x
    BY <1>1, SendsFacts
<1>3. ASSUME a # Author[y], a = Author[x], x \in Comments
      PROVE  On[x] # y /\ Q[x] # y
  <2>1. <<Author[x], y>> \notin Sends(x, p)
      BY <1>1, <1>3
  <2> HIDE DEF a, y
  <2>2. On[x] # y /\ p # y
      BY <1>1, <1>3, <2>1, NotSent
  <2> QED BY <1>3, <2>2
<1>4. a = Author[y] => (y \in R \cup {x} <=> y \in R)
    BY <1>2
<1>5. ASSUME a # Author[y], NEW c \in Comments, Author[c] = a
      PROVE  c \in R \cup {x} /\ (On[c] = y \/ Q[c] = y)
               <=> c \in R /\ (On[c] = y \/ P[c] = y)
  <2>1. CASE c = x
      BY <1>3, <1>5, <2>1
  <2>2. CASE c # x
    <3>1. Q[c] = P[c]
        BY <2>2
    <3> QED BY <2>2, <3>1
  <2> QED BY <2>1, <2>2
<1> HIDE DEF a, y
<1>6. Weight(a, y, R \cup {x}, Q) = Weight(a, y, R, P)
    BY <1>4, <1>5, WeightSame
<1> QED BY <1>6 DEF a, y

\* To give comments their parents changes no edge but those they are linked by.
LEMMA LinkSame ==
    ASSUME NEW e \in Edges \ Follows, NEW R, NEW P, NEW Q,
           \A c \in Comments :
             Author[c] = e[1] => \/ Q[c] = P[c]
                                 \/ P[c] = None /\ e # <<Author[c], Q[c]>>
    PROVE  Weight(e[1], e[2], R, Q) = Weight(e[1], e[2], R, P)
<1> DEFINE a == e[1]
           y == e[2]
<1>1. a \in Agents /\ y \in Items /\ e = <<a, y>> /\ y # None
    BY EdgeKinds, ItemsAssumption
<1>2. ASSUME NEW c \in Comments, Author[c] = a
      PROVE  c \in R /\ (On[c] = y \/ Q[c] = y) <=> c \in R /\ (On[c] = y \/ P[c] = y)
  <2>1. Q[c] = P[c] \/ (P[c] = None /\ e # <<Author[c], Q[c]>>)
      BY <1>2
  <2>2. CASE Q[c] = P[c]
      BY <2>2
  <2>3. CASE P[c] = None /\ e # <<Author[c], Q[c]>>
    <3>1. P[c] # y
        BY <1>1, <2>3
    <3>2. Q[c] # y
        BY <1>1, <1>2, <2>3
    <3> QED BY <3>1, <3>2
  <2> QED BY <2>1, <2>2, <2>3
<1> HIDE DEF a, y
<1>3. Weight(a, y, R, Q) = Weight(a, y, R, P)
    BY <1>2, WeightSame
<1> QED BY <1>3 DEF a, y

\* A transaction changes no edge but those it has sent and those of the comments
\* that it gives a parent.
LEMMA Quiet ==
    ASSUME NEW t, Sound(t), NEW F, NEW R, NEW P, t.adds \cap R = {},
           \A c \in Comments : P[c] \in {None, ReplyTo[c]},
           NEW e \in Edges \ (t.sent \cup LinkedIn(t))
    PROVE  After(t, e, F, R, P)
             = IF e \in Follows THEN F[e] ELSE Weight(e[1], e[2], R, P)
<1>1. CASE e \in Follows
    BY <1>1 DEF After, Sound
<1>2. CASE e \notin Follows
  <2> DEFINE a == e[1]
             y == e[2]
             Q == NewParent(t, P)
  <2>1. a \in Agents /\ y \in Items /\ e = <<a, y>> /\ y # None
      BY <1>2, EdgeKinds, ItemsAssumption
  <2>2. t \in Tx /\ t.adds \subseteq Items /\ t.links \subseteq Comments
      BY DEF Sound, Tx
  <2>3. ASSUME NEW x \in t.adds
        PROVE  e \notin Sends(x, ParentIn(t, x))
      BY DEF Sound
  <2>4. \A x \in t.adds : ParentIn(t, x) \in Comments \cup {None}
      BY <2>2 DEF ParentIn, Tx
  <2>5. a = Author[y] => (y \in R \cup t.adds <=> y \in R)
    <3>1. ASSUME a = Author[y], y \in t.adds
          PROVE  FALSE
        BY <2>1, <2>3, <2>4, <3>1, SendsFacts
    <3> QED BY <3>1
  <2>6. ASSUME a # Author[y], NEW c \in Comments, Author[c] = a
        PROVE  c \in R \cup t.adds /\ (On[c] = y \/ Q[c] = y)
                 <=> c \in R /\ (On[c] = y \/ P[c] = y)
    <3>1. CASE c \in t.adds
      <4>1. Q[c] = t.parents[c] /\ ParentIn(t, c) = t.parents[c]
          BY <3>1 DEF NewParent, ParentIn
      <4>2. c \in Items /\ ParentIn(t, c) \in Comments \cup {None}
          BY <2>2, <2>4, <3>1
      <4>3. On[c] # y /\ ParentIn(t, c) # y
        <5>1. <<Author[c], y>> \notin Sends(c, ParentIn(t, c))
            BY <2>1, <2>3, <2>6, <3>1
        <5> HIDE DEF y
        <5> QED BY <2>1, <2>6, <4>2, <5>1, NotSent
      <4>4. c \notin R
          BY <3>1
      <4> QED BY <4>1, <4>3, <4>4
    <3>2. CASE c \notin t.adds /\ c \in t.links
      <4>1. Q[c] = t.parents[c] /\ t.parents[c] = ReplyTo[c]
          BY <3>2 DEF NewParent, Sound
      <4>2. t.parents[c] # y
        <5>1. ASSUME t.parents[c] = y
              PROVE  <<Author[c], t.parents[c]>> = e
            BY <2>1, <2>6, <5>1
        <5> QED BY <3>2, <5>1 DEF LinkedIn
      <4>3. P[c] # y
          BY <2>1, <4>1, <4>2
      <4> QED BY <3>2, <4>1, <4>2, <4>3
    <3>3. CASE c \notin t.adds /\ c \notin t.links
        BY <3>3 DEF NewParent
    <3> QED BY <3>1, <3>2, <3>3
  <2> HIDE DEF a, y, Q
  <2>7. Weight(a, y, R \cup t.adds, Q) = Weight(a, y, R, P)
      BY <2>5, <2>6, WeightSame
  <2> QED BY <1>2, <2>7 DEF After, a, y, Q
<1> QED BY <1>1, <1>2

LEMMA LinkedIsLinkedIn == \A r \in Sessions : Linked(r) = LinkedIn(tx[r])
BY DEF Linked, LinkedIn

LEMMA ImageSame ==
    ASSUME UNCHANGED tables, NEW e
    PROVE  Image(e)' = Image(e)
BY DEF Image, tables

\* The graph is right again after r has become t and has sent the edges E with
\* the values that they will have when t is committed.
LEMMA SendGraph ==
    ASSUME GraphInv, LockInv', NEW r \in Sessions, NEW t, NEW E \in SUBSET Edges,
           tx' = [tx EXCEPT ![r] = t], Sound(t), t.sent = tx[r].sent \cup E,
           torn' = torn \ E, Touch(E), UNCHANGED <<tables, load>>,
           t.adds \cap rows = {},
           \A e \in Edges \ E : graph'[e] = graph[e],
           \A e \in E : graph'[e] = After(t, e, follow, rows, parent),
           LinkedIn(tx[r]) \subseteq LinkedIn(t),
           \A e \in tx[r].sent \ (E \cup LinkedIn(t)) :
             After(t, e, follow, rows, parent) = After(tx[r], e, follow, rows, parent)
    PROVE  GraphInv'
<1>1. TxInv /\ LockInv /\ follow' = follow /\ rows' = rows /\ parent' = parent
      /\ init' = init /\ snapshot' = snapshot
    BY DEF GraphInv, LockInv, tables, load
<1>2. tx'[r] = t /\ \A s \in Sessions \ {r} : tx'[s] = tx[s]
    BY <1>1, TxUpdate
<1>3. \A s \in Sessions : tx[s].sent \subseteq Edges
    BY <1>1 DEF TxInv, TypeOK, Tx
<1>4. ASSUME NEW s \in Sessions \ {r}, NEW e \in tx[s].sent
      PROVE  e \notin E
  <2>1. e \in tx'[s].sent
      BY <1>2
  <2>2. e \notin tx'[r].sent
      BY <2>1, SentOnceNext DEF EdgesApart
  <2> QED BY <1>2, <2>2
<1>5. ParentSound' /\ AddsNew'
    BY <1>1, <1>2 DEF GraphInv, ParentSound, AddsNew
<1>6. SentRight'
  <2> SUFFICES ASSUME NEW s \in Sessions,
                      NEW e \in tx'[s].sent \ (torn' \cup LinkedIn(tx'[s]))
               PROVE  graph'[e] = After(tx'[s], e, follow, rows, parent)
      BY <1>1 DEF SentRight
  <2>1. CASE s # r
    <3>1. e \in tx[s].sent \ (torn \cup LinkedIn(tx[s])) /\ e \notin E /\ e \in Edges
        BY <1>2, <1>3, <1>4, <2>1
    <3> QED BY <1>2, <2>1, <3>1 DEF GraphInv, SentRight
  <2>2. CASE s = r /\ e \in E
      BY <1>2, <2>2
  <2>3. CASE s = r /\ e \notin E
    <3>1. e \in tx[r].sent \ (torn \cup LinkedIn(tx[r])) /\ e \in Edges
        BY <1>2, <1>3, <2>3
    <3>2. graph'[e] = graph[e] /\ graph[e] = After(tx[r], e, follow, rows, parent)
        BY <2>3, <3>1 DEF GraphInv, SentRight
    <3>3. e \in tx[r].sent \ (E \cup LinkedIn(t))
        BY <1>2, <2>3, <3>1
    <3> QED BY <1>2, <2>3, <3>2, <3>3
  <2> QED BY <2>1, <2>2, <2>3
<1>7. LoadRight'
  <2>1. since \subseteq since' /\ (init \in {"read", "reset"} => E \subseteq since')
      BY DEF Touch
  <2>2. ASSUME init \in {"read", "reset"}
        PROVE  /\ \A e \in Edges \ since' : snapshot'[e] = Image(e)'
               /\ \A s \in Sessions : tx'[s].sent \subseteq since'
    <3>1. \A e \in Edges \ since' : snapshot'[e] = Image(e)'
        BY <1>1, <2>1, <2>2, ImageSame DEF GraphInv, LoadRight
    <3>2. \A s \in Sessions : tx'[s].sent \subseteq since'
        BY <1>2, <2>1, <2>2 DEF GraphInv, LoadRight
    <3> QED BY <3>1, <3>2
  <2>3. ASSUME init = "reset", NEW e \in Edges \ since'
        PROVE  graph'[e] = 0
      BY <2>1, <2>3 DEF GraphInv, LoadRight
  <2> QED BY <1>1, <2>2, <2>3 DEF LoadRight
<1>8. GraphTrue'
  <2> SUFFICES ASSUME NEW e \in Edges, e \notin torn', e \notin InFlight'
               PROVE  graph'[e] = Image(e)'
      BY DEF GraphTrue
  <2>1. \A s \in Sessions : e \notin tx'[s].sent
      BY DEF InFlight
  <2>2. e \notin E /\ \A s \in Sessions : e \notin tx[s].sent
      BY <1>2, <2>1
  <2>3. e \notin torn \cup InFlight
      BY <2>2 DEF InFlight
  <2>4. graph[e] = Image(e)
      BY <2>3 DEF GraphInv, GraphTrue
  <2> QED BY <2>2, <2>4, ImageSame
<1> QED BY <1>5, <1>6, <1>7, <1>8 DEF GraphInv

\* Transactions that are over, or go on, without having changed anything: their
\* edges are torn.
LEMMA TakenBackGraph ==
    ASSUME GraphInv, LockInv', UNCHANGED <<tables, graph>>, torn \subseteq torn',
           \A r \in Sessions : \/ tx'[r] = tx[r]
                               \/ tx'[r] = NoTx /\ tx[r].sent \subseteq torn',
           UNCHANGED <<init, snapshot, since>> \/ init' \notin {"read", "reset"}
    PROVE  GraphInv'
<1>1. TxInv /\ follow' = follow /\ rows' = rows /\ parent' = parent
    BY DEF GraphInv, LockInv, tables
<1>2. ParentSound' /\ AddsNew'
    BY <1>1, NoTxFields DEF GraphInv, ParentSound, AddsNew
<1>3. SentRight'
    BY <1>1, NoTxFields DEF GraphInv, SentRight
<1>4. LoadRight'
  <2>1. CASE UNCHANGED <<init, snapshot, since>>
    <3>1. \A s \in Sessions : tx'[s].sent \subseteq tx[s].sent
        BY NoTxFields
    <3> QED BY <2>1, <3>1, ImageSame DEF GraphInv, LoadRight
  <2>2. CASE init' \notin {"read", "reset"}
      BY <2>2 DEF LoadRight
  <2> QED BY <2>1, <2>2
<1>5. GraphTrue'
  <2> SUFFICES ASSUME NEW e \in Edges, e \notin torn', e \notin InFlight'
               PROVE  graph'[e] = Image(e)'
      BY DEF GraphTrue
  <2>1. \A s \in Sessions : e \notin tx'[s].sent
      BY DEF InFlight
  <2>2. \A s \in Sessions : e \notin tx[s].sent
      BY <2>1
  <2>3. e \notin torn \cup InFlight
      BY <2>2 DEF InFlight
  <2>4. graph[e] = Image(e)
      BY <2>3 DEF GraphInv, GraphTrue
  <2> QED BY <2>4, ImageSame
<1> QED BY <1>2, <1>3, <1>4, <1>5 DEF GraphInv

\* A follow or an unfollow changes the edge of its pair, an upsert those that it
\* sends.
LEMMA AfterSame ==
    ASSUME NEW t, NEW u, t.pair = u.pair \/ (u.ticker = 0 /\ ~u.drops),
           t.adds = u.adds, t.links = u.links, t.parents = u.parents,
           NEW F, NEW R, NEW P, NEW e, e \in Follows => e # t.pair
    PROVE  After(t, e, F, R, P) = After(u, e, F, R, P)
<1>1. NewParent(t, P) = NewParent(u, P)
    BY DEF NewParent
<1> QED BY <1>1 DEF After

LEMMA LinkedSame ==
    ASSUME NEW t, NEW u, t.links = u.links, t.parents = u.parents
    PROVE  LinkedIn(t) = LinkedIn(u)
BY DEF LinkedIn

LEMMA GraphBegin ==
    ASSUME GraphInv, LockInv', NEW r \in Sessions,
           BeginFollow(r) \/ BeginUnfollow(r) \/ BeginBatch(r)
    PROVE  GraphInv'
<1>1. TxInv
    BY DEF GraphInv, LockInv
<1>2. PICK t : /\ tx' = [tx EXCEPT ![r] = t] /\ Sound(t)
               /\ t.sent = {} /\ t.adds = {} /\ t.links = {}
               /\ t.ticker = 0 /\ ~t.drops
               /\ \A a \in Agents : t.bumps[a] = 0
    BY <1>1, BeginFacts
<1>3. UNCHANGED <<tables, graph, load, since, torn>>
    BY <1>1, BeginFacts
<1>4. tx'[r] = t /\ \A s \in Sessions \ {r} : tx'[s] = tx[s]
    BY <1>1, <1>2, TxUpdate
<1>5. tx[r].sent = {}
  <2>1. Sound(tx[r]) /\ tx[r].at = "idle"
      BY <1>1 DEF TxInv, BeginFollow, BeginUnfollow, BeginBatch, Begin
  <2> QED BY <2>1 DEF Sound
<1>6. ParentSound' /\ AddsNew'
    BY <1>2, <1>3, <1>4 DEF GraphInv, ParentSound, AddsNew, tables
<1>7. SentRight'
    BY <1>2, <1>3, <1>4 DEF GraphInv, SentRight, tables
<1>8. \A s \in Sessions : tx'[s].sent = tx[s].sent
    BY <1>2, <1>4, <1>5
<1>9. LoadRight'
    BY <1>3, <1>8, ImageSame DEF GraphInv, LoadRight, load
<1>10. GraphTrue'
  <2>1. InFlight' = InFlight
      BY <1>8 DEF InFlight
  <2> QED BY <1>3, <2>1, ImageSame DEF GraphInv, GraphTrue
<1> QED BY <1>6, <1>7, <1>9, <1>10 DEF GraphInv

LEMMA GraphBump ==
    ASSUME GraphInv, LockInv', NEW r \in Sessions, Bump(r)
    PROVE  GraphInv'
<1>1. TxInv
    BY DEF GraphInv, LockInv
<1>2. PICK t : /\ tx' = [tx EXCEPT ![r] = t]
               /\ Sound(t)
               /\ t.sent = tx[r].sent /\ t.adds = tx[r].adds
               /\ t.links = tx[r].links /\ t.parents = tx[r].parents
               /\ t.pair = tx[r].pair /\ ~t.drops
               /\ t.ticker = 0 /\ tx[r].ticker = 0
               /\ \A a \in Agents \ {tx[r].pair[1]} : t.bumps[a] = tx[r].bumps[a]
    BY <1>1, BumpFacts
<1>3. UNCHANGED <<tables, graph, begun, load, since, torn>>
    BY <1>1, BumpFacts
<1>4. Sound(tx[r]) /\ ~tx[r].drops
    BY <1>1 DEF TxInv, Sound, Bump
<1>5. t.sent = tx[r].sent \cup {} /\ torn' = torn \ {} /\ Touch({})
    BY <1>2, <1>3 DEF Touch
<1>6. LinkedIn(t) = LinkedIn(tx[r])
    BY <1>2, LinkedSame
<1>7. t.adds \cap rows = {}
    BY <1>2 DEF GraphInv, AddsNew
<1>8. \A e : After(t, e, follow, rows, parent) = After(tx[r], e, follow, rows, parent)
  <2>1. NewParent(t, parent) = NewParent(tx[r], parent)
      BY <1>2 DEF NewParent
  <2> QED BY <1>2, <1>4, <2>1 DEF After
<1>9. {} \in SUBSET Edges
    OBVIOUS
<1> QED BY <1>2, <1>3, <1>5, <1>6, <1>7, <1>8, <1>9, SendGraph

LEMMA GraphFollow ==
    ASSUME GraphInv, LockInv', NEW r \in Sessions, WriteFollow(r)
    PROVE  GraphInv'
<1> DEFINE e == tx[r].pair
<1>1. TxInv /\ e \in {tx[r].pair}
    BY DEF GraphInv, LockInv
<1>2. Sound(tx[r])
    BY <1>1 DEF TxInv
<1> HIDE DEF e
<1>3. /\ e \in Follows /\ tx[r].ticker = 0 /\ ~tx[r].drops
      /\ torn' = torn \ {e} /\ Touch({e}) /\ UNCHANGED <<tables, begun, load>>
    BY <1>1, WriteFollowFacts
<1>4. PICK t : /\ tx' = [tx EXCEPT ![r] = t]
               /\ Sound(t)
               /\ t.pair = e /\ ~t.drops
               /\ t.adds = tx[r].adds /\ t.links = tx[r].links
               /\ t.parents = tx[r].parents /\ t.sent = tx[r].sent \cup {e}
               /\ t.ticker = vsid[e[1]] + t.bumps[e[1]]
               /\ \A a \in Agents \ {e[1]} : t.bumps[a] = tx[r].bumps[a]
               /\ graph' = [graph EXCEPT ![e] = t.ticker]
    BY <1>1, WriteFollowFacts
<1>5. LinkedIn(t) = LinkedIn(tx[r]) /\ t.adds \cap rows = {}
    BY <1>4, LinkedSame DEF GraphInv, AddsNew
<1>6. e \in Edges /\ {e} \in SUBSET Edges
    BY <1>3 DEF Edges
<1>7. t.ticker # 0
  <2>1. e \in t.sent
      BY <1>4
  <2> QED BY <1>3, <1>4, <2>1 DEF Sound
<1>8. /\ \A f \in Edges \ {e} : graph'[f] = graph[f]
      /\ graph'[e] = t.ticker
    BY <1>1, <1>4, <1>6 DEF TxInv, TypeOK
<1>9. \A f \in {e} : graph'[f] = After(t, f, follow, rows, parent)
    BY <1>3, <1>4, <1>7, <1>8 DEF After
<1>10. \A f \in tx[r].sent \ ({e} \cup LinkedIn(t)) :
         After(t, f, follow, rows, parent) = After(tx[r], f, follow, rows, parent)
    BY <1>3, <1>4, AfterSame
<1> QED BY <1>3, <1>4, <1>5, <1>6, <1>8, <1>9, <1>10, SendGraph

LEMMA GraphUnfollow ==
    ASSUME GraphInv, LockInv', NEW r \in Sessions, WriteUnfollow(r)
    PROVE  GraphInv'
<1> DEFINE e == tx[r].pair
<1>1. TxInv /\ e \in {tx[r].pair}
    BY DEF GraphInv, LockInv
<1> HIDE DEF e
<1>3. /\ e \in Follows /\ tx[r].ticker = 0 /\ ~tx[r].drops
      /\ UNCHANGED <<tables, begun, load>>
    BY <1>1, WriteUnfollowFacts
<1>4. PICK t, E : /\ E = IF follow[e] # 0 THEN {e} ELSE {}
                  /\ tx' = [tx EXCEPT ![r] = t]
                  /\ Sound(t)
                  /\ t.pair = e /\ (t.drops <=> follow[e] # 0) /\ t.ticker = 0
                  /\ t.adds = tx[r].adds /\ t.links = tx[r].links
                  /\ t.parents = tx[r].parents /\ t.sent = tx[r].sent \cup E
                  /\ t.bumps = tx[r].bumps
                  /\ graph' = [f \in Edges |-> IF f \in E THEN 0 ELSE graph[f]]
                  /\ torn' = torn \ E /\ Touch(E)
    BY <1>1, WriteUnfollowFacts
<1>5. LinkedIn(t) = LinkedIn(tx[r]) /\ t.adds \cap rows = {}
    BY <1>4, LinkedSame DEF GraphInv, AddsNew
<1>6. E \in SUBSET Edges /\ \A f \in E : f = e /\ t.drops
    BY <1>3, <1>4 DEF Edges
<1>7. \A f \in Edges \ E : graph'[f] = graph[f]
    BY <1>4
<1>8. \A f \in E : graph'[f] = After(t, f, follow, rows, parent)
    BY <1>3, <1>4, <1>6 DEF After
<1>9. \A f \in tx[r].sent \ (E \cup LinkedIn(t)) :
         After(t, f, follow, rows, parent) = After(tx[r], f, follow, rows, parent)
  <2>1. \A f \in tx[r].sent : f \notin Follows
      BY <1>1, <1>3 DEF TxInv, Sound
  <2> QED BY <1>3, <1>4, <2>1, AfterSame
<1> QED BY <1>3, <1>4, <1>5, <1>6, <1>7, <1>8, <1>9, SendGraph

LEMMA GraphUpsert ==
    ASSUME GraphInv, LockInv', NEW r \in Sessions, Upsert(r)
    PROVE  GraphInv'
<1> DEFINE x == Head(tx[r].todo)
           p == ParentIn(tx[r], x)
           u == tx[r]
<1>1. TxInv /\ Sound(u) /\ u \in Tx /\ u.adds \cap rows = {}
    BY DEF GraphInv, LockInv, TxInv, Sound, AddsNew
<1>2. PICK t, E : UpsertStep(r, x, p, t, E)
    BY <1>1, UpsertFacts
<1>3. /\ x \in Items /\ p \in Comments \cup {None}
      /\ u.ticker = 0 /\ ~u.drops /\ UNCHANGED <<tables, begun, load>>
    BY <1>1, UpsertFacts
<1>4. x \in Comments => p = u.parents[x] /\ p \in {None, ReplyTo[x]}
                          /\ parent[x] \in {None, ReplyTo[x]}
    BY <1>1 DEF ParentIn, Sound, GraphInv, ParentSound
<1> HIDE DEF x, p
<1>5. /\ tx' = [tx EXCEPT ![r] = t] /\ Sound(t)
      /\ t.pair = u.pair /\ ~t.drops /\ t.ticker = 0
      /\ t.parents = u.parents /\ t.sent = u.sent \cup E
      /\ torn' = torn \ E /\ Touch(E)
    BY <1>2 DEF UpsertStep
<1>6. \A f \in u.sent : f \in Edges \ Follows
    BY <1>1, <1>3 DEF Sound, Tx
<1>7. E \in SUBSET Edges /\ \A e \in E : e \notin Follows
    BY <1>2, <1>3, SendsFacts DEF UpsertStep
<1>8. CASE /\ x \notin rows \cup u.adds
           /\ E = Sends(x, p)
           /\ t.adds = u.adds \cup {x} /\ t.links = u.links
           /\ graph' = [e \in Edges |->
                 IF e \in E
                 THEN Weight(e[1], e[2], rows \cup t.adds, NewParent(t, parent))
                 ELSE graph[e]]
  <2>1. LinkedIn(u) \subseteq LinkedIn(t) /\ t.adds \cap rows = {}
      BY <1>1, <1>5, <1>8, LinkedSame
  <2>2. \A e \in Edges \ E : graph'[e] = graph[e]
      BY <1>8
  <2>3. \A e \in E : graph'[e] = After(t, e, follow, rows, parent)
      BY <1>7, <1>8 DEF After
  <2>4. ASSUME NEW e \in u.sent \ (E \cup LinkedIn(t))
        PROVE  After(t, e, follow, rows, parent) = After(u, e, follow, rows, parent)
    <3> DEFINE R == rows \cup u.adds
               Q == NewParent(t, parent)
               P == NewParent(u, parent)
    <3>1. rows \cup t.adds = R \cup {x}
        BY <1>8
    <3>2. \A c \in Comments : c # x => Q[c] = P[c]
        BY <1>5, <1>8 DEF NewParent
    <3>3. x \in Comments => Q[x] = p
        BY <1>4, <1>5, <1>8 DEF NewParent
    <3>4. e \in Edges \ Follows /\ e \notin Sends(x, p) /\ x \notin R
        BY <1>6, <1>8
    <3> HIDE DEF R, P, Q
    <3>5. Weight(e[1], e[2], R \cup {x}, Q) = Weight(e[1], e[2], R, P)
      <4>1. x \in Items /\ p \in Comments \cup {None}
          BY <1>3
      <4>2. e \in Edges \ Follows /\ e \notin Sends(x, p)
          BY <3>4
      <4>3. x \notin R
          BY <3>4
      <4> HIDE DEF u
      <4> QED BY ONLY <3>2, <3>3, <4>1, <4>2, <4>3, InsertSame
    <3> QED BY <3>1, <3>4, <3>5 DEF After, R, P, Q
  <2> HIDE DEF u
  <2> QED BY <1>3, <1>5, <1>7, <2>1, <2>2, <2>3, <2>4, SendGraph DEF u
<1>9. CASE /\ x \in Comments /\ p # None /\ parent[x] # p
           /\ E = {} /\ t.adds = u.adds
           /\ t.links = u.links \cup {x} /\ graph' = graph
  <2>1. LinkedIn(u) \subseteq LinkedIn(t) /\ t.adds \cap rows = {}
      BY <1>1, <1>5, <1>9 DEF LinkedIn
  <2>2. /\ \A e \in Edges \ E : graph'[e] = graph[e]
        /\ \A e \in E : graph'[e] = After(t, e, follow, rows, parent)
      BY <1>9
  <2>3. ASSUME NEW e \in u.sent \ (E \cup LinkedIn(t))
        PROVE  After(t, e, follow, rows, parent) = After(u, e, follow, rows, parent)
    <3> DEFINE R == rows \cup u.adds
               Q == NewParent(t, parent)
               P == NewParent(u, parent)
    <3>1. e \in Edges \ Follows /\ rows \cup t.adds = R
        BY <1>6, <1>9
    <3>2. \A c \in Comments : c # x => Q[c] = P[c]
        BY <1>5, <1>9 DEF NewParent
    <3>3. Q[x] = p /\ P[x] \in {None, p}
        BY <1>4, <1>5, <1>9 DEF NewParent
    <3>4. e # <<Author[x], p>>
        BY <1>4, <1>5, <1>9, <3>1 DEF LinkedIn
    <3> HIDE DEF R, P, Q
    <3>5. \A c \in Comments :
             Author[c] = e[1] => \/ Q[c] = P[c]
                                 \/ P[c] = None /\ e # <<Author[c], Q[c]>>
        BY <3>2, <3>3, <3>4
    <3>6. Weight(e[1], e[2], R, Q) = Weight(e[1], e[2], R, P)
        BY <3>1, <3>5, LinkSame
    <3> QED BY <3>1, <3>6 DEF After, R, P, Q
  <2> HIDE DEF u
  <2> QED BY <1>3, <1>5, <1>7, <2>1, <2>2, <2>3, SendGraph DEF u
<1>10. CASE E = {} /\ t.adds = u.adds /\ t.links = u.links /\ graph' = graph
  <2>1. LinkedIn(u) \subseteq LinkedIn(t) /\ t.adds \cap rows = {}
      BY <1>1, <1>5, <1>10, LinkedSame
  <2>2. /\ \A e \in Edges \ E : graph'[e] = graph[e]
        /\ \A e \in E : graph'[e] = After(t, e, follow, rows, parent)
      BY <1>10
  <2>3. \A e \in u.sent \ (E \cup LinkedIn(t)) :
          After(t, e, follow, rows, parent) = After(u, e, follow, rows, parent)
      BY <1>5, <1>6, <1>10, AfterSame
  <2> HIDE DEF u
  <2> QED BY <1>3, <1>5, <1>7, <2>1, <2>2, <2>3, SendGraph DEF u
<1> QED BY <1>2, <1>8, <1>9, <1>10 DEF UpsertStep

\* What the tables say after a commit of r is what After said.
LEMMA CommitImage ==
    ASSUME TxInv, NEW r \in Sessions, Commit(r), NEW e \in Edges
    PROVE  Image(e)' = After(tx[r], e, follow, rows, parent)
<1>1. rows' = rows \cup tx[r].adds /\ parent' = NewParent(tx[r], parent)
    BY CommitFacts DEF Commit
<1>2. CASE e \in Follows
  <2>1. follow'[e] = IF e # tx[r].pair THEN follow[e]
                     ELSE IF tx[r].drops THEN 0
                     ELSE IF tx[r].ticker # 0 THEN tx[r].ticker ELSE follow[e]
      BY <1>2 DEF Commit
  <2> QED BY <1>2, <2>1 DEF Image, After
<1>3. CASE e \notin Follows
    BY <1>1, <1>3 DEF Image, After
<1> QED BY <1>2, <1>3

\* What another transaction has sent is not changed by a commit of r: it has
\* the lock of the follow, or that of the author whose rows it counts.
LEMMA CommitApart ==
    ASSUME LockInv, NEW r \in Sessions, Commit(r),
           NEW s \in Sessions \ {r}, NEW e \in tx[s].sent
    PROVE  After(tx[s], e, follow', rows', parent')
             = After(tx[s], e, follow, rows, parent)
<1> DEFINE u == tx[r]
           t == tx[s]
<1>1. TxInv /\ Sound(u) /\ Sound(t) /\ u \in Tx /\ t \in Tx /\ e \in Edges
    BY DEF LockInv, TxInv, Sound, Tx
<1>2. CASE e \in Follows
  <2>1. e = t.pair /\ (t.ticker # 0 \/ t.drops)
      BY <1>1, <1>2 DEF Sound
  <2> QED BY <1>2, <2>1 DEF After
<1>3. CASE e \notin Follows
  <2> DEFINE a == e[1]
             y == e[2]
  <2>1. a \in Agents /\ y \in Items
      BY <1>1, <1>3, EdgeKinds
  <2>2. t.bumps[a] # 0
      BY <1>1, <1>3 DEF Sound
  <2>3. u.bumps[a] = 0
      BY <2>1, <2>2 DEF LockInv, Alone
  <2>4. \A x \in u.adds \cup u.links : Author[x] # a
      BY <1>1, <2>3 DEF Sound
  <2>5. rows' = rows \cup u.adds /\ parent' = NewParent(u, parent)
      BY <1>1, CommitFacts DEF Commit
  <2> HIDE DEF a, y, u, t
  <2> DEFINE R == rows \cup t.adds
             S == rows' \cup t.adds
             P == NewParent(t, parent)
             Q == NewParent(t, parent')
  <2>6. a = Author[y] => (y \in S <=> y \in R)
      BY <2>4, <2>5
  <2>7. ASSUME NEW c \in Comments, Author[c] = a
        PROVE  (c \in S <=> c \in R) /\ Q[c] = P[c]
    <3>1. c \notin u.adds \cup u.links
        BY <2>4, <2>7
    <3>2. parent'[c] = parent[c]
        BY <2>5, <3>1 DEF NewParent
    <3>3. Q[c] = P[c]
        BY <3>2 DEF NewParent
    <3> QED BY <2>5, <3>1, <3>3
  <2> HIDE DEF R, S, P, Q
  <2>8. Weight(a, y, S, Q) = Weight(a, y, R, P)
      BY <2>6, <2>7, WeightSame
  <2> QED BY <1>3, <2>8 DEF After, R, S, P, Q, a, y, t
<1> QED BY <1>2, <1>3

LEMMA GraphCommit ==
    ASSUME GraphInv, LockInv', NEW r \in Sessions, Commit(r)
    PROVE  GraphInv'
<1> DEFINE u == tx[r]
<1>1. LockInv /\ TxInv /\ Sound(u) /\ u \in Tx /\ u.adds \cap rows = {}
      /\ \A c \in Comments : parent[c] \in {None, ReplyTo[c]}
    BY DEF GraphInv, LockInv, TxInv, Sound, AddsNew, ParentSound
<1>2. /\ rows' = rows \cup u.adds /\ parent' = NewParent(u, parent)
      /\ torn' = torn \cup LinkedIn(u) /\ Touch(LinkedIn(u))
      /\ graph' = graph /\ init' = init /\ snapshot' = snapshot
    BY <1>1, CommitFacts, LinkedIsLinkedIn DEF Commit, load
<1>3. tx'[r] = NoTx /\ \A s \in Sessions \ {r} : tx'[s] = tx[s]
    BY <1>1, CommitLocks
<1>4. ASSUME NEW e \in Edges, e \notin u.sent, e \notin LinkedIn(u)
      PROVE  Image(e)' = Image(e)
  <2>1. Image(e)' = After(u, e, follow, rows, parent)
      BY <1>1, CommitImage
  <2>2. After(u, e, follow, rows, parent)
          = IF e \in Follows THEN follow[e] ELSE Weight(e[1], e[2], rows, parent)
    <3> HIDE DEF u
    <3> QED BY <1>1, <1>4, Quiet
  <2> QED BY <2>1, <2>2 DEF Image
<1>5. ParentSound'
  <2> SUFFICES ASSUME NEW c \in Comments
               PROVE  parent'[c] \in {None, ReplyTo[c]}
      BY DEF ParentSound
  <2>1. u.parents[c] \in {None, ReplyTo[c]} /\ parent[c] \in {None, ReplyTo[c]}
      BY <1>1 DEF Sound
  <2> HIDE DEF u
  <2> QED BY <1>2, <2>1 DEF NewParent
<1>6. AddsNew'
  <2> SUFFICES ASSUME NEW s \in Sessions, NEW x \in tx'[s].adds, x \in rows'
               PROVE  FALSE
      BY DEF AddsNew
  <2>1. s # r /\ tx'[s] = tx[s] /\ x \in tx[s].adds
      BY <1>3, NoTxFields
  <2>2. x \in u.adds
      BY <1>2, <2>1 DEF GraphInv, AddsNew
  <2>3. Author[x] \in Agents
      BY <1>1, <2>2, ItemsAssumption DEF Tx
  <2>4. u.bumps[Author[x]] # 0
      BY <1>1, <2>2 DEF Sound
  <2>5. tx[s].bumps[Author[x]] # 0
      BY <1>1, <2>1 DEF TxInv, Sound
  <2> QED BY <1>1, <2>1, <2>3, <2>4, <2>5 DEF LockInv, Alone
<1>7. SentRight'
  <2> SUFFICES ASSUME NEW s \in Sessions,
                      NEW e \in tx'[s].sent \ (torn' \cup LinkedIn(tx'[s]))
               PROVE  graph'[e] = After(tx'[s], e, follow', rows', parent')
      BY DEF SentRight
  <2>1. s # r /\ tx'[s] = tx[s]
      BY <1>3, NoTxFields
  <2>2. e \in tx[s].sent \ (torn \cup LinkedIn(tx[s]))
      BY <1>2, <2>1
  <2>3. graph[e] = After(tx[s], e, follow, rows, parent)
      BY <2>2 DEF GraphInv, SentRight
  <2>4. After(tx[s], e, follow', rows', parent')
          = After(tx[s], e, follow, rows, parent)
      BY <1>1, <2>1, <2>2, CommitApart
  <2> QED BY <1>2, <2>1, <2>3, <2>4
<1>8. LoadRight'
  <2>1. since \subseteq since'
        /\ (init \in {"read", "reset"} => LinkedIn(u) \subseteq since')
      BY <1>2 DEF Touch
  <2>2. ASSUME init \in {"read", "reset"}, NEW e \in Edges \ since'
        PROVE  snapshot'[e] = Image(e)'
    <3>1. e \notin u.sent /\ e \notin LinkedIn(u) /\ e \notin since
        BY <2>1, <2>2 DEF GraphInv, LoadRight
    <3>2. snapshot[e] = Image(e)
        BY <2>2, <3>1 DEF GraphInv, LoadRight
    <3> QED BY <1>2, <1>4, <3>1, <3>2
  <2>3. ASSUME init \in {"read", "reset"}, NEW s \in Sessions
        PROVE  tx'[s].sent \subseteq since'
    <3>1. tx'[s].sent \subseteq tx[s].sent
        BY <1>3, NoTxFields
    <3> QED BY <2>1, <2>3, <3>1 DEF GraphInv, LoadRight
  <2>4. ASSUME init = "reset", NEW e \in Edges \ since'
        PROVE  graph'[e] = 0
      BY <1>2, <2>1, <2>4 DEF GraphInv, LoadRight
  <2> QED BY <1>2, <2>2, <2>3, <2>4 DEF LoadRight
<1>9. GraphTrue'
  <2> SUFFICES ASSUME NEW e \in Edges, e \notin torn', e \notin InFlight'
               PROVE  graph'[e] = Image(e)'
      BY DEF GraphTrue
  <2>1. \A s \in Sessions \ {r} : e \notin tx[s].sent
    <3>1. \A s \in Sessions : e \notin tx'[s].sent
        BY DEF InFlight
    <3> QED BY <1>3, <3>1
  <2>2. e \notin torn /\ e \notin LinkedIn(u)
      BY <1>2
  <2>3. CASE e \in u.sent
    <3>1. graph[e] = After(u, e, follow, rows, parent)
        BY <2>2, <2>3 DEF GraphInv, SentRight
    <3> QED BY <1>1, <1>2, <3>1, CommitImage
  <2>4. CASE e \notin u.sent
    <3>1. e \notin torn \cup InFlight
        BY <2>1, <2>2, <2>4 DEF InFlight
    <3>2. graph[e] = Image(e)
        BY <3>1 DEF GraphInv, GraphTrue
    <3> QED BY <1>2, <1>4, <2>2, <2>4, <3>2
  <2> QED BY <2>3, <2>4
<1> QED BY <1>5, <1>6, <1>7, <1>8, <1>9 DEF GraphInv

LEMMA GraphRollback ==
    ASSUME GraphInv, LockInv', NEW r \in Sessions, DeadlockAbort(r) \/ Fail(r)
    PROVE  GraphInv'
<1>1. TxInv
    BY DEF GraphInv, LockInv
<1>2. /\ tx' = [tx EXCEPT ![r] = NoTx] /\ torn' = torn \cup tx[r].sent
      /\ UNCHANGED <<tables, graph, begun, load, since>>
    BY DEF DeadlockAbort, Fail, Rollback
<1>3. \A s \in Sessions : \/ tx'[s] = tx[s]
                          \/ tx'[s] = NoTx /\ tx[s].sent \subseteq torn'
    BY <1>1, <1>2, NoTxSound, TxUpdate
<1>4. UNCHANGED <<tables, graph>> /\ UNCHANGED <<init, snapshot, since>>
      /\ torn \subseteq torn'
    BY <1>2 DEF load
<1> QED BY <1>3, <1>4, TakenBackGraph

LEMMA GraphLoad ==
    ASSUME GraphInv, LockInv',
           \/ InitRead \/ InitReset \/ InitLoad \/ InitSynced \/ InitTryAgain
           \/ InitRetry \/ Restart
    PROVE  GraphInv'
<1>1. TxInv /\ graph \in [Edges -> Nat]
    BY DEF GraphInv, LockInv, TxInv, TypeOK
<1>2. CASE Restart
  <2> DEFINE lost == {r \in Sessions : tx[r].op \in {"follow", "unfollow"}}
  <2>1. /\ init' = "start" /\ UNCHANGED <<tables, graph, begun>>
        /\ tx' = [r \in Sessions |-> IF r \in lost THEN NoTx ELSE tx[r]]
        /\ torn' = torn \cup UNION {tx[r].sent : r \in lost}
      BY <1>2 DEF Restart
  <2>2. \A s \in Sessions : \/ tx'[s] = tx[s]
                            \/ tx'[s] = NoTx /\ tx[s].sent \subseteq torn'
      BY <2>1
  <2>3. init' \notin {"read", "reset"} /\ torn \subseteq torn'
        /\ UNCHANGED <<tables, graph>>
      BY <2>1
  <2> QED BY <2>2, <2>3, TakenBackGraph
<1>3. CASE InitSynced \/ InitTryAgain \/ InitRetry
  <2>1. /\ UNCHANGED <<tables, graph>> /\ torn \subseteq torn'
        /\ \A s \in Sessions : tx'[s] = tx[s]
        /\ init' \notin {"read", "reset"}
      BY <1>3 DEF InitSynced, InitTryAgain, InitRetry
  <2> QED BY <2>1, TakenBackGraph
<1>4. CASE InitRead \/ InitReset \/ InitLoad
  <2>1. UNCHANGED tables /\ tx' = tx
      BY <1>4 DEF InitRead, InitReset, InitLoad
  <2>2. ParentSound' /\ AddsNew'
      BY <2>1 DEF GraphInv, ParentSound, AddsNew, tables
  <2>3. SentRight' /\ GraphTrue' /\ LoadRight'
    <3>1. CASE InitRead
      <4>1. /\ graph' = graph /\ torn' = torn /\ init' = "read"
            /\ snapshot' = [e \in Edges |-> Image(e)]
            /\ \A s \in Sessions : tx[s].sent \subseteq since'
          BY <3>1 DEF InitRead
      <4>2. SentRight'
          BY <2>1, <4>1 DEF GraphInv, SentRight, tables
      <4>3. GraphTrue'
        <5>1. InFlight' = InFlight
            BY <2>1 DEF InFlight
        <5> QED BY <2>1, <4>1, <5>1, ImageSame DEF GraphInv, GraphTrue
      <4>4. LoadRight'
        <5>1. \A e \in Edges \ since' : snapshot'[e] = Image(e)'
            BY <2>1, <4>1, ImageSame
        <5>2. \A s \in Sessions : tx'[s].sent \subseteq since'
            BY <2>1, <4>1
        <5> QED BY <4>1, <5>1, <5>2 DEF LoadRight
      <4> QED BY <4>2, <4>3, <4>4
    <3>2. CASE InitReset
      <4>1. /\ init = "read" /\ init' = "reset" /\ graph' = NoEdges /\ torn' = Edges
            /\ snapshot' = snapshot /\ since' = since
          BY <3>2 DEF InitReset
      <4>2. \A s \in Sessions : tx'[s].sent \subseteq Edges
          BY <1>1, <2>1 DEF TxInv, TypeOK, Tx
      <4>3. SentRight' /\ GraphTrue'
          BY <4>1, <4>2 DEF SentRight, GraphTrue
      <4>4. LoadRight'
        <5>1. \A e \in Edges \ since' : snapshot'[e] = Image(e)'
            BY <2>1, <4>1, ImageSame DEF GraphInv, LoadRight
        <5>2. \A s \in Sessions : tx'[s].sent \subseteq since'
            BY <2>1, <4>1 DEF GraphInv, LoadRight
        <5>3. \A e \in Edges : graph'[e] = 0
            BY <4>1 DEF NoEdges
        <5> QED BY <5>1, <5>2, <5>3 DEF LoadRight
      <4> QED BY <4>3, <4>4
    <3>3. CASE InitLoad
      <4> DEFINE extra == {e \in Edges : snapshot[e] = 0 /\ graph[e] # 0}
      <4>1. /\ init = "reset" /\ init' = "loaded" /\ torn' = since
            /\ \E kept \in {{}, extra} :
                 graph' = [e \in Edges |-> IF e \in kept THEN graph[e]
                                           ELSE snapshot[e]]
          BY <3>3 DEF InitLoad
      <4>2. /\ \A s \in Sessions : tx[s].sent \subseteq since
            /\ \A e \in Edges \ since : snapshot[e] = Image(e) /\ graph[e] = 0
          BY <4>1 DEF GraphInv, LoadRight
      <4>3. \A e \in Edges \ since : graph'[e] = Image(e)
          BY <4>1, <4>2
      <4>4. SentRight'
          BY <2>1, <4>1, <4>2 DEF SentRight
      <4>5. GraphTrue'
          BY <2>1, <4>1, <4>3, ImageSame DEF GraphTrue
      <4>6. LoadRight'
          BY <4>1 DEF LoadRight
      <4> QED BY <4>4, <4>5, <4>6
    <3> QED BY <1>4, <3>1, <3>2, <3>3
  <2> QED BY <2>2, <2>3 DEF GraphInv
<1> QED BY <1>2, <1>3, <1>4

LEMMA GraphInit == Init => GraphInv
<1> SUFFICES ASSUME Init
             PROVE  GraphInv
    OBVIOUS
<1>1. \A r \in Sessions : tx[r] = NoTx
    BY DEF Init
<1>2. \A a, x, R, P : R = {} => Weight(a, x, R, P) = 0
  <2> SUFFICES ASSUME NEW a, NEW x, NEW P
               PROVE  Weight(a, x, {}, P) = 0
      OBVIOUS
  <2>1. {x} \cap {} = {} /\ {c \in {} \cap Comments :
                              Author[c] = a /\ (On[c] = x \/ P[c] = x)} = {}
      OBVIOUS
  <2> QED BY <2>1, FS_EmptySet DEF Weight
<1>3. \A e \in Edges : Image(e) = 0 /\ graph[e] = 0
    BY <1>2 DEF Init, Image, NoEdges
<1>4. ParentSound
    BY DEF Init, ParentSound, Orphans
<1>5. LoadRight
    BY DEF Init, LoadRight
<1> QED BY <1>1, <1>3, <1>4, <1>5, LockInit, NoTxFields
        DEF GraphInv, AddsNew, SentRight, GraphTrue

LEMMA GraphStep == GraphInv /\ [Next]_vars => GraphInv'
<1> SUFFICES ASSUME GraphInv, [Next]_vars
             PROVE  GraphInv'
    OBVIOUS
<1>1. LockInv'
    BY LockStep DEF GraphInv
<1>2. CASE UNCHANGED vars
  <2>1. /\ UNCHANGED <<tables, graph>> /\ torn \subseteq torn'
        /\ \A s \in Sessions : tx'[s] = tx[s]
        /\ UNCHANGED <<init, snapshot, since>>
      BY <1>2 DEF vars, tables
  <2> QED BY <1>1, <2>1, TakenBackGraph
<1> QED BY <1>1, <1>2, GraphBegin, GraphBump, GraphFollow, GraphUnfollow, GraphUpsert,
           GraphCommit, GraphRollback, GraphLoad DEF Next

\* Outside the edges that the model names as torn and those of transactions in
\* progress, the graph is what the tables say (GraphTrue), however the follows,
\* the crawler's batches and the bulk load interleave, fail and restart: that
\* every trigger sends an absolute value of what it alone can see is enough,
\* because the counter of an author makes those who change an edge take turns
\* (schema/ddl.py 34-41, 121-154, 235-250, 402-498).
THEOREM GraphIsTrue == Spec => []GraphTrue
<1>1. GraphInv => GraphTrue
    BY DEF GraphInv
<1> QED BY <1>1, GraphInit, GraphStep, PTL DEF Spec

-----------------------------------------------------------------------------
(* What the bulk load repairs.                                               *)

LEMMA LoadEnds ==
    ASSUME GraphInv, [Next]_vars, init = "reset", init' = "loaded"
    PROVE  \A e \in Edges \ since : graph'[e] = Image(e)'
<1>1. InitLoad
    BY DEF Next, BeginFollow, BeginUnfollow, BeginBatch, Begin, Bump, WriteFollow,
           WriteUnfollow, Upsert, Send, Commit, DeadlockAbort, Fail, Rollback, load,
           InitRead, InitReset, InitSynced, InitTryAgain, InitRetry, Restart, vars
<1>2. \A e \in Edges : Image(e)' = Image(e)
    BY <1>1, ImageSame DEF InitLoad
<1>3. \A e \in Edges \ since : snapshot[e] = Image(e) /\ graph[e] = 0
    BY <1>1 DEF InitLoad, GraphInv, LoadRight
<1>4. \A e \in Edges : snapshot[e] # 0 \/ graph[e] = 0 => graph'[e] = snapshot[e]
    BY <1>1 DEF InitLoad
<1> QED BY <1>2, <1>3, <1>4

\* The load heals: at its end every edge that no transaction has touched since
\* its query is what the tables say (LoadHeals), those of rolled back
\* transactions and of re-parented comments included, although the query, the
\* reset and the load are three calls and the triggers send in between
\* (schema/ddl.py 402-498).
THEOREM BulkLoadHeals == Spec => LoadHeals
<1>1. GraphInv /\ [Next]_vars
        => [init = "reset" /\ init' = "loaded"
              => \A e \in Edges \ since : graph'[e] = Image(e)']_vars
    BY LoadEnds
<1> QED BY <1>1, GraphInit, GraphStep, PTL DEF Spec, LoadHeals

\* A load that no transaction runs beside has nothing to miss.
NothingMissed == init \in {"read", "reset"} => since = {}

LEMMA QuietStep ==
    ASSUME GraphInv, [Next]_vars, NothingMissed, QuietLoad, QuietLoad'
    PROVE  NothingMissed'
<1> SUFFICES ASSUME init' \in {"read", "reset"}
             PROVE  since' = {}
    BY DEF NothingMissed
<1>1. CASE InitRead
  <2>1. \A r \in Sessions : tx[r].at = "idle" /\ Sound(tx[r])
      BY <1>1 DEF QuietLoad, InitRead, GraphInv, LockInv, TxInv
  <2>2. \A r \in Sessions : tx[r].sent = {} /\ Linked(r) = {}
      BY <2>1 DEF Sound, Linked
  <2> QED BY <1>1, <2>2 DEF InitRead
<1>2. CASE init \in {"read", "reset"}
  <2>1. since = {} /\ \A r \in Sessions : tx[r].at = "idle"
      BY <1>2 DEF NothingMissed, QuietLoad
  <2> QED BY <1>2, <2>1
      DEF Next, BeginFollow, BeginUnfollow, BeginBatch, Begin, Bump, WriteFollow,
          WriteUnfollow, Upsert, Commit, DeadlockAbort, Fail, Rollback, load,
          InitRead, InitReset, InitLoad, InitSynced, InitTryAgain, InitRetry,
          Restart, vars
<1>3. CASE ~InitRead /\ init \notin {"read", "reset"}
  <2>1. init' # init
      BY <1>3
  <2>2. ASSUME NEW r \in Sessions,
               BeginFollow(r) \/ BeginUnfollow(r) \/ BeginBatch(r) \/ Commit(r)
                 \/ DeadlockAbort(r) \/ Fail(r)
        PROVE  FALSE
      BY <2>1, <2>2 DEF BeginFollow, BeginUnfollow, BeginBatch, Begin, Commit,
         DeadlockAbort, Fail, Rollback, load
  <2>3. ASSUME NEW r \in Sessions,
               Bump(r) \/ WriteFollow(r) \/ WriteUnfollow(r) \/ Upsert(r)
        PROVE  FALSE
      BY <2>1, <2>3 DEF Bump, WriteFollow, WriteUnfollow, Upsert, Send, load
  <2>4. InitReset \/ InitLoad \/ InitSynced \/ InitTryAgain \/ InitRetry \/ Restart
      BY <1>3, <2>1, <2>2, <2>3 DEF Next, vars
  <2> QED BY <1>3, <2>4
          DEF InitReset, InitLoad, InitSynced, InitTryAgain, InitRetry, Restart
<1> QED BY <1>1, <1>2, <1>3

\* What is true of config.py:57: a bulk load that no transaction runs beside ends
\* with the graph of the tables (LoadReloads).  The hypothesis is about the time
\* between the query and the load alone; GraphReloaded, without it, is violated
\* (schema/ddl.py 402-498).
THEOREM QuietLoadReloads == Spec /\ []QuietLoad => LoadReloads
<1>1. Init => NothingMissed
    BY DEF Init, NothingMissed
<1>2. GraphInv /\ [Next]_vars /\ NothingMissed /\ QuietLoad /\ QuietLoad'
        => NothingMissed'
    BY QuietStep
<1>3. GraphInv /\ [Next]_vars /\ NothingMissed
        => [init = "reset" /\ init' = "loaded"
              => \A e \in Edges : graph'[e] = Image(e)']_vars
    BY LoadEnds DEF NothingMissed
<1> QED BY <1>1, <1>2, <1>3, GraphInit, GraphStep, PTL DEF Spec, LoadReloads

=============================================================================
