-------------------------- MODULE CommentFetchProofs --------------------------
(* Theorems about CommentFetch, for any number of comments and answers of any *)
(* form: the order in which the rows of an answer are stored, the links that  *)
(* they keep, and what the counters say about the lake.                       *)
EXTENDS CommentFetch, DataLemmas

-----------------------------------------------------------------------------
(* Kahn's algorithm.  What is proved of a queue that is computed round by     *)
(* round is proved by induction over the rounds (AllOfNat); that the function *)
(* of the rounds exists at all is RecursionExists.                            *)

\* No two rows have the same id.
Apart(rows) == \A i, j \in DOMAIN rows : rows[i].id = rows[j].id => i = j

\* After i rounds q has rows of the answer, each once, a reply after what it
\* answers and the replies of the first i rows; it began with the roots.
Queued(rows, q, i) ==
    /\ q \in Seq(Members(rows))
    /\ Once(q)
    /\ \A k \in 1 .. Len(q) : q[k].parent \in Ids(rows) =>
         \E j \in 1 .. k - 1 : j <= i /\ q[j].id = q[k].parent
    /\ \A j \in 1 .. Len(q) : j <= i => Replies(rows, q[j].id) \subseteq Members(q)
    /\ Roots(rows) \subseteq Members(q)

LEMMA RowFacts ==
    ASSUME NEW rows \in Seq(Row)
    PROVE  /\ Len(rows) \in Nat /\ DOMAIN rows = 1 .. Len(rows)
           /\ Members(rows) \subseteq Row /\ rows \in Seq(Members(rows))
           /\ Ids(rows) \subseteq Comments
           /\ \A row \in Members(rows) : row.id \in Ids(rows)
<1>1. Len(rows) \in Nat /\ DOMAIN rows = 1 .. Len(rows)
    OBVIOUS
<1>2. \A i \in 1 .. Len(rows) : rows[i] \in Row
    OBVIOUS
<1>3. Members(rows) \subseteq Row
    BY <1>1, <1>2 DEF Members
<1>4. rows \in Seq(Members(rows))
  <2>1. rows = [i \in 1 .. Len(rows) |-> rows[i]]
      BY <1>1
  <2>2. \A i \in 1 .. Len(rows) : rows[i] \in Members(rows)
      BY <1>1 DEF Members
  <2> QED BY <1>1, <2>1, <2>2, IsASeq
<1> QED BY <1>1, <1>3, <1>4 DEF Ids, Row

LEMMA ApartFacts ==
    ASSUME NEW rows \in Seq(Row), Apart(rows)
    PROVE  /\ Once(rows)
           /\ \A p, q \in Members(rows) : p.id = q.id => p = q
BY DEF Apart, Once, Members

LEMMA KahnStart ==
    ASSUME NEW rows \in Seq(Row), Apart(rows)
    PROVE  Queued(rows, Among(rows, Roots(rows)), 0)
<1> DEFINE q == Among(rows, Roots(rows))
<1>1. rows \in Seq(Members(rows)) /\ Once(rows)
    BY RowFacts, ApartFacts
<1>2. /\ q \in Seq(Members(rows)) /\ Once(q)
      /\ Members(q) = Members(rows) \cap Roots(rows)
    BY <1>1, AmongMembers
<1> HIDE DEF q
<1>3. Members(q) = Roots(rows)
    BY <1>2 DEF Roots
<1>4. \A k \in 1 .. Len(q) : q[k].parent \notin Ids(rows)
  <2>1. \A k \in 1 .. Len(q) : q[k] \in Members(q)
      BY <1>2 DEF Members
  <2> QED BY <1>3, <2>1 DEF Roots
<1>5. \A j \in 1 .. Len(q) : ~(j <= 0)
    BY <1>2
<1> QED BY <1>2, <1>3, <1>4, <1>5 DEF Queued, q

LEMMA KahnRound ==
    ASSUME NEW rows \in Seq(Row), Apart(rows), NEW i \in Nat, NEW q,
           Queued(rows, q, i)
    PROVE  Queued(rows, Taken(rows, q, i + 1), i + 1)
<1> DEFINE m == i + 1
           N == Len(q)
<1>1. /\ q \in Seq(Members(rows)) /\ Once(q) /\ N \in Nat /\ DOMAIN q = 1 .. N
      /\ \A k \in 1 .. N : q[k] \in Members(q) /\ q[k] \in Members(rows)
    BY DEF Queued, Members
<1>2. m \in Nat /\ i < m /\ m # 0 /\ \A j \in Nat : j <= m <=> j <= i \/ j = m
    OBVIOUS
<1>3. CASE m > N
  <2>1. Taken(rows, q, m) = q
      BY <1>3 DEF Taken
  <2>2. \A j \in 1 .. N : j <= i
      BY <1>1, <1>2, <1>3
  <2>3. \A k \in 1 .. N : \A j \in 1 .. k - 1 : j \in 1 .. N /\ j <= m
      BY <1>1, <1>2, <1>3
  <2> QED BY <1>1, <2>1, <2>2, <2>3 DEF Queued
<1>4. CASE ~(m > N)
  <2> DEFINE c == q[m].id
             w == Among(rows, Replies(rows, c))
             t == q \o w
             W == Len(w)
  <2>0. m \in 1 .. N
      BY <1>1, <1>2, <1>4
  <2>1. Taken(rows, q, m) = t
      BY <1>4 DEF Taken
  <2>2. rows \in Seq(Members(rows)) /\ Once(rows)
        /\ \A p, r \in Members(rows) : p.id = r.id => p = r
      BY RowFacts, ApartFacts
  <2>3. /\ w \in Seq(Members(rows)) /\ Once(w)
        /\ Members(w) = Members(rows) \cap Replies(rows, c)
      BY <2>2, AmongMembers
  <2>4. c \in Ids(rows)
      BY <1>1, <2>0, RowFacts
  <2> HIDE DEF c, w
  <2>5. Members(w) = Replies(rows, c) /\ W \in Nat /\ DOMAIN w = 1 .. W
      BY <2>3 DEF Replies
  <2>6. /\ t \in Seq(Members(rows)) /\ Len(t) = N + W /\ DOMAIN t = 1 .. N + W
        /\ \A k \in 1 .. N : t[k] = q[k]
        /\ \A k \in 1 .. N + W : k > N => t[k] = w[k - N]
      BY <1>1, <2>3, <2>5, ConcatProperties
  <2> HIDE DEF t, N, W, m
  <2>7. \A k \in 1 .. N + W : k > N => k - N \in 1 .. W /\ w[k - N] \in Members(w)
    <3>1. N \in Nat /\ W \in Nat
        BY <1>1, <2>5
    <3>2. \A k \in 1 .. N + W : k > N => k - N \in 1 .. W
        BY <3>1
    <3>3. \A k \in 1 .. W : w[k] \in Members(w)
        BY <2>5 DEF Members
    <3> QED BY <3>2, <3>3
  <2>8. \A k \in 1 .. N + W : k > N => t[k] \in Replies(rows, c)
      BY <2>5, <2>6, <2>7
  <2>9. Members(q) \subseteq Members(t)
    <3>1. \A k \in 1 .. N : k \in 1 .. N + W
        BY <1>1, <2>5
    <3> QED BY <1>1, <2>6, <3>1 DEF Members
  <2>10. Members(w) \subseteq Members(t)
    <3>1. \A k \in 1 .. W : k + N \in 1 .. N + W /\ k + N > N /\ (k + N) - N = k
        BY <1>1, <2>5
    <3> QED BY <2>5, <2>6, <3>1 DEF Members
\* A reply is in the queue only if what it answers was taken in an earlier round.
  <2>11. ASSUME NEW k \in 1 .. N, q[k].parent = c
         PROVE  FALSE
    <3>1. PICK j \in 1 .. k - 1 : j <= i /\ q[j].id = q[k].parent
        BY <2>4, <2>11 DEF Queued, N
    <3>2. j \in 1 .. N /\ j # m
        BY <1>1, <1>2, <3>1
    <3>3. q[j] = q[m]
        BY <1>1, <2>0, <2>2, <2>11, <3>1, <3>2 DEF c
    <3> QED BY <1>1, <2>0, <3>2, <3>3 DEF Once
  <2>12. Once(t)
    <3> SUFFICES ASSUME NEW k \in 1 .. N + W, NEW l \in 1 .. N + W, t[k] = t[l]
                 PROVE  k = l
        BY <2>6 DEF Once
    <3>1. CASE k <= N /\ l <= N
      <4>1. k \in 1 .. N /\ l \in 1 .. N
          BY <1>1, <3>1
      <4> QED BY <1>1, <2>6, <4>1 DEF Once
    <3>2. CASE k > N /\ l > N
      <4>1. k - N \in 1 .. W /\ l - N \in 1 .. W
          BY <2>7, <3>2
      <4>2. w[k - N] = w[l - N]
          BY <2>6, <3>2
      <4>3. k - N = l - N
          BY <2>3, <2>5, <4>1, <4>2 DEF Once
      <4> QED BY <1>1, <2>5, <4>3
    <3>3. CASE k <= N /\ l > N
      <4>1. k \in 1 .. N /\ t[k] = q[k] /\ t[l].parent = c
          BY <1>1, <2>6, <2>8, <3>3 DEF Replies
      <4> QED BY <2>11, <4>1
    <3>4. CASE k > N /\ l <= N
      <4>1. l \in 1 .. N /\ t[l] = q[l] /\ t[k].parent = c
          BY <1>1, <2>6, <2>8, <3>4 DEF Replies
      <4> QED BY <2>11, <4>1
    <3> QED BY <1>1, <2>5, <3>1, <3>2, <3>3, <3>4
  <2>13. ASSUME NEW k \in 1 .. N + W, t[k].parent \in Ids(rows)
         PROVE  \E j \in 1 .. k - 1 : j <= m /\ t[j].id = t[k].parent
    <3>1. CASE k <= N
      <4>1. k \in 1 .. N /\ t[k] = q[k]
          BY <1>1, <2>6, <3>1
      <4>2. PICK j \in 1 .. k - 1 : j <= i /\ q[j].id = q[k].parent
          BY <2>13, <4>1 DEF Queued, N
      <4>3. j \in 1 .. N /\ j <= m
          BY <1>1, <1>2, <4>1, <4>2
      <4> QED BY <2>6, <4>1, <4>2, <4>3
    <3>2. CASE k > N
      <4>1. m \in 1 .. k - 1 /\ m <= m
          BY <1>1, <1>2, <2>0, <3>2
      <4>2. t[m].id = c /\ t[k].parent = c
          BY <2>0, <2>6, <2>8, <3>2 DEF Replies, c
      <4> QED BY <4>1, <4>2
    <3> QED BY <1>1, <2>5, <3>1, <3>2
  <2>14. ASSUME NEW j \in 1 .. N + W, j <= m
         PROVE  Replies(rows, t[j].id) \subseteq Members(t)
    <3>1. j \in 1 .. N /\ t[j] = q[j]
        BY <1>1, <1>2, <2>0, <2>6, <2>14
    <3>2. CASE j = m
        BY <2>5, <2>10, <3>1, <3>2 DEF c
    <3>3. CASE j <= i
        BY <2>9, <3>1, <3>3 DEF Queued, N
    <3> QED BY <1>2, <2>14, <3>2, <3>3
  <2>15. Roots(rows) \subseteq Members(t)
      BY <2>9 DEF Queued
  <2>16. Queued(rows, t, m)
      BY <2>6, <2>12, <2>13, <2>14, <2>15 DEF Queued
  <2> QED BY <2>1, <2>16 DEF m
<1> QED BY <1>3, <1>4

LEMMA KahnEnds ==
    ASSUME NEW rows \in Seq(Row), Apart(rows)
    PROVE  Queued(rows, Kahn(rows), Len(rows))
<1> DEFINE N == Len(rows)
           D == Seq(Members(rows))
           start == Among(rows, Roots(rows))
           Rounds(f) == f = [i \in 0 .. N |->
                               IF i = 0 THEN start ELSE Taken(rows, f[i - 1], i)]
           queue == CHOOSE f : Rounds(f)
           G == [p \in Nat \X D |->
                   IF Taken(rows, p[2], p[1]) \in D THEN Taken(rows, p[2], p[1])
                   ELSE start]
<1>1. N \in Nat /\ start \in D
    BY RowFacts, AmongMembers
<1>2. \A i \in Nat : \A q \in D : Taken(rows, q, i) \in D
  <2> SUFFICES ASSUME NEW i \in Nat, NEW q \in D
               PROVE  Taken(rows, q, i) \in D
      OBVIOUS
  <2>1. CASE i > Len(q)
      BY <2>1 DEF Taken
  <2>2. CASE ~(i > Len(q))
    <3> DEFINE w == Among(rows, Replies(rows, q[i].id))
    <3>1. rows \in D
        BY RowFacts
    <3>2. w \in D
        BY <3>1, AmongMembers
    <3>3. Taken(rows, q, i) = q \o w
        BY <2>2 DEF Taken
    <3> HIDE DEF w
    <3> QED BY <3>2, <3>3, ConcatProperties
  <2> QED BY <2>1, <2>2
<1>3. \E f : Rounds(f)
  <2>1. G \in [Nat \X D -> D]
      BY <1>1
  <2> HIDE DEF G, D, N, start
  <2>2. PICK f \in [0 .. N -> D] : Recurs(f, N, start, G)
      BY <1>1, <2>1, RecursionExists
  <2>3. f[0] = start
      BY <2>2 DEF Recurs
  <2>4. ASSUME NEW i \in 1 .. N
        PROVE  f[i] = Taken(rows, f[i - 1], i)
    <3>1. i - 1 \in 0 .. N /\ i \in Nat /\ f[i - 1] \in D
        BY <1>1
    <3>2. Taken(rows, f[i - 1], i) \in D
        BY <1>2, <3>1
    <3>3. f[i] = G[<<i, f[i - 1]>>]
        BY <2>2 DEF Recurs
    <3>4. <<i, f[i - 1]>> \in Nat \X D
        BY <3>1
    <3>5. G[<<i, f[i - 1]>>] = Taken(rows, f[i - 1], i)
        BY <3>2, <3>4 DEF G
    <3> QED BY <3>3, <3>5
  <2>5. \A i \in 0 .. N : i # 0 => i \in 1 .. N
      BY <1>1
  <2>6. \A i \in 0 .. N : f[i] = IF i = 0 THEN start ELSE Taken(rows, f[i - 1], i)
      BY <2>3, <2>4, <2>5
  <2> QED BY <2>6
<1>4. Rounds(queue)
  <2> HIDE DEF Rounds
  <2> QED BY <1>3
<1>5. Kahn(rows) = queue[N]
    BY DEF Kahn
<1>6. queue[0] = start /\ \A i \in 1 .. N : queue[i] = Taken(rows, queue[i - 1], i)
  <2>1. 0 \in 0 .. N /\ \A i \in 1 .. N : i \in 0 .. N /\ i # 0
      BY <1>1
  <2> HIDE DEF queue, start, N
  <2> QED BY <1>4, <2>1
<1> HIDE DEF queue, Rounds, G, D
<1> DEFINE T == {i \in Nat : i <= N => Queued(rows, queue[i], i)}
<1>7. 0 \in T
    BY <1>6, KahnStart
<1>8. ASSUME NEW i \in T
      PROVE  i + 1 \in T
  <2>1. i \in Nat /\ i + 1 \in Nat
      OBVIOUS
  <2> SUFFICES ASSUME i + 1 <= N
               PROVE  Queued(rows, queue[i + 1], i + 1)
      BY <2>1
  <2>2. i <= N /\ i + 1 \in 1 .. N /\ (i + 1) - 1 = i
      BY <1>1, <2>1
  <2>3. Queued(rows, queue[i], i)
      BY <2>2
  <2>4. queue[i + 1] = Taken(rows, queue[i], i + 1)
      BY <1>6, <2>2
  <2> QED BY <2>1, <2>3, <2>4, KahnRound
<1>9. T = Nat
  <2>1. T \in SUBSET Nat
      OBVIOUS
  <2> HIDE DEF T
  <2> QED BY <1>7, <1>8, <2>1, AllOfNat
<1>10. N \in T /\ N <= N
  <2> HIDE DEF T
  <2> QED BY <1>1, <1>9
<1> QED BY <1>5, <1>10

\* The queue has at most as many rows as the answer, so that all of them have
\* been taken when the loop ends.
LEMMA KahnTakesAll ==
    ASSUME NEW rows \in Seq(Row), Apart(rows)
    PROVE  /\ Kahn(rows) \in Seq(Members(rows)) /\ Once(Kahn(rows))
           /\ \A row \in Members(Kahn(rows)) :
                Replies(rows, row.id) \subseteq Members(Kahn(rows))
           /\ Roots(rows) \subseteq Members(Kahn(rows))
           /\ \A k \in 1 .. Len(Kahn(rows)) : Kahn(rows)[k].parent \in Ids(rows) =>
                \E j \in 1 .. k - 1 : Kahn(rows)[j].id = Kahn(rows)[k].parent
<1> DEFINE q == Kahn(rows)
<1>1. Queued(rows, q, Len(rows))
    BY KahnEnds
<1>2. rows \in Seq(Members(rows)) /\ Once(rows) /\ Len(rows) \in Nat
    BY RowFacts, ApartFacts
<1> HIDE DEF q
<1>3. q \in Seq(Members(rows)) /\ Once(q) /\ Len(q) \in Nat /\ DOMAIN q = 1 .. Len(q)
    BY <1>1 DEF Queued
<1>4. Members(q) \subseteq Members(rows)
    BY <1>3 DEF Members
<1>5. Len(q) <= Len(rows)
  <2>1. Cardinality(Members(q)) = Len(q)
      BY <1>3, OnceLength
  <2>2. Cardinality(Members(rows)) = Len(rows) /\ IsFiniteSet(Members(rows))
      BY <1>2, OnceLength
  <2>3. Cardinality(Members(q)) <= Cardinality(Members(rows))
      BY <1>4, <2>2, FS_Subset
  <2> QED BY <2>1, <2>2, <2>3
<1>6. ASSUME NEW row \in Members(q)
      PROVE  Replies(rows, row.id) \subseteq Members(q)
  <2>1. PICK j \in 1 .. Len(q) : row = q[j]
      BY <1>3 DEF Members
  <2>2. j <= Len(rows)
      BY <1>2, <1>3, <1>5
  <2> QED BY <1>1, <2>1, <2>2 DEF Queued
<1> QED BY <1>1, <1>3, <1>6 DEF Queued, q

\* Ids S of the answer whose rows all answer one of S.
Closed(rows, S) == /\ S \subseteq Ids(rows)
                   /\ \A row \in Members(rows) : row.id \in S => row.parent \in S

\* What Kahn's algorithm reaches leads back to a root ...
LEMMA ReachedHasRoot ==
    ASSUME NEW rows \in Seq(Row), Apart(rows),
           NEW row \in Members(Kahn(rows)), NEW S, Closed(rows, S)
    PROVE  row.id \notin S
<1> DEFINE q == Kahn(rows)
<1>1. /\ q \in Seq(Members(rows))
      /\ \A k \in 1 .. Len(q) : q[k].parent \in Ids(rows) =>
           \E j \in 1 .. k - 1 : q[j].id = q[k].parent
    BY KahnTakesAll
<1> HIDE DEF q
<1>2. Len(q) \in Nat /\ DOMAIN q = 1 .. Len(q)
      /\ \A k \in 1 .. Len(q) : q[k] \in Members(rows)
    BY <1>1
<1> DEFINE T == {k \in 1 .. Len(q) : q[k].id \in S}
<1>3. T \in SUBSET Nat
    BY <1>2
<1> SUFFICES ASSUME row.id \in S
             PROVE  FALSE
    OBVIOUS
<1>4. T # {}
  <2>1. PICK k \in 1 .. Len(q) : row = q[k]
      BY <1>2 DEF Members, q
  <2> QED BY <2>1
<1>5. PICK k \in T : \A j \in T : k <= j
  <2> HIDE DEF T
  <2> QED BY <1>3, <1>4, LeastOf
<1>6. q[k].parent \in S /\ q[k].parent \in Ids(rows)
    BY <1>2 DEF Closed
<1>7. PICK j \in 1 .. k - 1 : q[j].id = q[k].parent
    BY <1>1, <1>6
<1>8. j \in T /\ ~(k <= j)
    BY <1>2, <1>6, <1>7
<1> QED BY <1>5, <1>8

\* ... and the rows that it does not reach answer one another.
LEMMA LeftIsClosed ==
    ASSUME NEW rows \in Seq(Row), Apart(rows)
    PROVE  Closed(rows, Ids(rows) \ Ids(Kahn(rows)))
<1> DEFINE q == Kahn(rows)
<1>1. /\ q \in Seq(Members(rows))
      /\ \A row \in Members(q) : Replies(rows, row.id) \subseteq Members(q)
      /\ Roots(rows) \subseteq Members(q)
    BY KahnTakesAll
<1> HIDE DEF q
<1>2. Members(q) \subseteq Members(rows)
    BY <1>1 DEF Members
<1> SUFFICES ASSUME NEW row \in Members(rows), row.id \notin Ids(q)
             PROVE  row.parent \in Ids(rows) /\ row.parent \notin Ids(q)
    BY DEF Closed, q
<1>3. row \notin Members(q)
    BY DEF Ids
<1>4. row.parent \in Ids(rows)
    BY <1>1, <1>3 DEF Roots
<1>5. row.parent \notin Ids(q)
  <2> SUFFICES ASSUME NEW above \in Members(q), row.parent = above.id
               PROVE  FALSE
      BY DEF Ids
  <2>1. row \in Replies(rows, above.id)
      BY DEF Replies
  <2> QED BY <1>1, <1>3, <2>1
<1> QED BY <1>4, <1>5

\* The rows as they are upserted: those of the answer, each once.  One that leads
\* back to a root keeps its parent, which comes first if it is in the answer; the
\* others have none.
LEMMA SortedRows ==
    ASSUME NEW rows \in Seq(Row), Apart(rows), NEW z, z = Sorted(rows)
    PROVE  /\ z \in Seq(Row) /\ Apart(z) /\ Ids(z) = Ids(rows)
           /\ \A k \in 1 .. Len(z) :
                \/ /\ z[k] \in Members(rows)
                   /\ \A S : Closed(rows, S) => z[k].id \notin S
                   /\ z[k].parent \in Ids(rows) =>
                        \E j \in 1 .. k - 1 : z[j].id = z[k].parent
                \/ /\ z[k].parent = None
                   /\ \E S : Closed(rows, S) /\ z[k].id \in S
<1> DEFINE q == Kahn(rows)
           v == Left(rows)
           w == [i \in 1 .. Len(v) |-> [v[i] EXCEPT !.parent = None]]
           M == Len(q)
           L == Len(v)
<1>1. /\ Members(rows) \subseteq Row /\ rows \in Seq(Members(rows)) /\ Once(rows)
      /\ \A p, r \in Members(rows) : p.id = r.id => p = r
    BY RowFacts, ApartFacts
<1>2. /\ q \in Seq(Members(rows)) /\ Once(q)
      /\ \A k \in 1 .. Len(q) : q[k].parent \in Ids(rows) =>
           \E j \in 1 .. k - 1 : q[j].id = q[k].parent
    BY KahnTakesAll
<1>3. /\ v \in Seq(Members(rows)) /\ Once(v)
      /\ Members(v) = {row \in Members(rows) : row.id \notin Ids(q)}
  <2> DEFINE B == {row \in Members(rows) : row.id \notin Ids(q)}
  <2>1. v = Among(rows, B)
      BY DEF Left
  <2> HIDE DEF B, v, q
  <2>2. v \in Seq(Members(rows)) /\ Once(v) /\ Members(v) = Members(rows) \cap B
      BY <1>1, <2>1, AmongMembers
  <2> QED BY <2>2 DEF B
<1>4. \A S : Closed(rows, S) => \A row \in Members(q) : row.id \notin S
    BY ReachedHasRoot
<1>5. Closed(rows, Ids(rows) \ Ids(q))
    BY LeftIsClosed
<1>6. z = q \o w
    BY DEF Sorted
<1> HIDE DEF q, v
<1>7. /\ M \in Nat /\ DOMAIN q = 1 .. M /\ \A k \in 1 .. M : q[k] \in Members(rows)
      /\ \A k \in 1 .. M : q[k] \in Members(q)
      /\ L \in Nat /\ DOMAIN v = 1 .. L /\ \A k \in 1 .. L : v[k] \in Members(v)
    BY <1>2, <1>3 DEF Members
<1>8. \A k \in 1 .. L : /\ v[k] \in Members(rows) /\ v[k] \in Row
                        /\ v[k].id \in Ids(rows) /\ v[k].id \notin Ids(q)
    BY <1>1, <1>3, <1>7 DEF Ids
<1>9. \A k \in 1 .. L : w[k] \in Row /\ w[k].id = v[k].id /\ w[k].parent = None
    BY <1>8 DEF Row
<1>10. w \in Seq(Row) /\ Len(w) = L /\ DOMAIN w = 1 .. L
  <2>1. DOMAIN w = 1 .. L /\ w = [k \in 1 .. L |-> w[k]]
      OBVIOUS
  <2> HIDE DEF w, L
  <2> QED BY <1>7, <1>9, <2>1, IsASeq, LenProperties
<1>11. q \in Seq(Row)
    BY <1>1, <1>2, SeqMonotonic
<1> HIDE DEF w
<1>12. /\ z \in Seq(Row) /\ Len(z) = M + L /\ DOMAIN z = 1 .. M + L
       /\ \A k \in 1 .. M : z[k] = q[k]
       /\ \A k \in 1 .. M + L : k > M => z[k] = w[k - M]
    BY <1>6, <1>7, <1>10, <1>11, ConcatProperties
<1> HIDE DEF M, L
<1>13. \A k \in 1 .. M + L : k > M => k - M \in 1 .. L
    BY <1>7
<1>14. \A k \in 1 .. M + L : k <= M => k \in 1 .. M
    BY <1>7
<1>15. \A k \in 1 .. M : q[k].id \in Ids(q) /\ q[k].id \in Ids(rows)
    BY <1>7 DEF Ids
<1>16. Apart(z)
  <2> SUFFICES ASSUME NEW i \in 1 .. M + L, NEW j \in 1 .. M + L, z[i].id = z[j].id
               PROVE  i = j
      BY <1>12 DEF Apart
  <2>1. CASE i <= M /\ j <= M
    <3>1. i \in 1 .. M /\ j \in 1 .. M /\ q[i].id = q[j].id
        BY <1>12, <1>14, <2>1
    <3>2. q[i] = q[j]
        BY <1>1, <1>7, <3>1
    <3> QED BY <1>2, <1>7, <3>1, <3>2 DEF Once
  <2>2. CASE i > M /\ j > M
    <3>1. i - M \in 1 .. L /\ j - M \in 1 .. L
        BY <1>13, <2>2
    <3>2. z[i] = w[i - M] /\ z[j] = w[j - M]
        BY <1>12, <2>2
    <3>3. v[i - M].id = v[j - M].id
        BY <1>9, <3>1, <3>2
    <3>4. v[i - M] = v[j - M]
        BY <1>1, <1>8, <3>1, <3>3
    <3>5. i - M = j - M
        BY <1>3, <1>7, <3>1, <3>4 DEF Once
    <3> QED BY <1>7, <3>5
  <2>3. CASE i <= M /\ j > M
    <3>1. i \in 1 .. M /\ j - M \in 1 .. L /\ z[i] = q[i] /\ z[j] = w[j - M]
        BY <1>12, <1>13, <1>14, <2>3
    <3> QED BY <1>8, <1>9, <1>15, <3>1
  <2>4. CASE i > M /\ j <= M
    <3>1. j \in 1 .. M /\ i - M \in 1 .. L /\ z[j] = q[j] /\ z[i] = w[i - M]
        BY <1>12, <1>13, <1>14, <2>4
    <3> QED BY <1>8, <1>9, <1>15, <3>1
  <2> QED BY <1>7, <2>1, <2>2, <2>3, <2>4
<1>17. Ids(z) = Ids(rows)
  <2>1. ASSUME NEW k \in 1 .. M + L
        PROVE  z[k].id \in Ids(rows)
    <3>1. CASE k <= M
        BY <1>12, <1>14, <1>15, <3>1
    <3>2. CASE k > M
        BY <1>8, <1>9, <1>12, <1>13, <3>2
    <3> QED BY <1>7, <3>1, <3>2
  <2>2. ASSUME NEW row \in Members(rows)
        PROVE  \E k \in 1 .. M + L : z[k].id = row.id
    <3>1. CASE row.id \in Ids(q)
      <4>1. PICK k \in 1 .. M : q[k].id = row.id
          BY <1>7, <3>1 DEF Ids, Members
      <4> QED BY <1>7, <1>12, <4>1
    <3>2. CASE row.id \notin Ids(q)
      <4>0. row \in Members(v) /\ DOMAIN v = 1 .. L
          BY <1>3, <1>7, <3>2
      <4>1. PICK k \in 1 .. L : v[k] = row
          BY <4>0 DEF Members
      <4>2. k + M \in 1 .. M + L /\ k + M > M /\ (k + M) - M = k
          BY <1>7
      <4>3. z[k + M].id = row.id
          BY <1>9, <1>12, <4>1, <4>2
      <4> QED BY <4>2, <4>3
    <3> QED BY <3>1, <3>2
  <2>3. Ids(z) = {z[k].id : k \in 1 .. M + L}
      BY <1>12 DEF Ids, Members
  <2>4. Ids(z) \subseteq Ids(rows)
      BY <2>1, <2>3
  <2>5. Ids(rows) \subseteq Ids(z)
    <3> SUFFICES ASSUME NEW row \in Members(rows)
                 PROVE  row.id \in Ids(z)
        BY DEF Ids
    <3>1. PICK k \in 1 .. M + L : z[k].id = row.id
        BY <2>2
    <3> QED BY <2>3, <3>1
  <2> QED BY <2>4, <2>5
<1>18. ASSUME NEW k \in 1 .. M + L
       PROVE  \/ /\ z[k] \in Members(rows)
                 /\ \A S : Closed(rows, S) => z[k].id \notin S
                 /\ z[k].parent \in Ids(rows) =>
                      \E j \in 1 .. k - 1 : z[j].id = z[k].parent
              \/ /\ z[k].parent = None
                 /\ \E S : Closed(rows, S) /\ z[k].id \in S
  <2>1. CASE k <= M
    <3>1. k \in 1 .. M /\ z[k] = q[k] /\ \A j \in 1 .. k - 1 : j \in 1 .. M
        BY <1>7, <1>12, <1>14, <2>1
    <3>2. z[k] \in Members(rows) /\ z[k] \in Members(q)
        BY <1>7, <3>1
    <3>3. z[k].parent \in Ids(rows) => \E j \in 1 .. k - 1 : z[j].id = z[k].parent
        BY <1>2, <1>12, <3>1 DEF M
    <3> QED BY <1>4, <3>2, <3>3
  <2>2. CASE k > M
    <3>1. k - M \in 1 .. L /\ z[k] = w[k - M]
        BY <1>12, <1>13, <2>2
    <3>2. z[k].parent = None /\ z[k].id \in Ids(rows) \ Ids(q)
        BY <1>8, <1>9, <3>1
    <3> QED BY <1>5, <3>2
  <2> QED BY <1>7, <2>1, <2>2
<1> QED BY <1>12, <1>16, <1>17, <1>18

-----------------------------------------------------------------------------
(* An answer and its rows.                                                    *)

\* ParentsFirst, of any rows ...
First(rows, S) ==
    \A i \in 1 .. Len(rows) :
        rows[i].parent \in {None} \cup S \cup {rows[j].id : j \in 1 .. i - 1}

\* ... and LinksResolved, of any rows and any links.
Unending(c, ids, reply) == \E S \in SUBSET ids :
                              c \in S /\ \A d \in S : reply[d] \in S

Resolves(rows, reply, S) ==
    \A i \in 1 .. Len(rows) :
        rows[i].parent =
          IF /\ reply[rows[i].id] \in Ids(rows) \cup S
             /\ ~Unending(rows[i].id, Ids(rows), reply)
            THEN reply[rows[i].id] ELSE None

\* An answer is a sequence without repetition of the comments that are listed.
LEMMA AnswerRows ==
    ASSUME NEW listed \in SUBSET Comments, IsFiniteSet(listed),
           NEW items \in SetToSeqs(listed),
           replyTo \in [Comments -> Comments \cup {None}]
    PROVE  LET rows == Rows(items)
           IN  /\ rows \in Seq(Row) /\ Apart(rows)
               /\ Ids(rows) = Members(items) /\ Members(items) \subseteq listed
               /\ \A row \in Members(rows) :
                    row.parent = Resolved(row.id, Members(items))
<1> DEFINE N == Cardinality(listed)
           ids == Members(items)
           rows == Rows(items)
<1>1. N \in Nat
    BY FS_CardinalityType
<1>2. /\ items \in [1 .. N -> listed]
      /\ \A i, j \in 1 .. N : i # j => items[i] # items[j]
    BY DEF SetToSeqs
<1>3. items \in Seq(listed) /\ Len(items) = N /\ DOMAIN items = 1 .. N
    BY <1>1, <1>2, LenProperties
<1>4. ids \subseteq listed /\ \A i \in 1 .. N : items[i] \in ids /\ items[i] \in Comments
    BY <1>2, <1>3 DEF Members
<1>5. \A c \in Comments : Resolved(c, ids) \in Comments \cup {None}
    BY DEF Resolved
<1> HIDE DEF ids, N
<1>6. rows = [i \in 1 .. N |-> [id |-> items[i], parent |-> Resolved(items[i], ids)]]
    BY <1>3 DEF Rows, ids
<1> HIDE DEF rows
<1>7. /\ DOMAIN rows = 1 .. N
      /\ \A i \in 1 .. N : /\ rows[i] \in Row /\ rows[i].id = items[i]
                           /\ rows[i].parent = Resolved(items[i], ids)
    BY <1>4, <1>5, <1>6 DEF Row
<1>8. rows \in Seq(Row)
  <2>1. rows = [i \in 1 .. N |-> rows[i]]
      BY <1>6, <1>7
  <2> QED BY <1>1, <1>7, <2>1, IsASeq
<1>9. Apart(rows)
    BY <1>2, <1>7 DEF Apart
<1>10. Ids(rows) = ids
  <2>1. ids = {items[i] : i \in 1 .. N}
      BY <1>3 DEF Members, ids
  <2>2. Ids(rows) = {rows[i].id : i \in 1 .. N}
      BY <1>7 DEF Ids, Members
  <2>3. \A i \in 1 .. N : rows[i].id = items[i]
      BY <1>7
  <2> QED BY <2>1, <2>2, <2>3, Zenon
<1>11. \A row \in Members(rows) : row.parent = Resolved(row.id, ids)
  <2>1. \A i \in 1 .. N : rows[i].parent = Resolved(rows[i].id, ids)
      BY <1>7
  <2>2. \A row \in Members(rows) : \E i \in 1 .. N : row = rows[i]
      BY <1>7 DEF Members
  <2> QED BY <2>1, <2>2
<1> QED BY <1>4, <1>8, <1>9, <1>10, <1>11 DEF rows, ids

\* A set of comments without a beginning is a set of rows without one.
LEMMA ClosedIsUnending ==
    ASSUME NEW rows \in Seq(Row), NEW c,
           \A row \in Members(rows) : row.parent = Resolved(row.id, Ids(rows)),
           replyTo \in [Comments -> Comments \cup {None}]
    PROVE  (\E S : Closed(rows, S) /\ c \in S) <=> Unending(c, Ids(rows), replyTo)
<1>1. Ids(rows) \subseteq Comments /\ None \notin Ids(rows)
    BY RowFacts, NoneAssumption
<1>2. ASSUME NEW S, Closed(rows, S), NEW d \in S
      PROVE  replyTo[d] \in S
  <2>1. PICK row \in Members(rows) : row.id = d
      BY <1>2 DEF Closed, Ids
  <2>2. row.parent \in S /\ row.parent \in Ids(rows)
      BY <1>2, <2>1 DEF Closed
  <2> QED BY <1>1, <2>1, <2>2 DEF Resolved
<1>3. ASSUME NEW S \in SUBSET Ids(rows), \A d \in S : replyTo[d] \in S
      PROVE  Closed(rows, S)
    BY <1>3 DEF Closed, Resolved
<1>4. ASSUME NEW S, Closed(rows, S)
      PROVE  S \in SUBSET Ids(rows)
    BY <1>4 DEF Closed
<1> QED BY <1>2, <1>3, <1>4 DEF Unending

\* So an answer is stored in an order, and with links, that are right.
LEMMA AnswerRight ==
    ASSUME NEW listed \in SUBSET Comments, IsFiniteSet(listed),
           NEW items \in SetToSeqs(listed), NEW z, z = Sorted(Rows(items)),
           replyTo \in [Comments -> Comments \cup {None}]
    PROVE  /\ z \in Seq(Row) /\ Apart(z) /\ Ids(z) \subseteq listed
           /\ First(z, stored) /\ Resolves(z, replyTo, stored)
<1> DEFINE rows == Rows(items)
<1>1. /\ rows \in Seq(Row) /\ Apart(rows) /\ Ids(rows) \subseteq listed
      /\ \A row \in Members(rows) : row.parent = Resolved(row.id, Ids(rows))
    BY AnswerRows
<1> HIDE DEF rows
<1>2. /\ z \in Seq(Row) /\ Apart(z) /\ Ids(z) = Ids(rows)
      /\ \A k \in 1 .. Len(z) :
                \/ /\ z[k] \in Members(rows)
                   /\ \A S : Closed(rows, S) => z[k].id \notin S
                   /\ z[k].parent \in Ids(rows) =>
                        \E j \in 1 .. k - 1 : z[j].id = z[k].parent
                \/ /\ z[k].parent = None
                   /\ \E S : Closed(rows, S) /\ z[k].id \in S
    BY <1>1, SortedRows DEF rows
<1>3. ASSUME NEW k \in 1 .. Len(z)
      PROVE  z[k].parent \in {None} \cup stored \cup {z[j].id : j \in 1 .. k - 1}
  <2>1. CASE z[k].parent = None
      BY <2>1
  <2>2. CASE /\ z[k] \in Members(rows)
             /\ z[k].parent \in Ids(rows) =>
                  \E j \in 1 .. k - 1 : z[j].id = z[k].parent
    <3>1. z[k].parent \in Ids(rows) \cup stored \cup {None}
        BY <1>1, <2>2 DEF Resolved
    <3> QED BY <2>2, <3>1
  <2> QED BY <1>2, <2>1, <2>2
<1>4. ASSUME NEW k \in 1 .. Len(z)
      PROVE  z[k].parent =
               IF /\ replyTo[z[k].id] \in Ids(z) \cup stored
                  /\ ~Unending(z[k].id, Ids(z), replyTo)
                 THEN replyTo[z[k].id] ELSE None
  <2>1. (\E S : Closed(rows, S) /\ z[k].id \in S)
          <=> Unending(z[k].id, Ids(z), replyTo)
      BY <1>1, <1>2, ClosedIsUnending
  <2>2. CASE /\ z[k] \in Members(rows)
             /\ \A S : Closed(rows, S) => z[k].id \notin S
    <3>1. ~Unending(z[k].id, Ids(z), replyTo)
        BY <2>1, <2>2
    <3> QED BY <1>1, <1>2, <2>2, <3>1 DEF Resolved
  <2>3. CASE /\ z[k].parent = None
             /\ \E S : Closed(rows, S) /\ z[k].id \in S
      BY <2>1, <2>3
  <2> QED BY <1>2, <2>2, <2>3
<1> QED BY <1>1, <1>2, <1>3, <1>4 DEF First, Resolves

\* Rows are counted by their ids.
LEMMA ApartLength ==
    ASSUME NEW rows \in Seq(Row), Apart(rows)
    PROVE  IsFiniteSet(Ids(rows)) /\ Cardinality(Ids(rows)) = Len(rows)
<1> DEFINE ids == [i \in 1 .. Len(rows) |-> rows[i].id]
<1>1. Len(rows) \in Nat /\ DOMAIN rows = 1 .. Len(rows)
      /\ \A i \in 1 .. Len(rows) : rows[i].id \in Comments
  <2>1. \A i \in 1 .. Len(rows) : rows[i] \in Row
      OBVIOUS
  <2> QED BY <2>1 DEF Row
<1>2. /\ DOMAIN ids = 1 .. Len(rows) /\ ids = [i \in 1 .. Len(rows) |-> ids[i]]
      /\ \A i \in 1 .. Len(rows) : ids[i] = rows[i].id
    OBVIOUS
<1> HIDE DEF ids
<1>3. ids \in Seq(Comments) /\ Len(ids) = Len(rows)
    BY <1>1, <1>2, IsASeq, LenProperties
<1>4. Once(ids)
    BY <1>1, <1>2 DEF Apart, Once
<1>5. Members(ids) = Ids(rows)
  <2>1. Members(ids) = {rows[i].id : i \in 1 .. Len(rows)}
      BY <1>2 DEF Members
  <2>2. Ids(rows) = {rows[i].id : i \in 1 .. Len(rows)}
      BY <1>1 DEF Members, Ids
  <2> QED BY <2>1, <2>2
<1> QED BY <1>3, <1>4, <1>5, OnceLength

-----------------------------------------------------------------------------
(* The invariant.                                                             *)

\* A link in the lake is the platform's.
LinksAreTheirs ==
    \A c \in Comments : parent[c] # None => c \in stored /\ parent[c] = replyTo[c]

\* The running transaction is built from comments that the platform has.
Answered == /\ batch.rows \in Seq(Row) /\ Apart(batch.rows)
            /\ Ids(batch.rows) \subseteq remote
            /\ batch.total \in 0 .. Cardinality(remote)

CommentInv == /\ IsFiniteSet(remote) /\ TypeOK
              /\ LinksAreTheirs /\ Answered
              /\ ParentsFirst /\ LinksResolved /\ CountCovers

LEMMA InitHolds == Init => CommentInv
<1> SUFFICES ASSUME Init
             PROVE  CommentInv
    OBVIOUS
<1>1. IsFiniteSet(remote) /\ Cardinality(remote) = 0 /\ Cardinality(stored) = 0
    BY FS_EmptySet DEF Init
<1>2. batch.rows = <<>> /\ batch.total = 0 /\ Len(batch.rows) = 0
    BY DEF Init, NoBatch
<1>3. Answered /\ ParentsFirst /\ LinksResolved
  <2>1. Ids(batch.rows) = {} /\ Apart(batch.rows) /\ batch.rows \in Seq(Row)
      BY <1>2 DEF Ids, Members, Apart
  <2>2. \A i \in 1 .. 0 : FALSE
      OBVIOUS
  <2> QED BY <1>1, <1>2, <2>1, <2>2 DEF Answered, ParentsFirst, LinksResolved
<1>4. TypeOK
  <2>1. /\ replyTo \in [Comments -> Comments \cup {None}]
        /\ parent \in [Comments -> stored \cup {None}]
      BY DEF Init
  <2>2. \A i \in 1 .. 0 : FALSE
      OBVIOUS
  <2>3. /\ Len(batch.rows) <= Cardinality(remote)
        /\ \A i \in 1 .. Len(batch.rows) : batch.rows[i] \in Row
      BY <1>1, <1>2, <2>2
  <2>4. /\ stored \subseteq remote /\ remote \subseteq Comments
        /\ fetched \in Nat /\ truncated \in BOOLEAN
        /\ task \in {"none", "queued", "running"}
        /\ count \in 0 .. Cardinality(remote) \cup {None}
      BY DEF Init
  <2> QED BY <2>1, <2>3, <2>4 DEF TypeOK
<1> QED BY <1>1, <1>3, <1>4 DEF Init, CommentInv, LinksAreTheirs, CountCovers

\* What no step does: nothing of the lake or of the running transaction changes.
LEMMA Untouched ==
    ASSUME CommentInv, UNCHANGED <<remote, replyTo, lake, batch>>,
           task' \in {"none", "queued", "running"},
           count' \in 0 .. Cardinality(remote) \cup {None}
    PROVE  CommentInv'
<1>1. TypeOK'
    BY DEF CommentInv, TypeOK, lake
<1>2. (LinksAreTheirs /\ Answered /\ CountCovers)'
    BY DEF CommentInv, LinksAreTheirs, Answered, CountCovers, lake
<1>3. ParentsFirst'
    BY DEF CommentInv, ParentsFirst, lake
<1>4. LinksResolved'
    BY DEF CommentInv, LinksResolved, Endless, lake
<1> QED BY <1>1, <1>2, <1>3, <1>4 DEF CommentInv

\* Without a running transaction there is nothing to say of its rows.
LEMMA NothingRuns ==
    ASSUME batch' = NoBatch, (IsFiniteSet(remote))'
    PROVE  /\ (Answered /\ ParentsFirst /\ LinksResolved)'
           /\ (Len(batch.rows) <= Cardinality(remote))'
           /\ (\A i \in 1 .. Len(batch.rows) : batch.rows[i] \in Row)'
<1>1. batch'.rows = <<>> /\ batch'.total = 0 /\ Len(batch'.rows) = 0
    BY DEF NoBatch
<1>2. Cardinality(remote') \in Nat
    BY FS_CardinalityType
<1>3. Ids(batch'.rows) = {} /\ Apart(batch'.rows) /\ batch'.rows \in Seq(Row)
    BY <1>1 DEF Ids, Members, Apart
<1>4. \A i \in 1 .. 0 : FALSE
    OBVIOUS
<1> QED BY <1>1, <1>2, <1>3, <1>4 DEF Answered, ParentsFirst, LinksResolved

LEMMA CommentHolds ==
    ASSUME CommentInv, Comment
    PROVE  CommentInv'
<1>1. PICK c \in Comments \ remote, p \in Comments \cup {None} :
          remote' = remote \cup {c} /\ replyTo' = [replyTo EXCEPT ![c] = p]
    BY DEF Comment
<1>2. UNCHANGED <<stored, parent, fetched, truncated, task, batch, count>>
    BY DEF Comment, lake
<1>3. /\ IsFiniteSet(remote') /\ Cardinality(remote') = Cardinality(remote) + 1
      /\ Cardinality(remote) \in Nat
    BY <1>1, FS_AddElement, FS_CardinalityType DEF CommentInv
<1>4. \A d \in remote : replyTo'[d] = replyTo[d]
    BY <1>1 DEF CommentInv, TypeOK
<1>5. TypeOK'
  <2>1. stored' \subseteq remote' /\ remote' \subseteq Comments
        /\ replyTo' \in [Comments -> Comments \cup {None}]
        /\ parent' \in [Comments -> stored' \cup {None}]
      BY <1>1, <1>2 DEF CommentInv, TypeOK
  <2>2. Len(batch'.rows) <= Cardinality(remote')
    <3>1. Len(batch.rows) \in Nat
        BY DEF CommentInv, Answered
    <3> QED BY <1>2, <1>3, <3>1 DEF CommentInv, TypeOK
  <2>3. count' \in 0 .. Cardinality(remote') \cup {None}
      BY <1>2, <1>3 DEF CommentInv, TypeOK
  <2> QED BY <1>2, <2>1, <2>2, <2>3 DEF CommentInv, TypeOK
<1>6. LinksAreTheirs'
    BY <1>2, <1>4 DEF CommentInv, LinksAreTheirs, TypeOK
<1>7. Answered'
    BY <1>1, <1>2, <1>3 DEF CommentInv, Answered
<1>8. ParentsFirst' /\ CountCovers'
    BY <1>2 DEF CommentInv, ParentsFirst, CountCovers
<1>9. LinksResolved'
  <2> DEFINE rows == batch.rows
  <2>1. rows \in Seq(Row) /\ Ids(rows) \subseteq remote /\ batch' = batch
        /\ stored' = stored
      BY <1>2 DEF CommentInv, Answered
  <2>2. \A i \in 1 .. Len(rows) : rows[i].id \in remote
      BY <2>1 DEF Ids, Members
  <2>3. \A i \in 1 .. Len(rows) : replyTo'[rows[i].id] = replyTo[rows[i].id]
      BY <1>4, <2>2
  <2>4. Resolves(rows, replyTo, stored)
      BY DEF CommentInv, LinksResolved, Resolves, Endless, Unending
  <2>5. \A i \in 1 .. Len(rows) : Unending(rows[i].id, Ids(rows), replyTo')
                                     <=> Unending(rows[i].id, Ids(rows), replyTo)
      BY <1>4, <2>1 DEF Unending
  <2>6. Resolves(rows, replyTo', stored)
      BY <2>3, <2>4, <2>5 DEF Resolves
  <2> QED BY <2>1, <2>6 DEF LinksResolved, Resolves, Endless, Unending
<1> QED BY <1>3, <1>5, <1>6, <1>7, <1>8, <1>9 DEF CommentInv

LEMMA AnswerHolds ==
    ASSUME CommentInv, Answer
    PROVE  CommentInv'
<1>0. PICK listed \in SUBSET remote :
         \E items \in SetToSeqs(listed),
            total \in Cardinality(listed) .. Cardinality(remote) :
         \E refused \in {FALSE, Faults} :
            batch' = [rows |-> Sorted(Rows(items)), total |-> total,
                      refused |-> refused]
    BY DEF Answer
<1>1. PICK items \in SetToSeqs(listed),
           total \in Cardinality(listed) .. Cardinality(remote) :
         \E refused \in {FALSE, Faults} :
            batch' = [rows |-> Sorted(Rows(items)), total |-> total,
                      refused |-> refused]
    BY <1>0
<1>2. UNCHANGED <<remote, replyTo, stored, parent, fetched, truncated, task, count>>
    BY DEF Answer, lake
<1> DEFINE z == Sorted(Rows(items))
<1>3. /\ IsFiniteSet(remote) /\ remote \subseteq Comments
      /\ replyTo \in [Comments -> Comments \cup {None}]
    BY DEF CommentInv, TypeOK
<1>4. /\ IsFiniteSet(listed) /\ listed \in SUBSET Comments
      /\ Cardinality(listed) \in Nat /\ Cardinality(remote) \in Nat
      /\ Cardinality(listed) <= Cardinality(remote)
    BY <1>3, FS_Subset, FS_CardinalityType
<1>5. /\ z \in Seq(Row) /\ Apart(z) /\ Ids(z) \subseteq listed
      /\ First(z, stored) /\ Resolves(z, replyTo, stored)
    BY <1>3, <1>4, AnswerRight
<1>6. batch'.rows = z /\ batch'.total = total
    BY <1>1
<1> HIDE DEF z
<1>7. Answered'
    BY <1>1, <1>2, <1>4, <1>5, <1>6 DEF Answered
<1>8. ParentsFirst'
    BY <1>2, <1>5, <1>6 DEF ParentsFirst, First
<1>9. LinksResolved'
    BY <1>2, <1>5, <1>6 DEF LinksResolved, Resolves, Endless, Unending
<1>10. Len(z) <= Cardinality(remote) /\ \A i \in 1 .. Len(z) : z[i] \in Row
  <2>1. Cardinality(Ids(z)) = Len(z)
      BY <1>5, ApartLength
  <2>2. Cardinality(Ids(z)) <= Cardinality(remote)
      BY <1>3, <1>5, FS_Subset
  <2> QED BY <1>5, <2>1, <2>2
<1>11. TypeOK'
    BY <1>2, <1>6, <1>10 DEF CommentInv, TypeOK
<1>12. (LinksAreTheirs /\ CountCovers)'
    BY <1>2 DEF CommentInv, LinksAreTheirs, CountCovers
<1> QED BY <1>2, <1>7, <1>8, <1>9, <1>11, <1>12 DEF CommentInv

\* What a commit adds to the lake: links of the platform to comments that are
\* there, beside the links that were there.
LEMMA LinkedFacts ==
    ASSUME CommentInv
    PROVE  \A c \in Comments :
             /\ parent[c] # None => Linked(batch.rows)[c] = parent[c]
             /\ Linked(batch.rows)[c] # parent[c] =>
                  /\ c \in Ids(batch.rows)
                  /\ Linked(batch.rows)[c] = replyTo[c]
                  /\ replyTo[c] \in Ids(batch.rows) \cup stored
<1> DEFINE rows == batch.rows
<1>1. rows \in Seq(Row) /\ Apart(rows)
    BY DEF CommentInv, Answered
<1>2. /\ \A p, r \in Members(rows) : p.id = r.id => p = r
      /\ DOMAIN rows = 1 .. Len(rows)
    BY <1>1, RowFacts, ApartFacts
<1> SUFFICES ASSUME NEW c \in Comments
             PROVE  /\ parent[c] # None => Linked(rows)[c] = parent[c]
                    /\ Linked(rows)[c] # parent[c] =>
                         /\ c \in Ids(rows)
                         /\ Linked(rows)[c] = replyTo[c]
                         /\ replyTo[c] \in Ids(rows) \cup stored
    OBVIOUS
<1>3. CASE \E i \in 1 .. Len(rows) : rows[i].id = c /\ rows[i].parent # None
  <2>1. PICK i \in 1 .. Len(rows) : rows[i].id = c /\ rows[i].parent # None
      BY <1>3
  <2>2. rows[i] \in Members(rows)
      BY <1>2 DEF Members
  <2>3. (CHOOSE r \in Members(rows) : r.id = c) = rows[i]
      BY <1>2, <2>1, <2>2
  <2>4. Linked(rows)[c] = rows[i].parent
      BY <1>3, <2>3 DEF Linked
  <2>5. rows[i].parent = replyTo[c] /\ replyTo[c] \in Ids(rows) \cup stored
      BY <2>1 DEF CommentInv, LinksResolved
  <2>6. c \in Ids(rows)
      BY <2>1, <2>2 DEF Ids
  <2> QED BY <2>4, <2>5, <2>6 DEF CommentInv, LinksAreTheirs
<1>4. CASE ~\E i \in 1 .. Len(rows) : rows[i].id = c /\ rows[i].parent # None
  <2>1. Linked(rows)[c] = parent[c]
      BY <1>4 DEF Linked
  <2> QED BY <2>1
<1> QED BY <1>3, <1>4

\* As many rows as are counted.
LEMMA CoverGrows ==
    ASSUME CommentInv
    PROVE  /\ fetched \in Nat /\ Len(batch.rows) \in Nat
           /\ Cardinality(stored \cup Ids(batch.rows)) <= fetched + Len(batch.rows)
<1>1. IsFiniteSet(stored) /\ Cardinality(stored) \in Nat
    BY FS_Subset, FS_CardinalityType DEF CommentInv, TypeOK
<1>2. /\ IsFiniteSet(Ids(batch.rows)) /\ Len(batch.rows) \in Nat
      /\ Cardinality(Ids(batch.rows)) = Len(batch.rows)
    BY ApartLength DEF CommentInv, Answered
<1>3. /\ IsFiniteSet(stored \cap Ids(batch.rows))
      /\ Cardinality(stored \cap Ids(batch.rows)) \in Nat
    BY <1>1, FS_Subset, FS_CardinalityType
<1>4. Cardinality(stored \cup Ids(batch.rows))
        = Cardinality(stored) + Cardinality(Ids(batch.rows))
            - Cardinality(stored \cap Ids(batch.rows))
    BY <1>1, <1>2, FS_Union
<1>5. fetched \in Nat /\ fetched >= Cardinality(stored)
    BY DEF CommentInv, TypeOK, CountCovers
<1> QED BY <1>1, <1>2, <1>3, <1>4, <1>5

LEMMA CommitHolds ==
    ASSUME CommentInv, Commit
    PROVE  CommentInv'
<1> DEFINE ids == Ids(batch.rows)
<1>1. /\ stored' = stored \cup ids /\ parent' = Linked(batch.rows)
      /\ fetched' = fetched + Len(batch.rows)
      /\ batch' = NoBatch /\ UNCHANGED <<remote, replyTo, count>>
      /\ truncated' = (truncated \/ fetched + Len(batch.rows) < batch.total)
      /\ task' \in {"none", "queued", "running"}
    BY DEF Commit
<1>2. /\ IsFiniteSet(remote') /\ ids \subseteq remote /\ stored \subseteq remote
      /\ remote \subseteq Comments
    BY <1>1 DEF CommentInv, TypeOK, Answered
<1>3. /\ (Answered /\ ParentsFirst /\ LinksResolved)'
      /\ (Len(batch.rows) <= Cardinality(remote))'
      /\ (\A i \in 1 .. Len(batch.rows) : batch.rows[i] \in Row)'
    BY <1>1, <1>2, NothingRuns
<1>4. \A c \in Comments :
             /\ parent[c] # None => Linked(batch.rows)[c] = parent[c]
             /\ Linked(batch.rows)[c] # parent[c] =>
                  /\ c \in Ids(batch.rows)
                  /\ Linked(batch.rows)[c] = replyTo[c]
                  /\ replyTo[c] \in Ids(batch.rows) \cup stored
    BY LinkedFacts
<1> HIDE DEF ids
<1>5. /\ fetched \in Nat /\ Len(batch.rows) \in Nat
      /\ Cardinality(stored') <= fetched + Len(batch.rows)
    BY <1>1, CoverGrows DEF ids
<1>6. parent' \in [Comments -> stored' \cup {None}]
  <2>1. parent' = [c \in Comments |-> Linked(batch.rows)[c]]
      BY <1>1 DEF Linked
  <2>2. \A c \in Comments : Linked(batch.rows)[c] \in stored' \cup {None}
      BY <1>1, <1>4 DEF CommentInv, TypeOK, ids
  <2> QED BY <2>1, <2>2
<1>7. TypeOK'
  <2>1. truncated' \in BOOLEAN /\ fetched' \in Nat
      BY <1>1, <1>5 DEF CommentInv, TypeOK
  <2>2. stored' \subseteq remote' /\ remote' \subseteq Comments
        /\ replyTo' \in [Comments -> Comments \cup {None}]
        /\ count' \in 0 .. Cardinality(remote') \cup {None}
      BY <1>1, <1>2 DEF CommentInv, TypeOK
  <2> QED BY <1>1, <1>3, <1>6, <2>1, <2>2 DEF TypeOK
<1>8. LinksAreTheirs'
  <2> SUFFICES ASSUME NEW c \in Comments, parent'[c] # None
               PROVE  c \in stored' /\ parent'[c] = replyTo'[c]
      BY DEF LinksAreTheirs
  <2>1. CASE parent'[c] = parent[c]
      BY <1>1, <2>1 DEF CommentInv, LinksAreTheirs
  <2>2. CASE parent'[c] # parent[c]
      BY <1>1, <1>4, <2>2 DEF ids
  <2> QED BY <2>1, <2>2
<1>9. CountCovers'
  <2>1. fetched' = fetched + Len(batch.rows)
      BY <1>1
  <2>2. Cardinality(stored') \in Nat
      BY <1>1, <1>2, FS_Subset, FS_CardinalityType
  <2> QED BY <1>5, <2>1, <2>2 DEF CountCovers
<1> QED BY <1>2, <1>3, <1>7, <1>8, <1>9 DEF CommentInv

LEMMA FailHolds ==
    ASSUME CommentInv, Fail
    PROVE  CommentInv'
<1>1. batch' = NoBatch /\ task' = "queued"
      /\ UNCHANGED <<remote, replyTo, stored, parent, fetched, truncated, count>>
    BY DEF Fail, lake
<1>2. IsFiniteSet(remote')
    BY <1>1 DEF CommentInv
<1>3. /\ (Answered /\ ParentsFirst /\ LinksResolved)'
      /\ (Len(batch.rows) <= Cardinality(remote))'
      /\ (\A i \in 1 .. Len(batch.rows) : batch.rows[i] \in Row)'
    BY <1>1, <1>2, NothingRuns
<1>4. TypeOK'
    BY <1>1, <1>3 DEF CommentInv, TypeOK
<1>5. (LinksAreTheirs /\ CountCovers)'
    BY <1>1 DEF CommentInv, LinksAreTheirs, CountCovers
<1> QED BY <1>2, <1>3, <1>4, <1>5 DEF CommentInv

LEMMA CommentInvStep == CommentInv /\ [Next]_vars => CommentInv'
<1> SUFFICES ASSUME CommentInv, [Next]_vars
             PROVE  CommentInv'
    OBVIOUS
<1>1. /\ task \in {"none", "queued", "running"}
      /\ count \in 0 .. Cardinality(remote) \cup {None}
      /\ Enqueued \in {"none", "queued", "running"}
    BY DEF CommentInv, TypeOK, Enqueued
<1>2. CASE Comment
    BY <1>2, CommentHolds
<1>3. CASE Poll
    BY <1>1, <1>3, Untouched DEF Poll, lake
<1>4. CASE ReadCount
  <2>1. Cardinality(remote) \in 0 .. Cardinality(remote)
      BY FS_CardinalityType DEF CommentInv
  <2> QED BY <1>1, <1>4, <2>1, Untouched DEF ReadCount, lake
<1>5. CASE CompareCount
    BY <1>1, <1>5, Untouched DEF CompareCount, lake
<1>6. CASE LoseCount
    BY <1>1, <1>6, Untouched DEF LoseCount, lake
<1>7. CASE Begin
    BY <1>1, <1>7, Untouched DEF Begin, lake
<1>8. CASE Answer
    BY <1>8, AnswerHolds
<1>9. CASE Commit
    BY <1>9, CommitHolds
<1>10. CASE Fail
    BY <1>10, FailHolds
<1>11. CASE UNCHANGED vars
    BY <1>1, <1>11, Untouched DEF vars, lake
<1> QED BY <1>2, <1>3, <1>4, <1>5, <1>6, <1>7, <1>8, <1>9, <1>10, <1>11 DEF Next

LEMMA CommentInvAlways == Spec => []CommentInv
BY InitHolds, CommentInvStep, PTL DEF Spec

-----------------------------------------------------------------------------
(* The theorems.                                                              *)

\* Rows, links, counters and the running transaction have their types, and no
\* transaction has more rows than the platform has comments (comments.py:71-150).
THEOREM TypeCorrect == Spec => []TypeOK
<1>1. CommentInv => TypeOK
    BY DEF CommentInv
<1> QED BY <1>1, CommentInvAlways, PTL

\* For an answer of any length, in any order, with cycles and unknown parents:
\* the foreign key on parent_id never refuses a row (comments.py:40-69).
THEOREM ParentsComeFirst == Spec => []ParentsFirst
<1>1. CommentInv => ParentsFirst
    BY DEF CommentInv
<1> QED BY <1>1, CommentInvAlways, PTL

\* A link that the foreign key allows is dropped only if following the links of
\* the answer from there never ends (comments.py:40-69, 107-127).
THEOREM LinksAreResolved == Spec => []LinksResolved
<1>1. CommentInv => LinksResolved
    BY DEF CommentInv
<1> QED BY <1>1, CommentInvAlways, PTL

\* comments_fetched never falls short of the rows that are stored, over retries
\* and crashes after the commit (comments.py:158).
THEOREM CoverageHolds == Spec => []CountCovers
<1>1. CommentInv => CountCovers
    BY DEF CommentInv
<1> QED BY <1>1, CommentInvAlways, PTL

\* A stored parent is never lost or replaced (upsert.py:42).
THEOREM LinksAreKept == Spec => LinkKept
<1>1. ASSUME CommentInv, [Next]_vars
      PROVE  [\A c \in Comments : parent[c] # None => parent'[c] = parent[c]]_vars
  <2>1. CASE Commit
    <3>1. parent' = Linked(batch.rows)
        BY <2>1 DEF Commit
    <3> QED BY <1>1, <3>1, LinkedFacts
  <2>2. CASE UNCHANGED parent
      BY <2>2
  <2>3. CASE Comment \/ Poll \/ ReadCount \/ CompareCount \/ LoseCount
               \/ Begin \/ Answer \/ Fail
      BY <2>2, <2>3
         DEF Comment, Poll, ReadCount, CompareCount, LoseCount, Begin, Answer, Fail,
             lake
  <2> QED BY <1>1, <2>1, <2>3 DEF Next
<1> QED BY <1>1, CommentInvAlways, PTL DEF Spec, LinkKept

\* comments_truncated is raised only while the platform has a comment that the
\* lake does not have, however the answers were capped (comments.py:159).
THEOREM TruncationIsHonest == Spec => TruncatedHonest
<1>1. ASSUME CommentInv, CommentInv', [Next]_vars
      PROVE  [truncated' /\ ~truncated => remote' \ stored' # {}]_vars
  <2> SUFFICES ASSUME truncated', ~truncated
               PROVE  remote' \ stored' # {}
      OBVIOUS
  <2>1. CASE Commit
    <3>1. /\ fetched + Len(batch.rows) < batch.total
          /\ stored' = stored \cup Ids(batch.rows) /\ remote' = remote
        BY <2>1 DEF Commit
    <3>2. /\ fetched \in Nat /\ Len(batch.rows) \in Nat
          /\ Cardinality(stored') <= fetched + Len(batch.rows)
        BY <1>1, <3>1, CoverGrows
    <3>3. /\ Cardinality(remote) \in Nat /\ batch.total \in 0 .. Cardinality(remote)
          /\ stored' \subseteq remote /\ IsFiniteSet(remote)
        BY <1>1, <3>1, FS_CardinalityType DEF CommentInv, TypeOK, Answered
    <3>4. Cardinality(stored') \in Nat
        BY <3>3, FS_Subset, FS_CardinalityType
    <3>5. Cardinality(stored') # Cardinality(remote)
        BY <3>1, <3>2, <3>3, <3>4
    <3>6. stored' # remote
        BY <3>5
    <3> QED BY <3>1, <3>3, <3>6
  <2>2. CASE Comment \/ Poll \/ ReadCount \/ CompareCount \/ LoseCount
               \/ Begin \/ Answer \/ Fail
      BY <2>2
         DEF Comment, Poll, ReadCount, CompareCount, LoseCount, Begin, Answer, Fail,
             lake
  <2>3. CASE UNCHANGED vars
      BY <2>3 DEF vars, lake
  <2> QED BY <1>1, <2>1, <2>2, <2>3 DEF Next
<1>2. CommentInv /\ CommentInv' /\ [Next]_vars
        => [truncated' /\ ~truncated => remote' \ stored' # {}]_vars
    BY <1>1
<1> QED BY <1>2, CommentInvAlways, PTL DEF Spec, TruncatedHonest

\* fetch_post asks for the comments again only if one is missing, although its
\* count may be older than the last fetch (posts.py:175).
THEOREM RefetchIsNeeded == Spec => RefetchOnlyMissing
<1>1. ASSUME CommentInv, [Next]_vars
      PROVE  [count # None /\ task = "none" /\ task' = "queued" /\ count' = None
                => remote \ stored # {}]_vars
  <2> SUFFICES ASSUME count # None, task = "none", task' = "queued", count' = None
               PROVE  remote \ stored # {}
      OBVIOUS
  <2>1. CASE CompareCount
    <3>1. fetched < count
        BY <2>1 DEF CompareCount, Enqueued
    <3>2. /\ IsFiniteSet(remote) /\ Cardinality(remote) \in Nat
          /\ stored \subseteq remote /\ fetched \in Nat
          /\ fetched >= Cardinality(stored) /\ count \in 0 .. Cardinality(remote)
        BY FS_CardinalityType, <1>1 DEF CommentInv, TypeOK, CountCovers
    <3>3. Cardinality(stored) \in Nat
        BY <3>2, FS_Subset, FS_CardinalityType
    <3>4. Cardinality(stored) # Cardinality(remote)
        BY <3>1, <3>2, <3>3
    <3>5. stored # remote
        BY <3>4
    <3> QED BY <3>2, <3>5
  <2>2. CASE Comment \/ Poll \/ ReadCount \/ LoseCount \/ Begin \/ Answer \/ Commit
               \/ Fail
      BY <2>2 DEF Comment, Poll, ReadCount, LoseCount, Begin, Answer, Commit, Fail
  <2>3. CASE UNCHANGED vars
      BY <2>3 DEF vars
  <2> QED BY <1>1, <2>1, <2>2, <2>3 DEF Next
<1> QED BY <1>1, CommentInvAlways, PTL DEF Spec, RefetchOnlyMissing

===============================================================================
