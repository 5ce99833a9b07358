----------------------------- MODULE DataLemmas -----------------------------
(* Lemmas about natural numbers, about queues without repetition and about    *)
(* functions defined by recursion.                                            *)
EXTENDS Queues, FiniteSets, FiniteSetTheorems, SequenceTheorems,
        WellFoundedInduction, TLAPS

-----------------------------------------------------------------------------
(* Induction over the natural numbers, stated about sets: the library's      *)
(* theorems take a predicate as a parameter, these two a set.                *)

(* A set of natural numbers that is not empty has a least element.           *)
LEMMA LeastOf ==
    ASSUME NEW T \in SUBSET Nat, T # {}
    PROVE  \E x \in T : \A y \in T : x <= y
<1> DEFINE R == OpToRel(<, Nat)
<1>1. IsWellFoundedOn(R, Nat)
  BY NatLessThanWellFounded
<1>2. \A x, y \in Nat : y < x => <<y, x>> \in R
  BY DEF OpToRel
<1> HIDE DEF R
<1>3. PICK x \in T : \A y \in T : ~ (<<y, x>> \in R)
  BY <1>1, WFMin, Zenon
<1>4. ASSUME NEW y \in T PROVE x <= y
  <2>1. ~ (<<y, x>> \in R)
    BY <1>3
  <2>2. y \in Nat /\ x \in Nat
    OBVIOUS
  <2>3. ~(y < x)
    BY <2>1, <2>2, <1>2, Zenon
  <2> QED
    BY <2>2, <2>3
<1> QED
  BY <1>4

(* A set that has 0 and with each number the next one has all of them.       *)
LEMMA AllOfNat ==
    ASSUME NEW S \in SUBSET Nat, 0 \in S, \A n \in S : n + 1 \in S
    PROVE  S = Nat
<1> SUFFICES ASSUME Nat \ S # {} PROVE FALSE
  OBVIOUS
<1>1. PICK x \in Nat \ S : \A y \in Nat \ S : x <= y
  BY LeastOf
<1>2. x # 0 /\ x - 1 \in Nat
  BY <1>1
<1>3. x - 1 \in S
  BY <1>1, <1>2
<1> QED
  BY <1>1, <1>2, <1>3

-----------------------------------------------------------------------------
(* Queues.                                                                   *)

(* A queue without repetition is as long as it has members.                  *)
LEMMA OnceLength ==
    ASSUME NEW K, NEW q \in Seq(K), Once(q)
    PROVE  /\ IsFiniteSet(Members(q))
           /\ Cardinality(Members(q)) = Len(q)
<1>1. DOMAIN q = 1 .. Len(q) /\ Len(q) \in Nat
  OBVIOUS
<1>2. q \in Bijection(1 .. Len(q), Members(q))
  BY <1>1 DEF Once, Members, Bijection, Injection, Surjection, IsInjective
<1>3. ExistsBijection(1 .. Len(q), Members(q))
  BY <1>2 DEF ExistsBijection
<1>4. IsFiniteSet(1 .. Len(q))
  BY <1>1, FS_Interval
<1> QED
  BY <1>1, <1>3, <1>4, FS_Bijection, FS_CountingElements

(* A newcomer that was not in the queue is its last member.                   *)
LEMMA AppendMembers ==
    ASSUME NEW K, NEW q \in Seq(K), NEW r \in K,
           Once(q), r \notin Members(q)
    PROVE  /\ Append(q, r) \in Seq(K)
           /\ Members(Append(q, r)) = Members(q) \cup {r}
           /\ Once(Append(q, r))
           /\ Append(q, r) # <<>>
<1> DEFINE p == Append(q, r)
<1>1. /\ p \in Seq(K) /\ Len(p) = Len(q) + 1 /\ Len(q) \in Nat
      /\ DOMAIN p = 1 .. Len(q) + 1 /\ DOMAIN q = 1 .. Len(q)
      /\ \A i \in DOMAIN q : p[i] = q[i]
      /\ p[Len(q) + 1] = r
  OBVIOUS
<1> HIDE DEF p
<1>2. DOMAIN p = DOMAIN q \cup {Len(q) + 1}
  BY <1>1
<1>3. Members(p) = Members(q) \cup {r}
  BY <1>1, <1>2 DEF Members
<1>4. Once(p)
  BY <1>1, <1>2 DEF Members, Once
<1>5. p # <<>>
  BY <1>1
<1> QED
  BY <1>1, <1>3, <1>4, <1>5 DEF p

(* A removal takes exactly that member out of the queue.                     *)
LEMMA RemovedMembers ==
    ASSUME NEW K, NEW q \in Seq(K), NEW r, Once(q), r \in Members(q)
    PROVE  /\ Removed(q, r) \in Seq(K)
           /\ Members(Removed(q, r)) = Members(q) \ {r}
           /\ Once(Removed(q, r))
<1> DEFINE k == CHOOSE i \in DOMAIN q : q[i] = r
           n == Len(q)
           p == [i \in 1 .. n - 1 |-> IF i < k THEN q[i] ELSE q[i + 1]]
<1>1. n \in Nat /\ DOMAIN q = 1 .. n /\ \A i \in 1 .. n : q[i] \in K
  OBVIOUS
<1>2. k \in 1 .. n /\ q[k] = r
  BY <1>1 DEF Members
<1>3. p = Removed(q, r)
  BY DEF Removed
<1> HIDE DEF k, n
<1>4. /\ \A i \in 1 .. n - 1 : (i < k => p[i] = q[i])
                            /\ (~(i < k) => p[i] = q[i + 1])
      /\ DOMAIN p = 1 .. n - 1
  BY <1>1, <1>2
<1>5. p \in Seq(K)
  <2>1. \A i \in 1 .. n - 1 : p[i] \in K
    BY <1>1, <1>2, <1>4
  <2>2. n - 1 \in Nat
    BY <1>1, <1>2
  <2> QED
    BY <2>1, <2>2
<1> HIDE DEF p
<1>6. Members(p) \subseteq Members(q) \ {r}
  BY <1>1, <1>2, <1>4 DEF Members, Once
<1>7. ASSUME NEW x \in Members(q) \ {r} PROVE x \in Members(p)
  <2>1. PICK i \in 1 .. n : q[i] = x
    BY <1>1 DEF Members
  <2>2. CASE i < k
    BY <2>1, <2>2, <1>1, <1>2, <1>4 DEF Members
  <2>3. CASE i > k
    <3>1. i - 1 \in 1 .. n - 1 /\ ~(i - 1 < k) /\ (i - 1) + 1 = i
      BY <2>3, <1>1, <1>2
    <3>2. p[i - 1] = x
      BY <3>1, <2>1, <1>4
    <3> QED
      BY <3>1, <3>2, <1>4 DEF Members
  <2> QED
    BY <2>1, <2>2, <2>3, <1>1, <1>2
<1>8. Once(p)
  <2> DEFINE old(i) == IF i < k THEN i ELSE i + 1
  <2>1. \A i \in 1 .. n - 1 : old(i) \in 1 .. n /\ p[i] = q[old(i)]
    BY <1>1, <1>2, <1>4
  <2>2. \A i, j \in 1 .. n - 1 : old(i) = old(j) => i = j
    BY <1>1, <1>2
  <2> HIDE DEF old
  <2> QED
    BY <2>1, <2>2, <1>1, <1>4 DEF Once
<1> QED
  BY <1>3, <1>5, <1>6, <1>7, <1>8

(* The newcomer follows everybody; nobody follows the newcomer.              *)
LEMMA AppendFollowers ==
    ASSUME NEW K, NEW q \in Seq(K), NEW r \in K, Once(q), r \notin Members(q)
    PROVE  /\ Followers(Append(q, r), r) = {}
           /\ \A x \in Members(q) :
                Followers(Append(q, r), x) = Followers(q, x) \cup {r}
<1> DEFINE p == Append(q, r)
<1>1. /\ Len(p) = Len(q) + 1 /\ Len(q) \in Nat
      /\ DOMAIN p = 1 .. Len(q) + 1 /\ DOMAIN q = 1 .. Len(q)
      /\ \A i \in DOMAIN q : p[i] = q[i]
      /\ p[Len(q) + 1] = r
  OBVIOUS
<1> HIDE DEF p
<1>2. \A i \in DOMAIN q : p[i] # r
  BY <1>1 DEF Members
<1>3. Followers(p, r) = {}
  BY <1>1, <1>2 DEF Followers
<1>4. ASSUME NEW x \in Members(q)
      PROVE  Followers(p, x) = Followers(q, x) \cup {r}
  <2>1. Followers(p, x) \subseteq Followers(q, x) \cup {r}
    <3> SUFFICES ASSUME NEW j \in DOMAIN p, NEW i \in 1 .. j - 1, p[i] = x
                 PROVE  p[j] \in Followers(q, x) \cup {r}
      BY DEF Followers
    <3>1. CASE j = Len(q) + 1
      BY <3>1, <1>1
    <3>2. CASE j # Len(q) + 1
      <4>1. j \in DOMAIN q /\ i \in DOMAIN q
        BY <3>2, <1>1
      <4> QED
        BY <4>1, <1>1 DEF Followers
    <3> QED
      BY <3>1, <3>2
  <2>2. r \in Followers(p, x)
    <3>1. PICK i \in DOMAIN q : q[i] = x
      BY DEF Members
    <3>2. i \in 1 .. (Len(q) + 1) - 1 /\ p[i] = x
      BY <3>1, <1>1
    <3> QED
      BY <3>2, <1>1 DEF Followers
  <2>3. Followers(q, x) \subseteq Followers(p, x)
    <3> SUFFICES ASSUME NEW j \in DOMAIN q, NEW i \in 1 .. j - 1, q[i] = x
                 PROVE  q[j] \in Followers(p, x)
      BY DEF Followers
    <3>1. j \in DOMAIN p /\ i \in DOMAIN q
      BY <1>1
    <3> QED
      BY <3>1, <1>1 DEF Followers
  <2> QED
    BY <2>1, <2>2, <2>3
<1> QED
  BY <1>3, <1>4 DEF p

(* Who is taken out follows nobody any more; the order of the rest stays.    *)
LEMMA RemovedFollowers ==
    ASSUME NEW K, NEW q \in Seq(K), NEW r, Once(q), r \in Members(q)
    PROVE  /\ Len(Removed(q, r)) = Len(q) - 1
           /\ \A x \in Members(q) \ {r} :
                Followers(Removed(q, r), x) = Followers(q, x) \ {r}
<1> DEFINE k == CHOOSE i \in DOMAIN q : q[i] = r
           n == Len(q)
           p == [i \in 1 .. n - 1 |-> IF i < k THEN q[i] ELSE q[i + 1]]
           old(i) == IF i < k THEN i ELSE i + 1
           new(i) == IF i < k THEN i ELSE i - 1
<1>1. n \in Nat /\ DOMAIN q = 1 .. n
  OBVIOUS
<1>2. k \in 1 .. n /\ q[k] = r
  BY <1>1 DEF Members
<1>3. p = Removed(q, r)
  BY DEF Removed
<1> HIDE DEF k, n
<1>4. /\ \A i \in 1 .. n - 1 : old(i) \in 1 .. n /\ p[i] = q[old(i)]
                               /\ old(i) # k
      /\ \A i \in 1 .. n : i # k => /\ new(i) \in 1 .. n - 1
                                    /\ old(new(i)) = i
      /\ DOMAIN p = 1 .. n - 1
  BY <1>1, <1>2
<1>5. /\ \A i, j \in 1 .. n - 1 : i < j => old(i) < old(j)
      /\ \A i, j \in 1 .. n : i # k /\ j # k /\ i < j => new(i) < new(j)
  BY <1>1, <1>2
<1>6. Len(p) = n - 1
  BY <1>1, <1>2
<1> HIDE DEF p, old, new
<1>7. ASSUME NEW x \in Members(q) \ {r}
      PROVE  Followers(p, x) = Followers(q, x) \ {r}
  <2>1. Followers(p, x) \subseteq Followers(q, x) \ {r}
    <3> SUFFICES ASSUME NEW j \in 1 .. n - 1, NEW i \in 1 .. j - 1, p[i] = x
                 PROVE  p[j] \in Followers(q, x) \ {r}
      BY <1>4 DEF Followers
    <3>1. i \in 1 .. n - 1 /\ i < j
      BY <1>1
    <3>2. /\ old(i) \in 1 .. n /\ old(j) \in 1 .. n /\ old(i) < old(j)
          /\ q[old(i)] = x /\ q[old(j)] = p[j] /\ old(j) # k
      BY <3>1, <1>4, <1>5
    <3>3. old(i) \in 1 .. old(j) - 1
      BY <3>2
    <3>4. p[j] \in Followers(q, x)
      BY <3>2, <3>3, <1>1 DEF Followers
    <3>5. p[j] # r
      BY <3>2, <1>1, <1>2 DEF Once
    <3> QED
      BY <3>4, <3>5
  <2>2. Followers(q, x) \ {r} \subseteq Followers(p, x)
    <3> SUFFICES ASSUME NEW j \in 1 .. n, NEW i \in 1 .. j - 1,
                        q[i] = x, q[j] # r
                 PROVE  q[j] \in Followers(p, x)
      BY <1>1 DEF Followers
    <3>1. i \in 1 .. n /\ i < j /\ i # k /\ j # k
      BY <1>1, <1>2
    <3>2. /\ new(i) \in 1 .. n - 1 /\ new(j) \in 1 .. n - 1
          /\ new(i) < new(j) /\ p[new(i)] = x /\ p[new(j)] = q[j]
      BY <3>1, <1>4, <1>5
    <3>3. new(i) \in 1 .. new(j) - 1
      BY <3>2
    <3> QED
      BY <3>2, <3>3, <1>4 DEF Followers
  <2> QED
    BY <2>1, <2>2
<1> QED
  BY <1>3, <1>6, <1>7 DEF n

(* The head comes before everybody; without it the order stays.              *)
LEMMA TailFollowers ==
    ASSUME NEW K, NEW q \in Seq(K), Once(q), q # <<>>
    PROVE  /\ Head(q) \in Members(q)
           /\ Followers(q, Head(q)) = Members(q) \ {Head(q)}
           /\ Tail(q) \in Seq(K) /\ Once(Tail(q)) /\ Len(Tail(q)) = Len(q) - 1
           /\ Members(Tail(q)) = Members(q) \ {Head(q)}
           /\ \A x \in Members(q) \ {Head(q)} :
                Followers(Tail(q), x) = Followers(q, x)
<1> DEFINE p == Tail(q)
           n == Len(q)
           h == Head(q)
<1>1. /\ n \in Nat /\ n > 0 /\ DOMAIN q = 1 .. n /\ h = q[1]
      /\ p \in Seq(K) /\ Len(p) = n - 1 /\ DOMAIN p = 1 .. n - 1
      /\ \A i \in 1 .. n - 1 : p[i] = q[i + 1]
  OBVIOUS
<1> HIDE DEF p, n, h
<1>2. h \in Members(q)
  BY <1>1 DEF Members
<1>3. Followers(q, h) = Members(q) \ {h}
  <2>1. ASSUME NEW j \in 1 .. n, NEW i \in 1 .. j - 1, q[i] = h
        PROVE  q[j] # h
    BY <1>1 DEF Once
  <2>2. ASSUME NEW j \in 1 .. n, q[j] # h
        PROVE  1 \in 1 .. j - 1
    BY <1>1, <2>2
  <2>3. Followers(q, h) \subseteq Members(q) \ {h}
    BY <2>1, <1>1 DEF Followers, Members
  <2>4. Members(q) \ {h} \subseteq Followers(q, h)
    BY <2>2, <1>1 DEF Followers, Members
  <2> QED
    BY <2>3, <2>4
<1>4. Once(p)
  <2> SUFFICES ASSUME NEW i \in 1 .. n - 1, NEW j \in 1 .. n - 1, p[i] = p[j]
               PROVE  i = j
    BY <1>1 DEF Once
  <2>1. i + 1 \in 1 .. n /\ j + 1 \in 1 .. n /\ q[i + 1] = q[j + 1]
    BY <1>1
  <2>2. i + 1 = j + 1
    BY <2>1, <1>1 DEF Once
  <2> QED
    BY <2>2
<1>5. Members(p) = Members(q) \ {h}
  <2>1. ASSUME NEW i \in 1 .. n - 1 PROVE p[i] \in Members(q) \ {h}
    <3>1. i + 1 \in 1 .. n /\ i + 1 # 1 /\ p[i] = q[i + 1]
      BY <1>1
    <3>2. 1 \in DOMAIN q /\ i + 1 \in DOMAIN q
      BY <3>1, <1>1
    <3>3. q[i + 1] # q[1]
      BY <3>1, <3>2 DEF Once
    <3> QED
      BY <3>1, <3>3, <1>1 DEF Members
  <2>2. ASSUME NEW i \in 1 .. n, q[i] # h PROVE q[i] \in Members(p)
    <3>1. i - 1 \in 1 .. n - 1 /\ p[i - 1] = q[i]
      BY <2>2, <1>1
    <3> QED
      BY <3>1, <1>1 DEF Members
  <2>3. Members(p) \subseteq Members(q) \ {h}
    BY <2>1, <1>1 DEF Members
  <2>4. Members(q) \ {h} \subseteq Members(p)
    BY <2>2, <1>1 DEF Members
  <2> QED
    BY <2>3, <2>4
<1>6. ASSUME NEW x \in Members(q) \ {h}
      PROVE  Followers(p, x) = Followers(q, x)
  <2>1. ASSUME NEW j \in 1 .. n - 1, NEW i \in 1 .. j - 1, p[i] = x
        PROVE  p[j] \in Followers(q, x)
    <3>1. /\ j + 1 \in 1 .. n /\ i + 1 \in 1 .. (j + 1) - 1
          /\ q[i + 1] = x /\ p[j] = q[j + 1]
      BY <2>1, <1>1
    <3> QED
      BY <3>1, <1>1 DEF Followers
  <2>2. ASSUME NEW j \in 1 .. n, NEW i \in 1 .. j - 1, q[i] = x
        PROVE  q[j] \in Followers(p, x)
    <3>1. /\ i # 1 /\ i - 1 \in 1 .. (j - 1) - 1 /\ j - 1 \in 1 .. n - 1
          /\ i - 1 \in 1 .. n - 1
      BY <2>2, <1>1
    <3>2. p[i - 1] = x /\ p[j - 1] = q[j]
      BY <2>2, <3>1, <1>1
    <3> QED
      BY <3>1, <3>2, <1>1 DEF Followers
  <2>3. Followers(p, x) \subseteq Followers(q, x)
    BY <2>1, <1>1 DEF Followers
  <2>4. Followers(q, x) \subseteq Followers(p, x)
    BY <2>2, <1>1 DEF Followers
  <2> QED
    BY <2>3, <2>4
<1> QED
  BY <1>1, <1>2, <1>3, <1>4, <1>5, <1>6 DEF p, n, h

-----------------------------------------------------------------------------
(* Functions defined by recursion, and what they compute.                     *)

(* f begins with a and goes on with G.                                       *)
Recurs(f, n, a, G) == f[0] = a /\ \A i \in 1 .. n : f[i] = G[<<i, f[i - 1]>>]

(* There is a function with a given first value and a given step.            *)
LEMMA RecursionExists ==
    ASSUME NEW n \in Nat, NEW D, NEW a \in D, NEW G \in [Nat \X D -> D]
    PROVE  \E f \in [0 .. n -> D] : Recurs(f, n, a, G)
<1> DEFINE Holds(f, m) == f[0] = a /\ \A i \in 1 .. m : f[i] = G[<<i, f[i - 1]>>]
           S == {m \in Nat : \E f \in [0 .. m -> D] : Holds(f, m)}
<1>1. 0 \in S
  <2> DEFINE f == [i \in 0 .. 0 |-> a]
  <2>1. f \in [0 .. 0 -> D] /\ f[0] = a
      OBVIOUS
  <2>2. Holds(f, 0)
      BY <2>1
  <2> QED BY <2>1, <2>2
<1>2. ASSUME NEW m \in S
      PROVE  m + 1 \in S
  <2>1. m \in Nat /\ m + 1 \in Nat
      OBVIOUS
  <2>2. PICK g \in [0 .. m -> D] : Holds(g, m)
      OBVIOUS
  <2> DEFINE f == [i \in 0 .. m + 1 |-> IF i = m + 1 THEN G[<<m + 1, g[m]>>]
                                       ELSE g[i]]
  <2>3. g[m] \in D /\ G[<<m + 1, g[m]>>] \in D
      BY <2>1
  <2>4. f \in [0 .. m + 1 -> D]
    <3>1. ASSUME NEW i \in 0 .. m + 1, i # m + 1
          PROVE  g[i] \in D
        BY <2>1, <3>1
    <3> QED BY <2>3, <3>1
  <2>5. f[0] = a
      BY <2>1, <2>2
  <2>6. ASSUME NEW i \in 1 .. m + 1
        PROVE  f[i] = G[<<i, f[i - 1]>>]
    <3>1. CASE i = m + 1
      <4>1. i - 1 \in 0 .. m + 1 /\ i - 1 # m + 1 /\ i - 1 = m
          BY <2>1, <3>1
      <4>2. f[i - 1] = g[m]
          BY <4>1
      <4>3. m + 1 \in 0 .. m + 1
          BY <2>1
      <4>4. f[m + 1] = G[<<m + 1, g[m]>>]
          BY <4>3
      <4> HIDE DEF f
      <4> QED BY <3>1, <4>2, <4>4
    <3>2. CASE i # m + 1
      <4>1. i \in 1 .. m /\ i - 1 \in 0 .. m + 1 /\ i - 1 # m + 1 /\ i \in 0 .. m + 1
          BY <2>1, <3>2
      <4>2. f[i] = g[i] /\ f[i - 1] = g[i - 1]
          BY <4>1
      <4> QED BY <2>2, <4>1, <4>2
    <3> QED BY <3>1, <3>2
  <2> HIDE DEF f
  <2>7. Holds(f, m + 1)
      BY <2>5, <2>6
  <2> QED BY <2>1, <2>4, <2>7
<1> HIDE DEF S
<1>3. S \in SUBSET Nat
    BY DEF S
<1>4. S = Nat
    BY <1>1, <1>2, <1>3, AllOfNat
<1> QED BY <1>4 DEF S, Recurs

(* The members of a queue in S: they are those, and in their order.          *)
LEMMA AmongMembers ==
    ASSUME NEW K, NEW q \in Seq(K), NEW S
    PROVE  /\ Among(q, S) \in Seq(K)
           /\ Members(Among(q, S)) = Members(q) \cap S
           /\ Once(q) => Once(Among(q, S))
<1> DEFINE N == Len(q)
           Kept(f) == f = [n \in 0 .. N |->
                             IF n = 0 THEN <<>>
                             ELSE IF q[n] \in S THEN Append(f[n - 1], q[n])
                             ELSE f[n - 1]]
           kept == CHOOSE f : Kept(f)
           G == [p \in Nat \X Seq(K) |->
                   IF p[1] \in 1 .. N /\ q[p[1]] \in S THEN Append(p[2], q[p[1]])
                   ELSE p[2]]
<1>1. N \in Nat /\ DOMAIN q = 1 .. N /\ \A n \in 1 .. N : q[n] \in K
    OBVIOUS
<1>2. Kept(kept)
  <2>1. G \in [Nat \X Seq(K) -> Seq(K)]
    <3>1. ASSUME NEW p \in Nat \X Seq(K)
          PROVE  (IF p[1] \in 1 .. N /\ q[p[1]] \in S THEN Append(p[2], q[p[1]])
                  ELSE p[2]) \in Seq(K)
        BY <1>1, <3>1, AppendProperties
    <3> QED BY <3>1
  <2>2. <<>> \in Seq(K)
      OBVIOUS
  <2> HIDE DEF G
  <2>3. PICK f \in [0 .. N -> Seq(K)] :
          f[0] = <<>> /\ \A i \in 1 .. N : f[i] = G[<<i, f[i - 1]>>]
    <3> DEFINE D == Seq(K)
               none == <<>>
    <3>1. N \in Nat /\ none \in D /\ G \in [Nat \X D -> D]
        BY <1>1, <2>1, <2>2
    <3> HIDE DEF D, none, N
    <3>2. \E f \in [0 .. N -> D] : Recurs(f, N, none, G)
        BY <3>1, RecursionExists
    <3> QED BY <3>2 DEF D, none, Recurs
  <2>4. ASSUME NEW i \in 1 .. N
        PROVE  f[i] = IF q[i] \in S THEN Append(f[i - 1], q[i]) ELSE f[i - 1]
    <3>0. i - 1 \in 0 .. N /\ i \in Nat
        BY <1>1
    <3>1. i \in Nat /\ f[i - 1] \in Seq(K)
        BY <2>3, <3>0
    <3>2. G[<<i, f[i - 1]>>] = IF q[i] \in S THEN Append(f[i - 1], q[i])
                               ELSE f[i - 1]
        BY <3>1 DEF G
    <3> QED BY <2>3, <3>2
  <2>5. Kept(f)
    <3>1. \A n \in 0 .. N : n # 0 => n \in 1 .. N
        BY <1>1
    <3>2. \A n \in 0 .. N : f[n] = IF n = 0 THEN <<>>
                                   ELSE IF q[n] \in S THEN Append(f[n - 1], q[n])
                                   ELSE f[n - 1]
        BY <2>3, <2>4, <3>1
    <3> QED BY <3>2
  <2> HIDE DEF Kept
  <2> QED BY <2>5
<1>3. Among(q, S) = kept[N]
    BY DEF Among
<1>4. /\ kept[0] = <<>>
      /\ \A n \in 1 .. N : kept[n] = IF q[n] \in S THEN Append(kept[n - 1], q[n])
                                     ELSE kept[n - 1]
  <2>1. \A n \in 1 .. N : n \in 0 .. N /\ n # 0
      BY <1>1
  <2>2. 0 \in 0 .. N
      BY <1>1
  <2> HIDE DEF kept
  <2> QED BY <1>2, <2>1, <2>2
<1> HIDE DEF kept, N, Kept, G
<1> DEFINE Good(n, p) == /\ p \in Seq(K)
                         /\ Members(p) = {q[i] : i \in 1 .. n} \cap S
                         /\ Once(q) => Once(p)
           T == {n \in Nat : n <= N => Good(n, kept[n])}
<1>5. 0 \in T
  <2>1. Members(<<>>) = {} /\ Once(<<>>)
      BY DEF Members, Once
  <2>2. {q[i] : i \in 1 .. 0} = {}
      OBVIOUS
  <2>3. <<>> \in Seq(K)
      OBVIOUS
  <2> QED BY <1>4, <2>1, <2>2, <2>3
<1>6. ASSUME NEW n \in T
      PROVE  n + 1 \in T
  <2>1. n \in Nat /\ n + 1 \in Nat
      OBVIOUS
  <2> SUFFICES ASSUME n + 1 <= N
               PROVE  Good(n + 1, kept[n + 1])
      BY <2>1
  <2> DEFINE m == n + 1
  <2>2. n <= N /\ m \in 1 .. N /\ m - 1 = n /\ 1 .. m = 1 .. n \cup {m} /\ n + 1 = m
      BY <1>1, <2>1
  <2>3. Good(n, kept[n])
      BY <2>2
  <2>4. {q[i] : i \in 1 .. m} = {q[i] : i \in 1 .. n} \cup {q[m]}
      BY <2>2
  <2>5. q[m] \in K /\ kept[m] = IF q[m] \in S THEN Append(kept[n], q[m]) ELSE kept[n]
      BY <1>1, <1>4, <2>2
  <2>6. ASSUME Once(q)
        PROVE  q[m] \notin {q[i] : i \in 1 .. n}
    <3>1. \A i \in 1 .. n : i \in DOMAIN q /\ i # m
        BY <1>1, <2>1, <2>2
    <3>2. m \in DOMAIN q
        BY <1>1, <2>2
    <3> HIDE DEF m
    <3> QED BY <2>6, <3>1, <3>2 DEF Once
  <2> HIDE DEF m
  <2>7. CASE q[m] \in S
    <3> DEFINE p == kept[n]
    <3>1. kept[m] = Append(p, q[m])
        BY <2>5, <2>7
    <3> HIDE DEF p
    <3>2. p \in Seq(K) /\ Members(p) = {q[i] : i \in 1 .. n} \cap S
          /\ (Once(q) => Once(p))
        BY <2>3 DEF p
    <3>3. /\ Append(p, q[m]) \in Seq(K) /\ Len(Append(p, q[m])) = Len(p) + 1
          /\ Len(p) \in Nat /\ DOMAIN p = 1 .. Len(p)
          /\ DOMAIN Append(p, q[m]) = 1 .. Len(p) + 1
          /\ \A i \in 1 .. Len(p) : Append(p, q[m])[i] = p[i]
          /\ Append(p, q[m])[Len(p) + 1] = q[m]
        BY <2>5, <3>2, AppendProperties
    <3> DEFINE w == Append(p, q[m])
    <3> HIDE DEF w
    <3>4. /\ w \in Seq(K) /\ Len(w) = Len(p) + 1
          /\ DOMAIN w = 1 .. Len(p) + 1
          /\ \A i \in 1 .. Len(p) : w[i] = p[i]
          /\ w[Len(p) + 1] = q[m]
        BY <3>3 DEF w
    <3>5. 1 .. Len(p) + 1 = 1 .. Len(p) \cup {Len(p) + 1}
        BY <3>3
    <3>6. Members(w) = Members(p) \cup {q[m]}
        BY <3>3, <3>4, <3>5 DEF Members
    <3>7. ASSUME Once(q)
          PROVE  Once(w)
      <4>1. q[m] \notin Members(p)
          BY <2>6, <3>2, <3>7
      <4>2. Once(p)
          BY <3>2, <3>7
      <4> QED BY <3>3, <3>4, <3>5, <4>1, <4>2 DEF Once, Members
    <3>8. Members(w) = {q[i] : i \in 1 .. m} \cap S
        BY <2>4, <2>7, <3>2, <3>6
    <3> QED BY <2>2, <3>1, <3>4, <3>7, <3>8 DEF w
  <2>8. CASE q[m] \notin S
    <3>1. {q[i] : i \in 1 .. m} \cap S = {q[i] : i \in 1 .. n} \cap S
        BY <2>4, <2>8
    <3> QED BY <2>2, <2>3, <2>5, <2>8, <3>1
  <2> QED BY <2>7, <2>8
<1>7. T = Nat
  <2>1. T \in SUBSET Nat
      OBVIOUS
  <2> HIDE DEF T
  <2> QED BY <1>5, <1>6, <2>1, AllOfNat
<1>8. Good(N, kept[N])
  <2>1. N \in T /\ N <= N
    <3> HIDE DEF T
    <3> QED BY <1>1, <1>7
  <2> QED BY <2>1
<1>9. {q[i] : i \in 1 .. N} = Members(q)
    BY <1>1 DEF Members
<1> QED BY <1>3, <1>8, <1>9

=============================================================================
