-------------------------- MODULE Detection_proofs --------------------------
(***************************************************************************)
(* Theorems of Detection for any configuration, request and replies: what  *)
(* a local detector claims, what a client may override, what a cache key   *)
(* tells apart, and what becomes of a remote detector's reply.             *)
(***************************************************************************)
EXTENDS Detection, FiniteSetTheorems, SequenceTheorems, WellFoundedInduction, TLAPS

LEMMA LeastExists ==
    ASSUME NEW T \in SUBSET Nat, T # {}
    PROVE  \E n \in T : \A k \in T : n <= k
<1>1. PICK n \in T : \A k \in T : ~(<<k, n>> \in OpToRel(<, Nat))
  BY NatLessThanWellFounded, WFMin
<1>2. \A k \in T : ~(k < n)
  BY <1>1 DEF OpToRel
<1>3. n \in Nat /\ \A k \in T : k \in Nat
  OBVIOUS
<1> QED BY <1>2, <1>3

\* The same from above.
LEMMA GreatestExists ==
    ASSUME NEW N \in Nat, NEW T \in SUBSET (0..N), T # {}
    PROVE  \E n \in T : \A k \in T : k <= n
<1> DEFINE U == {m \in Nat : N - m \in T}
<1>1. U \in SUBSET Nat /\ U # {}
  <2>1. PICK k : k \in T
    OBVIOUS
  <2>2. k \in 0..N /\ N - k \in Nat /\ N - (N - k) = k
    BY <2>1
  <2> QED BY <2>1, <2>2
<1>2. PICK m \in U : \A k \in U : m <= k
  <2> HIDE DEF U
  <2> QED BY <1>1, LeastExists
<1>3. N - m \in T
  BY <1>2
<1>4. ASSUME NEW k \in T PROVE k <= N - m
  <2>1. k \in 0..N /\ N - k \in Nat /\ N - (N - k) = k
    OBVIOUS
  <2>2. N - k \in U
    BY <2>1
  <2> QED BY <1>2, <2>1, <2>2
<1> QED BY <1>3, <1>4

-----------------------------------------------------------------------------
(* Sorting: a relation that tells the members of a finite set apart ranks    *)
(* them from 1 to their number.                                              *)

Ranked(S, R) ==
    LET rank == [x \in S |-> Cardinality({y \in S : <<y, x>> \in R})]
    IN [k \in 1..Cardinality(S) |-> CHOOSE x \in S : rank[x] = k - 1]

TellsApart(S, R) ==
    /\ \A x \in S : <<x, x>> \notin R
    /\ \A x, y, z \in S : <<x, y>> \in R /\ <<y, z>> \in R => <<x, z>> \in R
    /\ \A x, y \in S : x # y => <<x, y>> \in R \/ <<y, x>> \in R

\* What q is when it lists S in the order of R.
Lists(q, S, R) ==
    /\ Cardinality(S) \in Nat
    /\ q \in [1..Cardinality(S) -> S]
    /\ \A i, j \in 1..Cardinality(S) : i < j => <<q[i], q[j]>> \in R
    /\ \A x \in S : \E k \in 1..Cardinality(S) : q[k] = x

LEMMA RankedLists ==
    ASSUME NEW S, IsFiniteSet(S), NEW R, TellsApart(S, R)
    PROVE  Lists(Ranked(S, R), S, R)
<1> DEFINE n == Cardinality(S)
           Below(x) == {y \in S : <<y, x>> \in R}
           rank == [x \in S |-> Cardinality(Below(x))]
           q == [k \in 1..n |-> CHOOSE x \in S : rank[x] = k - 1]
<1>1. n \in Nat
  BY FS_CardinalityType
<1>2. \A x \in S : IsFiniteSet(Below(x)) /\ rank[x] = Cardinality(Below(x)) /\ rank[x] \in Nat
  BY FS_Subset, FS_CardinalityType
<1>r. \A x \in S : rank[x] \in Nat
  BY <1>2
<1>3. ASSUME NEW x \in S, NEW T \in SUBSET S, IsFiniteSet(T), Below(x) \subseteq T \ {x}, x \in T
      PROVE  rank[x] < Cardinality(T)
  <2>1. IsFiniteSet(T \ {x}) /\ Cardinality(T \ {x}) = Cardinality(T) - 1
    BY <1>3, FS_RemoveElement
  <2>2. Cardinality(Below(x)) <= Cardinality(T \ {x})
    BY <1>3, <2>1, FS_Subset
  <2>3. Cardinality(T) \in Nat
    BY <1>3, FS_CardinalityType
  <2> HIDE DEF Below, rank
  <2> QED BY <1>2, <2>1, <2>2, <2>3
<1>4. \A x \in S : rank[x] < n
  <2> TAKE x \in S
  <2>1. Below(x) \subseteq S \ {x}
    BY DEF TellsApart
  <2> HIDE DEF Below, rank
  <2> QED BY <1>3, <2>1
<1>5. \A x, y \in S : <<x, y>> \in R => rank[x] < rank[y]
  <2> SUFFICES ASSUME NEW x \in S, NEW y \in S, <<x, y>> \in R PROVE rank[x] < rank[y]
    OBVIOUS
  <2>1. Below(x) \subseteq Below(y) \ {x} /\ x \in Below(y) /\ Below(y) \in SUBSET S
    BY DEF TellsApart
  <2> HIDE DEF Below, rank
  <2> QED BY <1>2, <1>3, <2>1
<1>6. \A x, y \in S : rank[x] < rank[y] => <<x, y>> \in R
  <2> SUFFICES ASSUME NEW x \in S, NEW y \in S, rank[x] < rank[y] PROVE <<x, y>> \in R
    OBVIOUS
  <2> HIDE DEF rank
  <2>1. x # y /\ ~(rank[y] < rank[x])
    BY <1>r
  <2> QED BY <1>5, <2>1 DEF TellsApart
<1>7. rank \in Injection(S, 0..(n - 1))
  <2>1. rank \in [S -> 0..(n - 1)]
    <3>1. \A x \in S : rank[x] \in 0..(n - 1)
      <4> HIDE DEF rank, n
      <4> QED BY <1>1, <1>r, <1>4
    <3> QED BY <3>1
  <2>2. \A x, y \in S : rank[x] = rank[y] => x = y
    <3> SUFFICES ASSUME NEW x \in S, NEW y \in S, rank[x] = rank[y], x # y PROVE FALSE
      OBVIOUS
    <3> HIDE DEF rank
    <3>1. ~(rank[x] < rank[y]) /\ ~(rank[y] < rank[x])
      BY <1>r
    <3> QED BY <1>5, <3>1 DEF TellsApart
  <2> HIDE DEF rank
  <2> QED BY <2>1, <2>2 DEF Injection, IsInjective
<1>8. rank \in Surjection(S, 0..(n - 1))
  <2>1. IsFiniteSet(0..(n - 1)) /\ Cardinality(0..(n - 1)) = n
    BY <1>1, FS_Interval
  <2> HIDE DEF rank
  <2> QED BY <1>7, <2>1, FS_Injection
<1>9. \A k \in 1..n : q[k] \in S /\ rank[q[k]] = k - 1
  <2> TAKE k \in 1..n
  <2>1. k - 1 \in 0..(n - 1)
    BY <1>1
  <2> HIDE DEF rank, n
  <2>2. \E x \in S : rank[x] = k - 1
    BY <1>8, <2>1 DEF Surjection
  <2> QED BY <2>2
<1>10. Ranked(S, R) = q
  BY DEF Ranked
<1>11. q \in [1..n -> S]
  <2> HIDE DEF rank, n
  <2> QED BY <1>9
<1> HIDE DEF q
<1>12. \A i, j \in 1..n : i < j => <<q[i], q[j]>> \in R
  <2> SUFFICES ASSUME NEW i \in 1..n, NEW j \in 1..n, i < j PROVE <<q[i], q[j]>> \in R
    OBVIOUS
  <2> HIDE DEF rank, n
  <2>1. rank[q[i]] < rank[q[j]]
    BY <1>1, <1>9
  <2> QED BY <1>6, <1>9, <2>1
<1>13. \A x \in S : \E k \in 1..n : q[k] = x
  <2> TAKE x \in S
  <2> HIDE DEF rank, n
  <2>1. rank[x] + 1 \in 1..n /\ (rank[x] + 1) - 1 = rank[x]
    BY <1>1, <1>r, <1>4
  <2>2. rank[q[rank[x] + 1]] = rank[x]
    BY <1>9, <2>1
  <2>3. q[rank[x] + 1] = x
    BY <1>7, <1>9, <2>1, <2>2 DEF Injection, IsInjective
  <2> QED BY <2>1, <2>3
<1> QED BY <1>1, <1>10, <1>11, <1>12, <1>13 DEF Lists

Less(I) == {p \in I \X I : p[1] < p[2]}

\* Places in their order.
Ordered(I) == Sorted(I, LAMBDA i, j : i < j)

LEMMA OrderedLists ==
    ASSUME NEW I \in SUBSET Int, IsFiniteSet(I)
    PROVE  /\ Cardinality(I) \in Nat /\ Ordered(I) \in [1..Cardinality(I) -> I]
           /\ \A i, j \in 1..Cardinality(I) : i < j => Ordered(I)[i] < Ordered(I)[j]
           /\ \A x \in I : \E k \in 1..Cardinality(I) : Ordered(I)[k] = x
<1> DEFINE R == Less(I)
           f == Ranked(I, R)
           rankA == [x \in I |-> Cardinality({y \in I : y < x})]
           rankB == [x \in I |-> Cardinality({y \in I : <<y, x>> \in R})]
<1>1. TellsApart(I, R)
  BY DEF TellsApart, Less
<1>2. Lists(f, I, R)
  <2> HIDE DEF R
  <2> QED BY <1>1, RankedLists
<1>3. rankA = rankB
  <2>1. \A x \in I : {y \in I : y < x} = {y \in I : <<y, x>> \in R}
    BY DEF Less
  <2> HIDE DEF R
  <2> QED BY <2>1
<1>4. f = [k \in 1..Cardinality(I) |-> CHOOSE x \in I : rankB[x] = k - 1]
  BY DEF Ranked
<1>5. Ordered(I) = [k \in 1..Cardinality(I) |-> CHOOSE x \in I : rankA[x] = k - 1]
  BY DEF Ordered, Sorted
<1>6. Ordered(I) = f
  <2> HIDE DEF rankA, rankB, f
  <2> QED BY <1>3, <1>4, <1>5
<1>7. \A i, j \in 1..Cardinality(I) : i < j => f[i] < f[j]
  <2> HIDE DEF f
  <2> QED BY <1>2 DEF Lists, Less
<1> HIDE DEF f, R
<1> QED BY <1>2, <1>6, <1>7 DEF Lists

\* What is kept of q at the places I, in the order of the places f lists.
KeptBy(q, I, f) ==
    /\ Cardinality(I) \in Nat
    /\ f \in [1..Cardinality(I) -> I]
    /\ \A i, j \in 1..Cardinality(I) : i < j => f[i] < f[j]
    /\ \A x \in I : \E k \in 1..Cardinality(I) : f[k] = x
    /\ Kept(q, I) = [k \in 1..Cardinality(I) |-> q[f[k]]]

LEMMA KeptInOrder ==
    ASSUME NEW q, NEW I \in SUBSET Int, IsFiniteSet(I)
    PROVE  \E f : KeptBy(q, I, f)
<1> DEFINE f == Ordered(I)
<1>1. /\ Cardinality(I) \in Nat /\ f \in [1..Cardinality(I) -> I]
      /\ \A i, j \in 1..Cardinality(I) : i < j => f[i] < f[j]
      /\ \A x \in I : \E k \in 1..Cardinality(I) : f[k] = x
  BY OrderedLists
<1>2. Kept(q, I) = [k \in DOMAIN f |-> q[f[k]]]
  BY DEF Kept, Ordered
<1> HIDE DEF f
<1>3. KeptBy(q, I, f)
  BY <1>1, <1>2 DEF KeptBy
<1> QED BY <1>3

\* The places of a sequence are finitely many integers.
LEMMA Places1 ==
    ASSUME NEW X, NEW q \in Seq(X), NEW I \in SUBSET DOMAIN q
    PROVE  /\ I \in SUBSET Int /\ IsFiniteSet(I)
           /\ \A i \in I : i \in 1..Len(q) /\ q[i] \in X
<1>1. Len(q) \in Nat /\ DOMAIN q = 1..Len(q)
  BY LenProperties
<1>2. IsFiniteSet(1..Len(q))
  BY <1>1, FS_Interval
<1>3. IsFiniteSet(I)
  BY <1>1, <1>2, FS_Subset
<1> QED BY <1>1, <1>3, ElementOfSeq

\* What is kept of a sequence is a sequence of what stands at the places.
LEMMA KeptTyped ==
    ASSUME NEW X, NEW q \in Seq(X), NEW I \in SUBSET DOMAIN q
    PROVE  /\ Kept(q, I) \in Seq(X)
           /\ ToSet(Kept(q, I)) = {q[i] : i \in I}
           /\ I # {} => Kept(q, I) # <<>>
<1>1. I \in SUBSET Int /\ IsFiniteSet(I) /\ \A i \in I : q[i] \in X
  BY Places1
<1>2. PICK f : KeptBy(q, I, f)
  BY <1>1, KeptInOrder
<1> DEFINE n == Cardinality(I)
<1>3. /\ n \in Nat /\ f \in [1..n -> I]
      /\ \A x \in I : \E k \in 1..n : f[k] = x
      /\ Kept(q, I) = [k \in 1..n |-> q[f[k]]]
  BY <1>2 DEF KeptBy
<1> HIDE DEF n
<1>4. Kept(q, I) \in [1..n -> X]
  BY <1>1, <1>3
<1>5. Kept(q, I) \in Seq(X)
  BY <1>3, <1>4, SeqDef
<1>6. ToSet(Kept(q, I)) = {q[i] : i \in I}
  <2>1. DOMAIN Kept(q, I) = 1..n /\ \A k \in 1..n : Kept(q, I)[k] = q[f[k]] /\ f[k] \in I
    BY <1>3
  <2>2. \A k \in 1..n : Kept(q, I)[k] \in {q[i] : i \in I}
    BY <2>1
  <2>3. ASSUME NEW i \in I PROVE \E k \in 1..n : Kept(q, I)[k] = q[i]
    BY <1>3, <2>1
  <2> QED BY <2>1, <2>2, <2>3 DEF ToSet
<1>7. I # {} => Kept(q, I) # <<>>
  <2>1. ToSet(<<>>) = {}
    BY DEF ToSet
  <2> QED BY <1>6, <2>1
<1> QED BY <1>5, <1>6, <1>7

\* The k-th of the longest comes no later than the l-th if it is as long.
LEMMA LongestFirstOrder ==
    ASSUME NEW X, NEW q \in Seq(X), \A c \in X : c.start \in Int /\ c.end \in Int
    PROVE  /\ LongestFirst(q) \in Seq(X)
           /\ ToSet(LongestFirst(q)) = ToSet(q)
           /\ \A k, l \in DOMAIN LongestFirst(q) :
                k < l => Width(LongestFirst(q)[k]) >= Width(LongestFirst(q)[l])
<1> DEFINE D == DOMAIN q
           R == {p \in D \X D : Before(q, p[1], p[2])}
           f == Ranked(D, R)
           rankA == [x \in D |-> Cardinality({y \in D : Before(q, y, x)})]
           rankB == [x \in D |-> Cardinality({y \in D : <<y, x>> \in R})]
<1>1. /\ D \in SUBSET Int /\ IsFiniteSet(D)
      /\ \A i \in D : i \in Int /\ q[i] \in X /\ Width(q[i]) \in Int /\ q[i].start \in Int
  BY Places1 DEF Width
<1>2. TellsApart(D, R)
  <2> HIDE DEF D
  <2>1. \A x, y \in D : <<x, y>> \in R <=> Before(q, x, y)
    OBVIOUS
  <2> HIDE DEF R
  <2>2. \A x \in D : ~Before(q, x, x)
    BY <1>1 DEF Before
  <2>3. ASSUME NEW x \in D, NEW y \in D, NEW z \in D, Before(q, x, y), Before(q, y, z)
        PROVE  Before(q, x, z)
    BY <1>1, <2>3 DEF Before
  <2>4. \A x, y \in D : x # y => Before(q, x, y) \/ Before(q, y, x)
    BY <1>1 DEF Before
  <2> QED BY <2>1, <2>2, <2>3, <2>4 DEF TellsApart
<1>3. Lists(f, D, R)
  <2> HIDE DEF D, R
  <2> QED BY <1>1, <1>2, RankedLists
<1>4. rankA = rankB
  <2>1. \A x \in D : {y \in D : Before(q, y, x)} = {y \in D : <<y, x>> \in R}
    OBVIOUS
  <2> HIDE DEF R
  <2> QED BY <2>1
<1>5. f = [k \in 1..Cardinality(D) |-> CHOOSE x \in D : rankB[x] = k - 1]
  BY DEF Ranked
<1>6. Sorted(D, LAMBDA i, j : Before(q, i, j))
        = [k \in 1..Cardinality(D) |-> CHOOSE x \in D : rankA[x] = k - 1]
  BY DEF Sorted
<1>7. Sorted(D, LAMBDA i, j : Before(q, i, j)) = f
  <2> HIDE DEF rankA, rankB, f, D
  <2> QED BY <1>4, <1>5, <1>6
<1>8. LongestFirst(q) = [k \in D |-> q[f[k]]]
  <2> HIDE DEF f
  <2> QED BY <1>7 DEF LongestFirst
<1>9. Cardinality(D) = Len(q) /\ D = 1..Len(q) /\ Len(q) \in Nat
  <2>1. D = 1..Len(q) /\ Len(q) \in Nat
    BY LenProperties
  <2>2. Cardinality(1..Len(q)) = Len(q)
    BY <2>1, FS_Interval
  <2> QED BY <2>1, <2>2
<1>10. /\ f \in [1..Len(q) -> D]
       /\ \A i, j \in 1..Len(q) : i < j => Before(q, f[i], f[j])
       /\ \A x \in D : \E k \in 1..Len(q) : f[k] = x
  <2>1. \A x, y \in D : <<x, y>> \in R => Before(q, x, y)
    OBVIOUS
  <2> HIDE DEF f, D, R
  <2> QED BY <1>3, <1>9, <2>1 DEF Lists
<1> HIDE DEF f, D, R
<1> DEFINE r == LongestFirst(q)
<1>11. r \in [1..Len(q) -> X] /\ \A k \in 1..Len(q) : r[k] = q[f[k]] /\ f[k] \in D
  BY <1>1, <1>8, <1>9, <1>10
<1>12. r \in Seq(X) /\ DOMAIN r = 1..Len(q)
  BY <1>9, <1>11, SeqDef
<1>13. ToSet(r) = ToSet(q)
  <2> HIDE DEF r
  <2>1. \A k \in DOMAIN r : \E i \in DOMAIN q : r[k] = q[i]
    BY <1>11, <1>12 DEF D
  <2>2. \A i \in DOMAIN q : \E k \in DOMAIN r : r[k] = q[i]
    BY <1>10, <1>11, <1>12 DEF D
  <2> QED BY <2>1, <2>2 DEF ToSet
<1>14. \A k, l \in DOMAIN r : k < l => Width(r[k]) >= Width(r[l])
  <2> SUFFICES ASSUME NEW k \in 1..Len(q), NEW l \in 1..Len(q), k < l
               PROVE  Width(r[k]) >= Width(r[l])
    BY <1>12
  <2>1. Before(q, f[k], f[l]) /\ f[k] \in D /\ f[l] \in D
    BY <1>10
  <2>2. Width(q[f[k]]) \in Int /\ Width(q[f[l]]) \in Int
    BY <1>1, <2>1
  <2>3. \/ Width(q[f[k]]) > Width(q[f[l]])
        \/ Width(q[f[k]]) = Width(q[f[l]])
    BY <2>1 DEF Before
  <2>4. Width(q[f[k]]) >= Width(q[f[l]])
    BY <2>2, <2>3
  <2> HIDE DEF r
  <2> QED BY <1>11, <2>4
<1> QED BY <1>12, <1>13, <1>14

-----------------------------------------------------------------------------
(* Sequences of sequences, and passes over a text from one place to a later. *)

LEMMA JoinedSet ==
    ASSUME NEW X, NEW a \in Seq(X), NEW b \in Seq(X)
    PROVE  a \o b \in Seq(X) /\ ToSet(a \o b) = ToSet(a) \cup ToSet(b)
<1>1. /\ Len(a) \in Nat /\ Len(b) \in Nat /\ DOMAIN a = 1..Len(a) /\ DOMAIN b = 1..Len(b)
      /\ a \o b \in Seq(X) /\ DOMAIN (a \o b) = 1..(Len(a) + Len(b))
      /\ \A i \in 1..(Len(a) + Len(b)) :
           (a \o b)[i] = IF i <= Len(a) THEN a[i] ELSE b[i - Len(a)]
  BY ConcatProperties, LenProperties
<1> DEFINE c == a \o b
<1>2. ASSUME NEW i \in DOMAIN c PROVE c[i] \in ToSet(a) \cup ToSet(b)
  <2>1. CASE i <= Len(a)
    BY <1>1, <2>1 DEF ToSet
  <2>2. CASE ~(i <= Len(a))
    <3>1. i - Len(a) \in 1..Len(b)
      BY <1>1, <2>2
    <3> QED BY <1>1, <2>2, <3>1 DEF ToSet
  <2> QED BY <2>1, <2>2
<1>3. ASSUME NEW i \in DOMAIN a PROVE \E k \in DOMAIN c : c[k] = a[i]
  <2>1. i \in DOMAIN c /\ i <= Len(a)
    BY <1>1
  <2> QED BY <1>1, <2>1
<1>4. ASSUME NEW i \in DOMAIN b PROVE \E k \in DOMAIN c : c[k] = b[i]
  <2>1. i + Len(a) \in DOMAIN c /\ ~(i + Len(a) <= Len(a)) /\ (i + Len(a)) - Len(a) = i
    BY <1>1
  <2> QED BY <1>1, <2>1
<1>5. ToSet(c) \subseteq ToSet(a) \cup ToSet(b)
  <2> HIDE DEF c
  <2>1. \A x \in ToSet(c) : \E i \in DOMAIN c : x = c[i]
    BY DEF ToSet
  <2> QED BY <1>2, <2>1
<1>6. ToSet(a) \cup ToSet(b) \subseteq ToSet(c)
  <2> HIDE DEF c
  <2> QED BY <1>3, <1>4 DEF ToSet
<1> QED BY <1>1, <1>5, <1>6

FlatTo(q, f, m) == f = [i \in 1..m |-> IF i = 1 THEN q[i] ELSE f[i - 1] \o q[i]]

LEMMA FlatExists ==
    ASSUME NEW q, NEW n \in Nat, n # 0
    PROVE  \E f : FlatTo(q, f, n)
<1> DEFINE Bad == {m \in 1..n : ~\E f : FlatTo(q, f, m)}
<1>1. SUFFICES ASSUME Bad # {} PROVE FALSE
  BY n \in 1..n
<1>2. PICK m \in Bad : \A k \in Bad : m <= k
  <2>1. Bad \in SUBSET Nat
    OBVIOUS
  <2> HIDE DEF Bad
  <2> QED BY <1>1, <2>1, LeastExists
<1>3. m \in 1..n /\ ~\E f : FlatTo(q, f, m)
  BY <1>2
<1>4. CASE m = 1
  <2>1. FlatTo(q, [i \in 1..1 |-> q[1]], 1)
    <3>1. \A i \in 1..1 : i = 1
      OBVIOUS
    <3> QED BY <3>1 DEF FlatTo
  <2> QED BY <1>3, <1>4, <2>1
<1>5. CASE m # 1
  <2>1. m - 1 \in 1..n /\ ~(m <= m - 1)
    BY <1>3, <1>5
  <2>2. PICK f : FlatTo(q, f, m - 1)
    <3>1. m - 1 \notin Bad
      <4> HIDE DEF Bad
      <4> QED BY <1>2, <2>1
    <3> QED BY <2>1, <3>1
  <2> DEFINE g == [i \in 1..m |-> IF i = m THEN f[m - 1] \o q[m] ELSE f[i]]
             h == [i \in 1..m |-> IF i = 1 THEN q[i] ELSE g[i - 1] \o q[i]]
  <2>3. \A i \in 1..(m - 1) : f[i] = IF i = 1 THEN q[i] ELSE f[i - 1] \o q[i]
    BY <2>2 DEF FlatTo
  <2>4. \A i \in 1..(m - 1) : i \in 1..m /\ i # m /\ g[i] = f[i]
    BY <1>3
  <2>5. \A i \in 1..m : g[i] = h[i]
    <3> TAKE i \in 1..m
    <3>1. CASE i = m
      <4>1. g[m - 1] = f[m - 1] /\ m # 1
        BY <1>5, <2>1, <2>4
      <4> HIDE DEF Bad
      <4>2. g[i] = f[m - 1] \o q[m]
        BY <3>1
      <4>3. h[i] = g[m - 1] \o q[m]
        BY <3>1, <4>1
      <4> HIDE DEF g, h
      <4> QED BY <4>1, <4>2, <4>3
    <3>2. CASE i # m /\ i = 1
      <4>1. i \in 1..(m - 1)
        BY <1>3, <3>2
      <4>2. h[i] = q[i]
        BY <3>2
      <4> HIDE DEF g, h
      <4> QED BY <2>3, <2>4, <3>2, <4>1, <4>2
    <3>3. CASE i # m /\ i # 1
      <4>1. i \in 1..(m - 1) /\ i - 1 \in 1..(m - 1)
        BY <1>3, <3>3
      <4>2. h[i] = g[i - 1] \o q[i]
        BY <3>3
      <4> HIDE DEF g, h
      <4> QED BY <2>3, <2>4, <3>3, <4>1, <4>2
    <3> QED BY <3>1, <3>2, <3>3
  <2>6. g = [i \in 1..m |-> g[i]] /\ h = [i \in 1..m |-> h[i]]
    OBVIOUS
  <2>7. g = h
    <3> HIDE DEF g, h
    <3> QED BY <2>5, <2>6
  <2>8. FlatTo(q, g, m)
    <3> HIDE DEF g
    <3> QED BY <2>7 DEF FlatTo
  <2> QED BY <1>3, <2>8
<1> QED BY <1>4, <1>5

\* A flattened sequence holds what the sequences in it hold.
LEMMA Flattened ==
    ASSUME NEW X, NEW q \in Seq(Seq(X))
    PROVE  /\ FlattenSeq(q) \in Seq(X)
           /\ \A i \in DOMAIN q : ToSet(q[i]) \subseteq ToSet(FlattenSeq(q))
           /\ \A x \in ToSet(FlattenSeq(q)) : \E i \in DOMAIN q : x \in ToSet(q[i])
<1> DEFINE n == Len(q)
<1>1. n \in Nat /\ DOMAIN q = 1..n /\ \A i \in 1..n : q[i] \in Seq(X)
  BY LenProperties, ElementOfSeq
<1>2. CASE n = 0
  <2>1. q = <<>> /\ FlattenSeq(q) = q
    BY <1>2, EmptySeq DEF FlattenSeq
  <2>2. q \in Seq(X) /\ DOMAIN q = {}
    BY <1>1, <1>2, <2>1, EmptySeq
  <2>3. ToSet(q) = {}
    BY <2>2 DEF ToSet
  <2> QED BY <2>1, <2>2, <2>3
<1>3. CASE n # 0
  <2> DEFINE F == CHOOSE f : FlatTo(q, f, n)
  <2>1. FlatTo(q, F, n)
    <3> HIDE DEF n
    <3> QED BY <1>1, <1>3, FlatExists
  <2>2. FlattenSeq(q) = F[n]
    BY <1>3 DEF FlattenSeq, FlatTo
  <2> HIDE DEF F, n
  <2>3. \A i \in 1..n : F[i] = IF i = 1 THEN q[i] ELSE F[i - 1] \o q[i]
    BY <2>1 DEF FlatTo
  <2> DEFINE Good(m) == /\ F[m] \in Seq(X)
                        /\ \A i \in 1..m : ToSet(q[i]) \subseteq ToSet(F[m])
                        /\ \A x \in ToSet(F[m]) : \E i \in 1..m : x \in ToSet(q[i])
             Bad == {m \in 1..n : ~Good(m)}
  <2>4. Bad = {}
    <3>1. SUFFICES ASSUME Bad # {} PROVE FALSE
      OBVIOUS
    <3>2. PICK m \in Bad : \A k \in Bad : m <= k
      <4>1. Bad \in SUBSET Nat
        BY <1>1
      <4> HIDE DEF Bad
      <4> QED BY <3>1, <4>1, LeastExists
    <3>3. m \in 1..n /\ ~Good(m)
      BY <3>2
    <3>4. CASE m = 1
      <4>1. F[1] = q[1] /\ q[1] \in Seq(X) /\ \A i \in 1..1 : i = 1
        BY <1>1, <2>3, <3>3, <3>4
      <4> QED BY <3>3, <3>4, <4>1
    <3>5. CASE m # 1
      <4>1. m - 1 \in 1..n /\ ~(m <= m - 1) /\ 1..m = 1..(m - 1) \cup {m}
        BY <1>1, <3>3, <3>5
      <4>2. Good(m - 1)
        <5>1. m - 1 \notin Bad
          <6> HIDE DEF Bad
          <6> QED BY <3>2, <4>1
        <5> QED BY <4>1, <5>1
      <4>3. F[m] = F[m - 1] \o q[m] /\ q[m] \in Seq(X) /\ F[m - 1] \in Seq(X)
        BY <1>1, <2>3, <3>3, <3>5, <4>2
      <4>4. F[m] \in Seq(X) /\ ToSet(F[m]) = ToSet(F[m - 1]) \cup ToSet(q[m])
        BY <4>3, JoinedSet
      <4>5. \A i \in 1..m : ToSet(q[i]) \subseteq ToSet(F[m])
        BY <4>1, <4>2, <4>4
      <4>6. \A x \in ToSet(F[m]) : \E i \in 1..m : x \in ToSet(q[i])
        BY <4>1, <4>2, <4>4
      <4> QED BY <3>3, <4>4, <4>5, <4>6
    <3> QED BY <3>4, <3>5
  <2>5. n \in 1..n
    BY <1>1, <1>3
  <2>6. Good(n)
    BY <2>4, <2>5
  <2> QED BY <1>1, <2>2, <2>6
<1> QED BY <1>2, <1>3

\* What a pass yields from the place s up to n on: P[s] where it finds something,
\* then what it yields at the place N[s] where it goes on.
Link(n, H, P, N, f, s) == IF s = n THEN <<>> ELSE IF s \in H THEN P[s] \o f[N[s]] ELSE f[N[s]]
Chain(m, n, H, P, N, f) == f = [s \in m..n |-> Link(n, H, P, N, f, s)]

LEMMA ChainExists ==
    ASSUME NEW n \in Nat, NEW H, NEW P, NEW N, \A s \in 0..(n - 1) : N[s] \in (s + 1)..n
    PROVE  \E f : Chain(0, n, H, P, N, f)
<1> DEFINE Bad == {m \in 0..n : ~\E f : Chain(m, n, H, P, N, f)}
<1>1. SUFFICES ASSUME Bad # {} PROVE FALSE
  BY 0 \in 0..n
<1>2. PICK m \in Bad : \A k \in Bad : k <= m
  <2>1. Bad \in SUBSET (0..n)
    OBVIOUS
  <2> HIDE DEF Bad
  <2> QED BY <1>1, <2>1, GreatestExists
<1>3. m \in 0..n /\ ~\E f : Chain(m, n, H, P, N, f)
  BY <1>2
<1>4. CASE m = n
  <2>1. Chain(n, n, H, P, N, [s \in n..n |-> <<>>])
    <3>1. \A s \in n..n : s = n
      OBVIOUS
    <3> QED BY <3>1 DEF Chain, Link
  <2> QED BY <1>3, <1>4, <2>1
<1>5. CASE m # n
  <2>1. m \in 0..(n - 1) /\ m + 1 \in 0..n /\ ~(m + 1 <= m)
    BY <1>3, <1>5
  <2>2. PICK f : Chain(m + 1, n, H, P, N, f)
    <3>1. m + 1 \notin Bad
      <4> HIDE DEF Bad
      <4> QED BY <1>2, <2>1
    <3> QED BY <2>1, <3>1
  <2> DEFINE g == [s \in m..n |-> IF s = m THEN Link(n, H, P, N, f, m) ELSE f[s]]
             h == [s \in m..n |-> Link(n, H, P, N, g, s)]
  <2>3. \A s \in (m + 1)..n : f[s] = Link(n, H, P, N, f, s)
    BY <2>2 DEF Chain
  <2>4. \A s \in (m + 1)..n : s \in m..n /\ s # m /\ g[s] = f[s]
    BY <2>1
  <2>5. \A s \in m..n : g[s] = h[s]
    <3> TAKE s \in m..n
    <3>1. CASE s = n
      <4>1. s \in (m + 1)..n
        BY <2>1, <3>1
      <4>2. h[s] = Link(n, H, P, N, g, s)
        OBVIOUS
      <4> HIDE DEF g, h
      <4> QED BY <2>3, <2>4, <3>1, <4>1, <4>2 DEF Link
    <3>2. CASE s # n
      <4>1. s \in 0..(n - 1) /\ N[s] \in (m + 1)..n
        <5>1. s \in 0..(n - 1)
          BY <2>1, <3>2
        <5>2. N[s] \in (s + 1)..n
          BY <5>1
        <5> QED BY <2>1, <5>1, <5>2
      <4>2. h[s] = Link(n, H, P, N, g, s) /\ g[N[s]] = f[N[s]]
        BY <2>4, <4>1
      <4>3. g[s] = Link(n, H, P, N, f, s)
        <5>1. CASE s = m
          BY <5>1
        <5>2. CASE s # m
          <6>1. s \in (m + 1)..n
            BY <2>1, <5>2
          <6> HIDE DEF g, h
          <6> QED BY <2>3, <2>4, <3>2, <6>1
        <5> QED BY <5>1, <5>2
      <4> HIDE DEF g, h
      <4> QED BY <3>2, <4>2, <4>3 DEF Link
    <3> QED BY <3>1, <3>2
  <2>6. g = [s \in m..n |-> g[s]] /\ h = [s \in m..n |-> h[s]]
    OBVIOUS
  <2>7. g = h
    <3> HIDE DEF g, h
    <3> QED BY <2>5, <2>6
  <2>8. Chain(m, n, H, P, N, g)
    <3> HIDE DEF g
    <3> QED BY <2>7 DEF Chain
  <2> QED BY <1>3, <2>8
<1> QED BY <1>4, <1>5

LEMMA ChainTyped ==
    ASSUME NEW n \in Nat, NEW H, NEW P, NEW N, \A s \in 0..(n - 1) : N[s] \in (s + 1)..n,
           NEW X, \A s \in 0..(n - 1) : P[s] \in Seq(X),
           NEW f, Chain(0, n, H, P, N, f)
    PROVE  \A s \in 0..n : f[s] \in Seq(X)
<1> DEFINE Bad == {m \in 0..n : f[m] \notin Seq(X)}
<1>1. SUFFICES ASSUME Bad # {} PROVE FALSE
  OBVIOUS
<1>2. PICK m \in Bad : \A k \in Bad : k <= m
  <2>1. Bad \in SUBSET (0..n)
    OBVIOUS
  <2> HIDE DEF Bad
  <2> QED BY <1>1, <2>1, GreatestExists
<1>3. m \in 0..n /\ f[m] \notin Seq(X)
  BY <1>2
<1>4. \A s \in 0..n : f[s] = Link(n, H, P, N, f, s)
  BY DEF Chain
<1>5. CASE m = n
  BY <1>3, <1>4, <1>5, EmptySeq DEF Link
<1>6. CASE m # n
  <2>1. m \in 0..(n - 1)
    BY <1>3, <1>6
  <2>2. N[m] \in 0..n /\ ~(N[m] <= m)
    BY <2>1
  <2>3. f[N[m]] \in Seq(X)
    <3>1. N[m] \notin Bad
      <4> HIDE DEF Bad
      <4> QED BY <1>2, <2>2
    <3> QED BY <2>2, <3>1
  <2>4. f[m] = IF m \in H THEN P[m] \o f[N[m]] ELSE f[N[m]]
    BY <1>3, <1>4, <1>6 DEF Link
  <2>5. P[m] \in Seq(X)
    BY <2>1
  <2> QED BY <1>3, <2>3, <2>4, <2>5, ConcatProperties
<1> QED BY <1>5, <1>6

-----------------------------------------------------------------------------
(* What the local detectors consider: spans of at least one character.       *)

Spans(q) == /\ q \in Seq(ToSet(q))
            /\ \A c \in ToSet(q) : c.start \in Int /\ c.end \in Int /\ c.start < c.end

LEMMA SpansOver ==
    ASSUME NEW X, \A c \in X : c.start \in Int /\ c.end \in Int /\ c.start < c.end,
           NEW q \in Seq(X)
    PROVE  Spans(q)
<1>1. Len(q) \in Nat /\ DOMAIN q = 1..Len(q) /\ \A i \in 1..Len(q) : q[i] \in X
  BY LenProperties, ElementOfSeq
<1>2. q \in [1..Len(q) -> X]
  BY <1>1, LenProperties
<1>3. \A i \in 1..Len(q) : q[i] \in ToSet(q)
  BY <1>1 DEF ToSet
<1>4. q \in [1..Len(q) -> ToSet(q)]
  BY <1>2, <1>3
<1>5. q \in Seq(ToSet(q))
  BY <1>1, <1>4, SeqDef
<1>6. \A c \in ToSet(q) : c \in X
  BY <1>1 DEF ToSet
<1> QED BY <1>5, <1>6 DEF Spans

LEMMA SpansJoined ==
    ASSUME NEW a, NEW b, Spans(a), Spans(b)
    PROVE  Spans(a \o b)
<1> DEFINE X == ToSet(a) \cup ToSet(b)
<1>1. a \in Seq(X) /\ b \in Seq(X)
  <2>1. a \in Seq(ToSet(a)) /\ b \in Seq(ToSet(b))
    BY DEF Spans
  <2> QED BY <2>1, SeqMonotonic
<1>2. a \o b \in Seq(X)
  BY <1>1, ConcatProperties
<1>3. \A c \in X : c.start \in Int /\ c.end \in Int /\ c.start < c.end
  BY DEF Spans
<1> HIDE DEF X
<1> QED BY <1>2, <1>3, SpansOver

LEMMA SpansSorted ==
    ASSUME NEW q, Spans(q)
    PROVE  /\ Spans(LongestFirst(q))
           /\ \A k, l \in DOMAIN LongestFirst(q) :
                k < l => Width(LongestFirst(q)[k]) >= Width(LongestFirst(q)[l])
<1> DEFINE X == ToSet(q)
<1>1. q \in Seq(X) /\ \A c \in X : c.start \in Int /\ c.end \in Int /\ c.start < c.end
  BY DEF Spans
<1> HIDE DEF X
<1>2. LongestFirst(q) \in Seq(X)
  BY <1>1, LongestFirstOrder
<1>3. Spans(LongestFirst(q))
  BY <1>1, <1>2, SpansOver
<1>4. \A c \in X : c.start \in Int /\ c.end \in Int
  BY <1>1
<1> QED BY <1>1, <1>3, <1>4, LongestFirstOrder

\* Regex.

LEMMA FindsTyped ==
    ASSUME NEW whole \in Seq(Char), whole # <<>>, NEW t \in Seq(Char)
    PROVE  Finds(whole, t) \in Seq(0..Len(t))
<1> DEFINE n == Len(t) + 1
           H == Places(whole, t)
           P == [s \in 0..(n - 1) |-> <<s>>]
           N == [s \in 0..(n - 1) |-> IF s \in H THEN s + Len(whole) ELSE s + 1]
           From(f, s) == IF s > Len(t) THEN <<>>
                         ELSE IF s \in Places(whole, t) THEN <<s>> \o f[s + Len(whole)]
                         ELSE f[s + 1]
           F == CHOOSE f : f = [s \in 0..n |-> From(f, s)]
<1>1. Len(t) \in Nat /\ Len(whole) \in Nat /\ Len(whole) # 0 /\ n \in Nat
  BY LenProperties, EmptySeq
<1>2. \A s \in H : s \in 0..(n - 1) /\ s + Len(whole) <= Len(t)
  BY <1>1 DEF Places
<1>3. \A s \in 0..(n - 1) : N[s] \in (s + 1)..n
  BY <1>1, <1>2
<1>4. \A s \in 0..(n - 1) : P[s] \in Seq(0..Len(t))
  <2> TAKE s \in 0..(n - 1)
  <2>1. s \in 0..Len(t) /\ P[s] = <<s>>
    BY <1>1
  <2> QED BY <2>1
<1>5. \A f : \A s \in 0..n : From(f, s) = Link(n, H, P, N, f, s)
  <2> TAKE f
  <2> TAKE s \in 0..n
  <2>1. CASE s = n
    BY <1>1, <2>1 DEF Link
  <2>2. CASE s # n
    <3>1. s \in 0..(n - 1) /\ ~(s > Len(t))
      BY <1>1, <2>2
    <3> QED BY <2>2, <3>1 DEF Link
  <2> QED BY <2>1, <2>2
<1> HIDE DEF From, H, P, N
<1>6. \A f : f = [s \in 0..n |-> From(f, s)] <=> Chain(0, n, H, P, N, f)
  <2> TAKE f
  <2>1. [s \in 0..n |-> From(f, s)] = [s \in 0..n |-> Link(n, H, P, N, f, s)]
    BY <1>5
  <2> QED BY <2>1 DEF Chain
<1>7. \E f : f = [s \in 0..n |-> From(f, s)]
  <2> HIDE DEF n
  <2>1. \E f : Chain(0, n, H, P, N, f)
    BY <1>1, <1>3, ChainExists
  <2> QED BY <1>6, <2>1
<1>8. F = [s \in 0..n |-> From(F, s)]
  <2> HIDE DEF n
  <2> QED BY <1>7
<1>9. Finds(whole, t) = F[0]
  BY DEF Finds, From
<1> HIDE DEF F
<1>10. F[0] \in Seq(0..Len(t))
  <2>1. Chain(0, n, H, P, N, F)
    BY <1>6, <1>8
  <2>2. 0 \in 0..n
    BY <1>1
  <2> HIDE DEF n
  <2> QED BY <1>1, <1>3, <1>4, <2>1, <2>2, ChainTyped
<1> QED BY <1>9, <1>10

LEMMA Narrowed ==
    ASSUME NEW X, NEW q \in Seq(X), NEW Y, ToSet(q) \subseteq Y
    PROVE  q \in Seq(Y)
<1>1. Len(q) \in Nat /\ q \in [1..Len(q) -> X] /\ DOMAIN q = 1..Len(q)
  BY LenProperties
<1>2. \A i \in 1..Len(q) : q[i] \in Y
  BY <1>1 DEF ToSet
<1>3. q \in [1..Len(q) -> Y]
  BY <1>1, <1>2
<1> QED BY <1>1, <1>3, SeqDef

FoundValue(p, s) == [Found(p, s) EXCEPT !.value = Strip(@)]

LEMMA StripEmpty == Strip(<<>>) = <<>>
  BY DEF Strip

LEMMA FoundProper ==
    ASSUME NEW p \in [type : STRING, label : Seq(Char), value : Seq(Char), group : STRING],
           p.label \o p.value # <<>>, NEW s \in Int, FoundValue(p, s).value # <<>>
    PROVE  /\ FoundValue(p, s).start \in Int /\ FoundValue(p, s).end \in Int
           /\ FoundValue(p, s).start < FoundValue(p, s).end
<1> DEFINE l == p.label
           v == p.value
           inner == s + Len(l)
<1>1. /\ l \in Seq(Char) /\ v \in Seq(Char) /\ Len(l) \in Nat /\ Len(v) \in Nat
      /\ Len(l \o v) = Len(l) + Len(v) /\ l \o v \in Seq(Char)
  <2>1. l \in Seq(Char) /\ v \in Seq(Char)
    OBVIOUS
  <2> HIDE DEF l, v
  <2> QED BY <2>1, LenProperties, ConcatProperties
<1>2. inner \in Int
  BY <1>1
<1>3. CASE p.group \in {"entity", "positional"}
  <2>1. Found(p, s) = [start |-> inner, end |-> inner + Len(v), value |-> v, type |-> p.type]
    BY <1>3 DEF Found, Candidate
  <2>2. FoundValue(p, s) = [start |-> inner, end |-> inner + Len(v), value |-> Strip(v), type |-> p.type]
    <3> HIDE DEF inner, v
    <3> QED BY <2>1 DEF FoundValue
  <2>3. v # <<>>
    BY <2>2, StripEmpty
  <2>4. Len(v) # 0
    <3> HIDE DEF v
    <3> QED BY <1>1, <2>3, EmptySeq
  <2> HIDE DEF inner, v
  <2> QED BY <1>1, <1>2, <2>2, <2>4
<1>4. CASE p.group = "absent"
  <2>1. Found(p, s) = [start |-> -1, end |-> -1, value |-> <<>>, type |-> p.type]
    BY <1>4 DEF Found, Candidate
  <2>2. FoundValue(p, s).value = Strip(<<>>)
    BY <2>1 DEF FoundValue
  <2> QED BY <2>2, StripEmpty
<1>5. CASE p.group \notin {"entity", "positional", "absent"}
  <2>1. Found(p, s) = [start |-> s, end |-> inner + Len(v), value |-> l \o v, type |-> p.type]
    BY <1>5 DEF Found, Candidate
  <2>2. FoundValue(p, s) = [start |-> s, end |-> inner + Len(v), value |-> Strip(l \o v), type |-> p.type]
    <3> HIDE DEF inner, v, l
    <3> QED BY <2>1 DEF FoundValue
  <2>3. Len(l \o v) # 0
    <3>1. l \o v # <<>>
      OBVIOUS
    <3> HIDE DEF l, v
    <3> QED BY <1>1, <3>1, EmptySeq
  <2>4. inner + Len(v) = s + Len(l \o v) /\ inner + Len(v) \in Int
    <3>1. inner = s + Len(l)
      OBVIOUS
    <3> HIDE DEF inner, l, v
    <3> QED BY <1>1, <1>2, <3>1
  <2>5. Len(l \o v) \in Nat
    BY <1>1
  <2> HIDE DEF inner, l, v
  <2>6. s < inner + Len(v)
    BY <2>3, <2>4, <2>5
  <2> QED BY <2>2, <2>4, <2>6
<1> QED BY <1>3, <1>4, <1>5

LEMMA RegexSpans ==
    ASSUME NEW patterns, IsPatterns(patterns), NEW t \in Seq(Char)
    PROVE  Spans(RegexCandidates(patterns, t))
<1> DEFINE Shape == [type : STRING, label : Seq(Char), value : Seq(Char), group : STRING]
           At(p) == Finds(p.label \o p.value, t)
           All(p) == [k \in DOMAIN At(p) |-> FoundValue(p, At(p)[k])]
           Stays(p) == {k \in DOMAIN All(p) : All(p)[k].value # <<>>
                                              /\ Valid(All(p)[k].type, All(p)[k].value)}
           Of(p) == Kept(All(p), Stays(p))
           q == [i \in DOMAIN patterns |-> Of(patterns[i])]
           D == DOMAIN patterns
           X == {FoundValue(patterns[i[1]], i[2]) : i \in D \X (0..Len(t))}
           Y == {c \in X : c.value # <<>>}
<1>1. Len(patterns) \in Nat /\ D = 1..Len(patterns) /\ \A i \in D : patterns[i] \in Shape
  BY LenProperties, ElementOfSeq DEF IsPatterns
<1>2. ASSUME NEW i \in D PROVE Of(patterns[i]) \in Seq(Y)
  <2> DEFINE p == patterns[i]
             all == All(p)
             at == At(p)
  <2>1. p \in Shape /\ p.label \o p.value # <<>>
    BY <1>1 DEF IsPatterns
  <2>2. p.label \o p.value \in Seq(Char)
    <3>1. p.label \in Seq(Char) /\ p.value \in Seq(Char)
      BY <2>1
    <3> QED BY <3>1, ConcatProperties
  <2>3. at \in Seq(0..Len(t))
    <3> HIDE DEF p
    <3> QED BY <2>1, <2>2, FindsTyped
  <2>4. Len(at) \in Nat /\ DOMAIN at = 1..Len(at) /\ \A k \in DOMAIN at : at[k] \in 0..Len(t)
    <3> HIDE DEF at
    <3> QED BY <2>3, LenProperties, ElementOfSeq
  <2>5. \A k \in DOMAIN at : all[k] \in X
    <3> HIDE DEF at, D
    <3>1. ASSUME NEW k \in DOMAIN at PROVE FoundValue(patterns[i], at[k]) \in X
      <4>1. <<i, at[k]>> \in D \X (0..Len(t))
        BY <2>4
      <4>2. FoundValue(patterns[<<i, at[k]>>[1]], <<i, at[k]>>[2]) \in X
        BY <4>1
      <4> QED BY <4>2
    <3> QED BY <3>1 DEF at
  <2>6. all \in Seq(X)
    <3>1. all = [k \in 1..Len(at) |-> all[k]]
      BY <2>4
    <3> HIDE DEF all, at, X
    <3>2. all \in [1..Len(at) -> X]
      BY <2>4, <2>5, <3>1
    <3> QED BY <2>4, <3>2, SeqDef
  <2>7. Kept(all, Stays(p)) \in Seq(X) /\ ToSet(Kept(all, Stays(p))) = {all[k] : k \in Stays(p)}
    <3>1. Stays(p) \in SUBSET DOMAIN all
      OBVIOUS
    <3> HIDE DEF all, Stays, X
    <3> QED BY <2>6, <3>1, KeptTyped
  <2>8. \A k \in Stays(p) : all[k] \in Y
    <3>1. \A k \in Stays(p) : k \in DOMAIN at /\ all[k].value # <<>>
      OBVIOUS
    <3> HIDE DEF X, all, at, Stays
    <3> QED BY <2>5, <3>1
  <2>9. ToSet(Kept(all, Stays(p))) \subseteq Y
    <3> HIDE DEF Y, all, Stays
    <3> QED BY <2>7, <2>8
  <2>10. Kept(all, Stays(p)) \in Seq(Y)
    <3> HIDE DEF Y, all, Stays, X
    <3> QED BY <2>7, <2>9, Narrowed
  <2> QED BY <2>10
<1>3. \A c \in Y : c.start \in Int /\ c.end \in Int /\ c.start < c.end
  <2>1. ASSUME NEW i \in D, NEW s \in 0..Len(t), FoundValue(patterns[i], s).value # <<>>
        PROVE  /\ FoundValue(patterns[i], s).start \in Int /\ FoundValue(patterns[i], s).end \in Int
               /\ FoundValue(patterns[i], s).start < FoundValue(patterns[i], s).end
    <3>1. patterns[i] \in Shape /\ patterns[i].label \o patterns[i].value # <<>> /\ s \in Int
      BY <1>1 DEF IsPatterns
    <3> QED BY <2>1, <3>1, FoundProper
  <2> HIDE DEF D
  <2> TAKE c \in Y
  <2>2. PICK i \in D, s \in 0..Len(t) : c = FoundValue(patterns[i], s)
    OBVIOUS
  <2> QED BY <2>1, <2>2
<1>4. q \in Seq(Seq(Y))
  <2>1. q = [i \in 1..Len(patterns) |-> q[i]] /\ \A i \in D : q[i] \in Seq(Y)
    <3> HIDE DEF Of, Y
    <3> QED BY <1>1, <1>2
  <2> HIDE DEF q, Y
  <2>2. q \in [1..Len(patterns) -> Seq(Y)]
    BY <1>1, <2>1
  <2> QED BY <1>1, <2>2, SeqDef
<1>5. FlattenSeq(q) \in Seq(Y)
  <2> HIDE DEF q, Y
  <2> QED BY <1>4, Flattened
<1>6. RegexCandidates(patterns, t) = FlattenSeq(q)
  BY DEF RegexCandidates, Where, FoundValue
<1> HIDE DEF Y, q
<1> QED BY <1>3, <1>5, <1>6, SpansOver

\* Denylist.
LEMMA MinIn ==
    ASSUME NEW I \in SUBSET Nat, I # {}
    PROVE  Min(I) \in I /\ \A k \in I : Min(I) <= k
<1>1. \E n \in I : \A k \in I : n <= k
  BY LeastExists
<1> QED BY <1>1 DEF Min

LEMMA MaxIn ==
    ASSUME NEW N \in Nat, NEW I \in SUBSET (0..N), I # {}
    PROVE  Max(I) \in I /\ \A k \in I : k <= Max(I)
<1>1. \E n \in I : \A k \in I : k <= n
  BY GreatestExists
<1>2. \E n \in I : \A k \in I : n >= k
  BY <1>1
<1> QED BY <1>2 DEF Max

LEMMA LoadTyped ==
    ASSUME NEW raw \in Seq(Listing)
    PROVE  Load(raw) \in Seq(Listing)
<1> DEFINE firsts == {i \in DOMAIN raw : \A k \in 1..(i - 1) :
                        ~(raw[k].value = raw[i].value /\ raw[k].type = raw[i].type /\ raw[k].cs = raw[i].cs)}
<1>1. Load(raw) = Kept(raw, firsts)
  BY DEF Load
<1>2. firsts \in SUBSET DOMAIN raw
  OBVIOUS
<1> HIDE DEF firsts
<1> QED BY <1>1, <1>2, KeptTyped

\* What R puts in order is a sequence of the same.
LEMMA SortedTyped ==
    ASSUME NEW X, NEW q \in Seq(X), NEW R, TellsApart(DOMAIN q, R)
    PROVE  [k \in DOMAIN q |-> q[Ranked(DOMAIN q, R)[k]]] \in Seq(X)
<1> DEFINE D == DOMAIN q
           f == Ranked(D, R)
<1>1. D \in SUBSET Int /\ IsFiniteSet(D) /\ \A i \in D : q[i] \in X
  BY Places1
<1>2. D = 1..Len(q) /\ Len(q) \in Nat /\ Cardinality(D) = Len(q)
  <2>1. D = 1..Len(q) /\ Len(q) \in Nat
    BY LenProperties
  <2>2. Cardinality(1..Len(q)) = Len(q)
    BY <2>1, FS_Interval
  <2> QED BY <2>1, <2>2
<1>3. Lists(f, D, R)
  <2> HIDE DEF D
  <2> QED BY <1>1, RankedLists DEF D
<1>4. f \in [1..Len(q) -> D]
  <2> HIDE DEF f, D
  <2> QED BY <1>2, <1>3 DEF Lists
<1> HIDE DEF f
<1>5. [k \in D |-> q[f[k]]] \in [1..Len(q) -> X]
  BY <1>1, <1>2, <1>4
<1>6. [k \in D |-> q[f[k]]] \in Seq(X)
  <2> HIDE DEF D
  <2> QED BY <1>2, <1>5, SeqDef
<1> QED BY <1>6 DEF f

LEMMA FragmentNat ==
    ASSUME NEW e \in Listing
    PROVE  FragmentLen(e) \in Nat
<1> DEFINE I == {i \in DOMAIN e.value : e.value[i] \in Escaped}
<1>1. e.value \in Seq(Char)
  BY DEF Listing
<1>2. Len(e.value) \in Nat /\ DOMAIN e.value = 1..Len(e.value)
  BY <1>1, LenProperties
<1>3. IsFiniteSet(I)
  BY <1>1, Places1
<1>4. Cardinality(I) \in Nat
  <2> HIDE DEF I
  <2> QED BY <1>3, FS_CardinalityType
<1>5. FragmentLen(e) = Len(e.value) + Cardinality(I)
        + (IF e.wb /\ AtLeft(e.value) THEN 2 ELSE 0) + (IF e.wb /\ AtRight(e.value) THEN 2 ELSE 0)
  BY DEF FragmentLen
<1>6. (IF e.wb /\ AtLeft(e.value) THEN 2 ELSE 0) \in Nat /\ (IF e.wb /\ AtRight(e.value) THEN 2 ELSE 0) \in Nat
  OBVIOUS
<1> HIDE DEF I
<1> QED BY <1>2, <1>4, <1>5, <1>6

LEMMA AlternativesTyped ==
    ASSUME NEW entries \in Seq(Listing), NEW cs
    PROVE  Alternatives(entries, cs) \in Seq(Listing)
<1> DEFINE I == {i \in DOMAIN entries : entries[i].cs = cs}
           q == Kept(entries, I)
           D == DOMAIN q
           Prior(i, j) == \/ FragmentLen(q[i]) > FragmentLen(q[j])
                          \/ FragmentLen(q[i]) = FragmentLen(q[j]) /\ i < j
           R == {p \in D \X D : Prior(p[1], p[2])}
           rankA == [x \in D |-> Cardinality({y \in D : Prior(y, x)})]
           rankB == [x \in D |-> Cardinality({y \in D : <<y, x>> \in R})]
<1>1. q \in Seq(Listing)
  <2>1. I \in SUBSET DOMAIN entries
    OBVIOUS
  <2> HIDE DEF I
  <2> QED BY <2>1, KeptTyped
<1> HIDE DEF q
<1>2. \A i \in D : i \in Int /\ FragmentLen(q[i]) \in Int
  <2>1. \A i \in D : i \in Int /\ q[i] \in Listing
    BY <1>1, Places1
  <2> QED BY <2>1, FragmentNat
<1>3. TellsApart(D, R)
  <2> HIDE DEF D
  <2>1. \A x, y \in D : <<x, y>> \in R <=> Prior(x, y)
    OBVIOUS
  <2>2. \A x \in D : ~Prior(x, x)
    BY <1>2
  <2>3. ASSUME NEW x \in D, NEW y \in D, NEW z \in D, Prior(x, y), Prior(y, z)
        PROVE  Prior(x, z)
    BY <1>2, <2>3
  <2>4. \A x, y \in D : x # y => Prior(x, y) \/ Prior(y, x)
    BY <1>2
  <2> HIDE DEF R, Prior
  <2> QED BY <2>1, <2>2, <2>3, <2>4 DEF TellsApart
<1>4. rankA = rankB
  <2>1. \A x \in D : {y \in D : Prior(y, x)} = {y \in D : <<y, x>> \in R}
    OBVIOUS
  <2> HIDE DEF R, Prior
  <2> QED BY <2>1
<1>5. Ranked(D, R) = [k \in 1..Cardinality(D) |-> CHOOSE x \in D : rankB[x] = k - 1]
  BY DEF Ranked
<1>6. Alternatives(entries, cs)
        = [k \in D |-> q[[j \in 1..Cardinality(D) |-> CHOOSE x \in D : rankA[x] = j - 1][k]]]
  BY DEF Alternatives, Where, Sorted, q
<1>7. Alternatives(entries, cs) = [k \in D |-> q[Ranked(D, R)[k]]]
  <2> HIDE DEF rankA, rankB, D, R
  <2> QED BY <1>4, <1>5, <1>6
<1> HIDE DEF R
<1> QED BY <1>1, <1>3, <1>7, SortedTyped

\* The spans a pass over the text finds.
PairsIn(t) == {p \in (0..Len(t)) \X (0..Len(t)) : p[1] < p[2]}

LEMMA FindAllTyped ==
    ASSUME NEW entries \in Seq(Listing), NEW cs, NEW t \in Seq(Char)
    PROVE  FindAll(entries, cs, t) \in Seq(PairsIn(t))
<1> DEFINE n == Len(t) + 1
           alts == Alternatives(entries, cs)
           I(s) == {i \in 1..Len(alts) : Matches(alts[i], t, s)}
           K(s) == SelectInSeq(alts, LAMBDA e : Matches(e, t, s))
           H == {s \in 0..(n - 1) : K(s) # 0}
           P == [s \in 0..(n - 1) |-> <<<<s, s + Len(alts[K(s)].value)>>>>]
           N == [s \in 0..(n - 1) |-> IF s \in H THEN s + Len(alts[K(s)].value) ELSE s + 1]
           PP == [s \in 0..(n - 1) |-> IF s \in H THEN P[s] ELSE <<>>]
           From(f, s) == IF s > Len(t) THEN <<>>
                         ELSE IF K(s) = 0 THEN f[s + 1]
                         ELSE <<<<s, s + Len(alts[K(s)].value)>>>> \o f[s + Len(alts[K(s)].value)]
           F == CHOOSE f : f = [s \in 0..n |-> From(f, s)]
<1>1. Len(t) \in Nat /\ n \in Nat
  BY LenProperties
<1>2. alts \in Seq(Listing) /\ Len(alts) \in Nat /\ \A i \in 1..Len(alts) : alts[i] \in Listing
  <2>1. alts \in Seq(Listing)
    BY AlternativesTyped
  <2> HIDE DEF alts
  <2> QED BY <2>1, LenProperties, ElementOfSeq
<1>3. \A s : K(s) = IF I(s) # {} THEN Min(I(s)) ELSE 0
  BY DEF SelectInSeq
<1> HIDE DEF alts, K
<1>4. ASSUME NEW s \in H
      PROVE  /\ s + Len(alts[K(s)].value) \in (s + 1)..Len(t)
             /\ <<s, s + Len(alts[K(s)].value)>> \in PairsIn(t)
  <2>1. s \in 0..(n - 1) /\ I(s) # {} /\ K(s) = Min(I(s))
    BY <1>3
  <2>2. I(s) \in SUBSET Nat
    BY <1>2
  <2>3. K(s) \in I(s)
    <3> HIDE DEF I
    <3> QED BY <2>1, <2>2, MinIn
  <2>4. K(s) \in 1..Len(alts) /\ Matches(alts[K(s)], t, s)
    BY <2>3
  <2> DEFINE v == alts[K(s)].value
  <2>5. v \in Seq(Char) /\ v # <<>> /\ s + Len(v) <= Len(t)
    BY <1>2, <2>4 DEF Matches, Listing
  <2>6. Len(v) \in Nat \ {0}
    <3> HIDE DEF v
    <3> QED BY <2>5, EmptySeq
  <2> HIDE DEF v
  <2>7. s + Len(v) \in (s + 1)..Len(t) /\ s + Len(v) \in 0..Len(t) /\ s < s + Len(v) /\ s \in 0..Len(t)
    BY <1>1, <2>1, <2>5, <2>6
  <2> QED BY <2>7 DEF v, PairsIn
<1>5. \A s \in 0..(n - 1) : N[s] \in (s + 1)..n
  <2> TAKE s \in 0..(n - 1)
  <2> HIDE DEF H
  <2>1. CASE s \in H
    <3>1. N[s] = s + Len(alts[K(s)].value)
      BY <2>1
    <3>2. s + Len(alts[K(s)].value) \in (s + 1)..Len(t)
      BY <1>4, <2>1
    <3> HIDE DEF N
    <3> QED BY <1>1, <3>1, <3>2
  <2>2. CASE s \notin H
    <3>1. N[s] = s + 1
      BY <2>2
    <3> HIDE DEF N
    <3> QED BY <1>1, <3>1
  <2> QED BY <2>1, <2>2
<1>6. \A s \in 0..(n - 1) : PP[s] \in Seq(PairsIn(t))
  <2> TAKE s \in 0..(n - 1)
  <2> HIDE DEF H
  <2>1. CASE s \in H
    <3>1. PP[s] = <<<<s, s + Len(alts[K(s)].value)>>>>
      BY <2>1
    <3>2. <<s, s + Len(alts[K(s)].value)>> \in PairsIn(t)
      BY <1>4, <2>1
    <3> HIDE DEF PP
    <3> QED BY <3>1, <3>2
  <2>2. CASE s \notin H
    <3>1. PP[s] = <<>>
      BY <2>2
    <3> QED BY <3>1, EmptySeq
  <2> QED BY <2>1, <2>2
<1>7. \A f : \A s \in 0..n : From(f, s) = Link(n, H, PP, N, f, s)
  <2> TAKE f
  <2> TAKE s \in 0..n
  <2>1. CASE s = n
    BY <1>1, <2>1 DEF Link
  <2>2. CASE s # n
    <3>1. s \in 0..(n - 1) /\ ~(s > Len(t))
      BY <1>1, <2>2
    <3>2. s \in H <=> K(s) # 0
      BY <3>1
    <3> HIDE DEF H
    <3>3. CASE s \in H
      BY <2>2, <3>1, <3>2, <3>3 DEF Link
    <3>4. CASE s \notin H
      BY <2>2, <3>1, <3>2, <3>4 DEF Link
    <3> QED BY <3>3, <3>4
  <2> QED BY <2>1, <2>2
<1>8. FindAll(entries, cs, t) = F[0]
  BY DEF FindAll, FindIter, From, K, alts
<1> HIDE DEF From, H, PP, N
<1>9. \A f : f = [s \in 0..n |-> From(f, s)] <=> Chain(0, n, H, PP, N, f)
  <2> TAKE f
  <2>1. [s \in 0..n |-> From(f, s)] = [s \in 0..n |-> Link(n, H, PP, N, f, s)]
    BY <1>7
  <2> QED BY <2>1 DEF Chain
<1>10. F = [s \in 0..n |-> From(F, s)]
  <2> HIDE DEF n
  <2>1. \E f : Chain(0, n, H, PP, N, f)
    BY <1>1, <1>5, ChainExists
  <2>2. \E f : f = [s \in 0..n |-> From(f, s)]
    BY <1>9, <2>1
  <2> QED BY <2>2
<1> HIDE DEF F
<1>11. F[0] \in Seq(PairsIn(t))
  <2>1. Chain(0, n, H, PP, N, F)
    BY <1>9, <1>10
  <2>2. 0 \in 0..n
    BY <1>1
  <2> HIDE DEF n
  <2> QED BY <1>1, <1>5, <1>6, <2>1, <2>2, ChainTyped
<1> QED BY <1>8, <1>11

LEMMA SetToSeqTyped ==
    ASSUME NEW S, IsFiniteSet(S)
    PROVE  SetToSeq(S) \in Seq(S)
<1>1. Cardinality(S) \in Nat /\ ExistsBijection(1..Cardinality(S), S)
  BY FS_CardinalityType
<1>2. \E f \in [1..Cardinality(S) -> S] : IsInjective(f)
  BY <1>1 DEF ExistsBijection, Bijection, Injection
<1>3. SetToSeq(S) \in [1..Cardinality(S) -> S]
  BY <1>2 DEF SetToSeq
<1> QED BY <1>1, <1>3, SeqDef

LEMMA TypeOfFinite ==
    ASSUME NEW entries, NEW v, NEW cs, NEW s, NEW e
    PROVE  IsFiniteSet({Candidate(s, e, v, type) : type \in TypeOf(entries, v, cs)})
<1> DEFINE Op == {Candidate(s, e, v, type) : type \in TypeOf(entries, v, cs)}
           i == SelectLastInSeq(entries, LAMBDA x : x.cs = cs /\ Key(x.value, cs) = Key(v, cs))
<1>1. TypeOf(entries, v, cs) = IF i = 0 THEN {} ELSE {entries[i].type}
  BY DEF TypeOf
<1> HIDE DEF i
<1>2. Op = {} \/ Op = {Candidate(s, e, v, entries[i].type)}
  BY <1>1
<1>3. \A x : IsFiniteSet({x})
  BY FS_Singleton
<1> HIDE DEF Op
<1>4. IsFiniteSet(Op)
  BY <1>2, <1>3, FS_EmptySet
<1> QED BY <1>4 DEF Op

LEMMA CollectRegexSpans ==
    ASSUME NEW entries \in Seq(Listing), NEW t \in Seq(Char)
    PROVE  Spans(CollectRegex(entries, t))
<1> DEFINE At(cs) == FindAll(entries, cs, t)
           V(cs, k) == Slice(t, At(cs)[k][1], At(cs)[k][2])
           S(cs, k) == {Candidate(At(cs)[k][1], At(cs)[k][2], V(cs, k), type) :
                          type \in TypeOf(entries, V(cs, k), cs)}
           q(cs) == [k \in DOMAIN At(cs) |-> SetToSeq(S(cs, k))]
           X(cs) == UNION {S(cs, k) : k \in DOMAIN At(cs)}
<1>1. ASSUME NEW cs PROVE Spans(FlattenSeq(q(cs)))
  <2> DEFINE at == At(cs)
  <2>1. at \in Seq(PairsIn(t)) /\ Len(at) \in Nat /\ DOMAIN at = 1..Len(at)
        /\ \A k \in DOMAIN at : at[k] \in PairsIn(t)
    <3>1. at \in Seq(PairsIn(t))
      BY FindAllTyped
    <3> HIDE DEF at
    <3> QED BY <3>1, LenProperties, ElementOfSeq
  <2>2. \A k \in DOMAIN at : /\ at[k][1] \in Int /\ at[k][2] \in Int /\ at[k][1] < at[k][2]
    <3>1. Len(t) \in Nat
      BY LenProperties
    <3> HIDE DEF at
    <3> QED BY <2>1, <3>1 DEF PairsIn
  <2>3. ASSUME NEW k \in DOMAIN at PROVE SetToSeq(S(cs, k)) \in Seq(X(cs))
    <3>1. IsFiniteSet(S(cs, k))
      <4> HIDE DEF V, At
      <4> QED BY TypeOfFinite
    <3>2. S(cs, k) \subseteq X(cs)
      <4> HIDE DEF S
      <4> QED OBVIOUS
    <3> HIDE DEF S, X
    <3> QED BY <3>1, <3>2, SetToSeqTyped, SeqMonotonic
  <2>4. q(cs) \in Seq(Seq(X(cs)))
    <3>1. q(cs) = [k \in 1..Len(at) |-> SetToSeq(S(cs, k))]
      BY <2>1
    <3> HIDE DEF q, X, S
    <3>2. q(cs) \in [1..Len(at) -> Seq(X(cs))]
      <4>1. \A k \in 1..Len(at) : SetToSeq(S(cs, k)) \in Seq(X(cs))
        BY <2>1, <2>3
      <4> HIDE DEF at
      <4> QED BY <3>1, <4>1
    <3> HIDE DEF at
    <3> QED BY <2>1, <3>2, SeqDef
  <2>5. \A c \in X(cs) : c.start \in Int /\ c.end \in Int /\ c.start < c.end
    <3> TAKE c \in X(cs)
    <3>1. PICK k \in DOMAIN at : c \in S(cs, k)
      <4> HIDE DEF S
      <4> QED OBVIOUS
    <3>2. c.start = at[k][1] /\ c.end = at[k][2]
      <4>1. PICK type \in TypeOf(entries, V(cs, k), cs) :
              c = Candidate(At(cs)[k][1], At(cs)[k][2], V(cs, k), type)
        BY <3>1
      <4> HIDE DEF V, At
      <4> QED BY <4>1 DEF Candidate, at
    <3> HIDE DEF S, at
    <3> QED BY <2>2, <3>2
  <2>6. FlattenSeq(q(cs)) \in Seq(X(cs))
    <3> HIDE DEF q, X
    <3> QED BY <2>4, Flattened
  <2> HIDE DEF q, X
  <2> QED BY <2>5, <2>6, SpansOver
<1>2. CollectRegex(entries, t) = FlattenSeq(q(TRUE)) \o FlattenSeq(q(FALSE))
  BY DEF CollectRegex, TypedHits
<1> HIDE DEF q
<1> QED BY <1>1, <1>2, SpansJoined

LEMMA LowerTyped ==
    ASSUME NEW t \in Seq(Char)
    PROVE  Lower(t) \in Seq(Char)
<1> DEFINE q == [i \in DOMAIN t |-> LowerOf(t[i])]
<1>1. Len(t) \in Nat /\ DOMAIN t = 1..Len(t) /\ \A i \in DOMAIN t : t[i] \in Char
  BY LenProperties, ElementOfSeq
<1>2. ASSUME NEW c \in Char PROVE LowerOf(c) \in Seq(Char)
  <2>1. c \notin DOMAIN Cased => LowerOf(c) = <<c>>
    BY DEF LowerOf
  <2>2. c \in DOMAIN Cased => c \in {"A", "B", "C", "I_dot"} /\ LowerOf(c) = Cased[c]
    BY DEF LowerOf, Cased
  <2>3. /\ Cased["A"] = <<"a">> /\ Cased["B"] = <<"b">> /\ Cased["C"] = <<"c">>
        /\ Cased["I_dot"] = <<"i", "dot">>
    BY DEF Cased
  <2>4. /\ <<"a">> \in Seq(Char) /\ <<"b">> \in Seq(Char) /\ <<"c">> \in Seq(Char)
        /\ <<"i", "dot">> \in Seq(Char) /\ <<c>> \in Seq(Char)
    <3>1. "a" \in Char /\ "b" \in Char /\ "c" \in Char /\ "i" \in Char /\ "dot" \in Char
      BY DEF Char
    <3> QED BY <3>1
  <2> QED BY <2>1, <2>2, <2>3, <2>4
<1>3. \A i \in DOMAIN t : LowerOf(t[i]) \in Seq(Char)
  BY <1>1, <1>2
<1>4. q \in [1..Len(t) -> Seq(Char)]
  BY <1>1, <1>3
<1>5. q \in Seq(Seq(Char))
  <2> HIDE DEF q
  <2> QED BY <1>1, <1>4, SeqDef
<1>6. FlattenSeq(q) \in Seq(Char)
  <2> HIDE DEF q
  <2> QED BY <1>5, Flattened
<1> QED BY <1>6 DEF Lower

LEMMA KeyTyped ==
    ASSUME NEW e \in Listing, NEW cs
    PROVE  Key(e.value, cs) \in Seq(Char)
<1>1. e.value \in Seq(Char)
  BY DEF Listing
<1> QED BY <1>1, LowerTyped DEF Key

\* The entries an automaton holds, by their keys.
Keys(entries, cs) == {Key(entries[i].value, cs) : i \in {j \in DOMAIN entries : entries[j].cs = cs}}
Payload(entries, cs, k) == entries[SelectLastInSeq(entries, LAMBDA e : e.cs = cs /\ Key(e.value, cs) = k)]

LEMMA PayloadListed ==
    ASSUME NEW entries \in Seq(Listing), NEW cs, NEW k \in Keys(entries, cs)
    PROVE  Payload(entries, cs, k) \in Listing
<1> DEFINE I == {i \in 1..Len(entries) : entries[i].cs = cs /\ Key(entries[i].value, cs) = k}
<1>1. Len(entries) \in Nat /\ DOMAIN entries = 1..Len(entries)
      /\ \A i \in DOMAIN entries : entries[i] \in Listing
  BY LenProperties, ElementOfSeq
<1>2. I # {}
  BY <1>1 DEF Keys
<1>3. I \in SUBSET (0..Len(entries))
  BY <1>1
<1>4. Max(I) \in I
  <2> HIDE DEF I
  <2> QED BY <1>1, <1>2, <1>3, MaxIn
<1>5. SelectLastInSeq(entries, LAMBDA e : e.cs = cs /\ Key(e.value, cs) = k) = Max(I)
  BY <1>2 DEF SelectLastInSeq
<1>6. Max(I) \in DOMAIN entries
  BY <1>1, <1>4
<1> HIDE DEF I
<1> QED BY <1>1, <1>5, <1>6 DEF Payload

LEMMA KeysFinite ==
    ASSUME NEW entries \in Seq(Listing), NEW cs
    PROVE  IsFiniteSet(Keys(entries, cs)) /\ \A k \in Keys(entries, cs) : k \in Seq(Char) /\ Len(k) \in Nat
<1> DEFINE J == {j \in DOMAIN entries : entries[j].cs = cs}
           g == [i \in J |-> Key(entries[i].value, cs)]
<1>1. IsFiniteSet(J) /\ \A i \in J : entries[i] \in Listing
  BY Places1
<1>2. \A i \in J : Key(entries[i].value, cs) \in Seq(Char)
  <2> HIDE DEF J
  <2> QED BY <1>1, KeyTyped
<1>3. Keys(entries, cs) = {Key(entries[i].value, cs) : i \in J}
  BY DEF Keys
<1>4. g \in Surjection(J, Keys(entries, cs))
  <2>1. \A i \in J : g[i] = Key(entries[i].value, cs)
    OBVIOUS
  <2>2. g \in [J -> Keys(entries, cs)]
    <3> HIDE DEF J
    <3> QED BY <1>3
  <2> HIDE DEF g, J
  <2>3. \A k \in Keys(entries, cs) : \E i \in J : g[i] = k
    BY <1>3, <2>1
  <2> QED BY <2>2, <2>3 DEF Surjection
<1>5. IsFiniteSet(Keys(entries, cs))
  <2> HIDE DEF g, J
  <2> QED BY <1>1, <1>4, FS_Surjection
<1>6. \A k \in Keys(entries, cs) : k \in Seq(Char)
  <2> HIDE DEF J
  <2> QED BY <1>2, <1>3
<1> QED BY <1>5, <1>6, LenProperties

LEMMA AhoHitsSpans ==
    ASSUME NEW entries \in Seq(Listing), NEW cs, NEW t \in Seq(Char)
    PROVE  \E X : /\ AhoHits(entries, cs, t) \in Seq(X)
                  /\ \A h \in X : h.start \in Int /\ h.end \in Int /\ h.start < h.end
<1> DEFINE hay == IF cs THEN t ELSE Lower(t)
           keys == Keys(entries, cs)
           hits == {<<s + Len(k), k>> : s \in 0..Len(hay), k \in keys}
           real == {h \in hits : h[1] <= Len(hay) /\ Slice(hay, h[1] - Len(h[2]), h[1]) = h[2]}
           Prior(g, h) == g[1] < h[1] \/ (g[1] = h[1] /\ Len(g[2]) > Len(h[2]))
           R == {p \in real \X real : Prior(p[1], p[2])}
           rankA == [x \in real |-> Cardinality({y \in real : Prior(y, x)})]
           rankB == [x \in real |-> Cardinality({y \in real : <<y, x>> \in R})]
           order == Ranked(real, R)
           n == Cardinality(real)
           HitOf(h) == [start |-> h[1] - Len(Payload(entries, cs, h[2]).value), end |-> h[1],
                        entry |-> Payload(entries, cs, h[2])]
           X == {HitOf(h) : h \in real}
<1>1. Len(hay) \in Nat
  <2>1. hay \in Seq(Char)
    BY LowerTyped
  <2> HIDE DEF hay
  <2> QED BY <2>1, LenProperties
<1> HIDE DEF hay
<1>2. IsFiniteSet(keys) /\ \A k \in keys : Len(k) \in Nat
  BY KeysFinite
<1> HIDE DEF keys
<1>3. IsFiniteSet(hits)
  <2> DEFINE A == (0..Len(hay)) \X keys
             g == [p \in A |-> <<p[1] + Len(p[2]), p[2]>>]
  <2>1. IsFiniteSet(A)
    <3>1. IsFiniteSet(0..Len(hay))
      BY <1>1, FS_Interval
    <3> QED BY <1>2, <3>1, FS_Product
  <2>2. g \in [A -> hits]
    <3>1. \A p \in A : <<p[1] + Len(p[2]), p[2]>> \in hits
      OBVIOUS
    <3> HIDE DEF hits, A
    <3> QED BY <3>1
  <2>3. ASSUME NEW h \in hits PROVE \E p \in A : g[p] = h
    <3>1. PICK s \in 0..Len(hay), k \in keys : h = <<s + Len(k), k>>
      OBVIOUS
    <3>2. <<s, k>> \in A /\ g[<<s, k>>] = <<s + Len(k), k>>
      OBVIOUS
    <3> QED BY <3>1, <3>2
  <2>4. g \in Surjection(A, hits)
    <3> HIDE DEF g, hits, A
    <3> QED BY <2>2, <2>3 DEF Surjection
  <2> HIDE DEF g, hits, A
  <2> QED BY <2>1, <2>4, FS_Surjection
<1>4. IsFiniteSet(real)
  <2>1. real \in SUBSET hits
    OBVIOUS
  <2> HIDE DEF hits, real
  <2> QED BY <1>3, <2>1, FS_Subset
<1>5. \A h \in real : /\ h = <<h[1], h[2]>> /\ h[1] \in Int /\ h[2] \in keys
                      /\ Len(h[2]) \in Int /\ Slice(hay, h[1] - Len(h[2]), h[1]) = h[2]
  <2> TAKE h \in real
  <2>1. PICK s \in 0..Len(hay), k \in keys : h = <<s + Len(k), k>>
    OBVIOUS
  <2>2. Slice(hay, h[1] - Len(h[2]), h[1]) = h[2]
    OBVIOUS
  <2> QED BY <1>2, <2>1, <2>2
<1> HIDE DEF hits, real
<1>6. TellsApart(real, R)
  <2>1. \A x, y \in real : <<x, y>> \in R <=> Prior(x, y)
    OBVIOUS
  <2>2. \A x \in real : ~Prior(x, x)
    BY <1>5
  <2>3. ASSUME NEW x \in real, NEW y \in real, NEW z \in real, Prior(x, y), Prior(y, z)
        PROVE  Prior(x, z)
    BY <1>5, <2>3
  <2>4. ASSUME NEW x \in real, NEW y \in real, x # y, ~Prior(x, y), ~Prior(y, x)
        PROVE  FALSE
    <3>1. x[1] = y[1] /\ Len(x[2]) = Len(y[2])
      BY <1>5, <2>4
    <3>2. x[2] = y[2]
      BY <1>5, <3>1
    <3>3. x = <<x[1], x[2]>> /\ y = <<y[1], y[2]>>
      BY <1>5
    <3> QED BY <2>4, <3>1, <3>2, <3>3
  <2> HIDE DEF R, Prior
  <2> QED BY <2>1, <2>2, <2>3, <2>4 DEF TellsApart
<1>7. Lists(order, real, R)
  <2> HIDE DEF R
  <2> QED BY <1>4, <1>6, RankedLists
<1>8. rankA = rankB
  <2>1. \A x \in real : {y \in real : Prior(y, x)} = {y \in real : <<y, x>> \in R}
    OBVIOUS
  <2> HIDE DEF R, Prior
  <2> QED BY <2>1
<1>9. order = [k \in 1..n |-> CHOOSE x \in real : rankB[x] = k - 1]
  BY DEF Ranked
<1> DEFINE orderA == [k \in 1..n |-> CHOOSE x \in real : rankA[x] = k - 1]
<1>10. AhoHits(entries, cs, t) = [k \in DOMAIN orderA |-> HitOf(orderA[k])]
  BY DEF AhoHits, Sorted, Payload, Keys, keys, hits, hay, real
<1>11. order = orderA
  <2> HIDE DEF rankA, rankB, n, order
  <2> QED BY <1>8, <1>9
<1>12. n \in Nat /\ order \in [1..n -> real]
  <2> HIDE DEF order
  <2> QED BY <1>7 DEF Lists
<1> HIDE DEF order, orderA, n
<1>13. AhoHits(entries, cs, t) \in Seq(X)
  <2>1. AhoHits(entries, cs, t) = [k \in 1..n |-> HitOf(order[k])]
    <3> HIDE DEF HitOf
    <3> QED BY <1>10, <1>11, <1>12
  <2>2. \A k \in 1..n : HitOf(order[k]) \in X
    <3> HIDE DEF HitOf
    <3> QED BY <1>12
  <2> HIDE DEF HitOf, X
  <2>3. AhoHits(entries, cs, t) \in [1..n -> X]
    BY <2>1, <2>2
  <2> QED BY <1>12, <2>3, SeqDef
<1>14. \A c \in X : c.start \in Int /\ c.end \in Int /\ c.start < c.end
  <2> TAKE c \in X
  <2>1. PICK h \in real : c = HitOf(h)
    OBVIOUS
  <2>2. Payload(entries, cs, h[2]) \in Listing
    BY <1>5, PayloadListed DEF keys
  <2>3. Len(Payload(entries, cs, h[2]).value) \in Nat \ {0}
    <3>1. Payload(entries, cs, h[2]).value \in Seq(Char) /\ Payload(entries, cs, h[2]).value # <<>>
      BY <2>2 DEF Listing
    <3> QED BY <3>1, EmptySeq
  <2>4. h[1] \in Int
    BY <1>5
  <2> QED BY <2>1, <2>3, <2>4
<1> QED BY <1>13, <1>14

LEMMA CollectAhoSpans ==
    ASSUME NEW entries \in Seq(Listing), NEW t \in Seq(Char)
    PROVE  Spans(CollectAho(entries, t))
<1> DEFINE Hits(cs) == AhoHits(entries, cs, t)
           I(cs) == {i \in DOMAIN Hits(cs) :
                       Hits(cs)[i].entry.wb => HasWordBoundaries(t, Hits(cs)[i].start, Hits(cs)[i].end)}
           kept(cs) == Kept(Hits(cs), I(cs))
           As(h) == Candidate(h.start, h.end, Slice(t, h.start, h.end), h.entry.type)
           q(cs) == [n \in DOMAIN kept(cs) |-> As(kept(cs)[n])]
<1>1. ASSUME NEW cs PROVE Spans(q(cs))
  <2> DEFINE hits == Hits(cs)
             k == kept(cs)
  <2>1. PICK X : /\ hits \in Seq(X)
                 /\ \A h \in X : h.start \in Int /\ h.end \in Int /\ h.start < h.end
    BY AhoHitsSpans
  <2>2. k \in Seq(X)
    <3>1. I(cs) \in SUBSET DOMAIN hits
      OBVIOUS
    <3> HIDE DEF hits, I
    <3>2. Kept(hits, I(cs)) \in Seq(X)
      BY <2>1, <3>1, KeptTyped
    <3> QED BY <3>2 DEF hits
  <2> DEFINE Y == {As(h) : h \in X}
  <2>3. \A c \in Y : c.start \in Int /\ c.end \in Int /\ c.start < c.end
    BY <2>1 DEF Candidate
  <2>4. Len(k) \in Nat /\ DOMAIN k = 1..Len(k) /\ \A i \in DOMAIN k : k[i] \in X
    <3> HIDE DEF k
    <3> QED BY <2>2, LenProperties, ElementOfSeq
  <2>5. q(cs) = [n \in 1..Len(k) |-> As(k[n])]
    <3> HIDE DEF As
    <3> QED BY <2>4
  <2> HIDE DEF k, q, kept
  <2>6. \A n \in 1..Len(k) : As(k[n]) \in Y
    <3> HIDE DEF As
    <3> QED BY <2>4
  <2> HIDE DEF As, Y
  <2>7. q(cs) \in [1..Len(k) -> Y]
    BY <2>5, <2>6
  <2>8. q(cs) \in Seq(Y)
    BY <2>4, <2>7, SeqDef
  <2> QED BY <2>3, <2>8, SpansOver
<1>2. CollectAho(entries, t) = q(TRUE) \o q(FALSE)
  BY DEF CollectAho, Where
<1> HIDE DEF q
<1> QED BY <1>1, <1>2, SpansJoined

LEMMA DenylistSpans ==
    ASSUME NEW raw \in Seq(Listing), NEW backend, NEW t \in Seq(Char)
    PROVE  Spans(DenylistCandidates(backend, Load(raw), t))
BY LoadTyped, CollectAhoSpans, CollectRegexSpans DEF DenylistCandidates

-----------------------------------------------------------------------------
(* The candidates of a local detector.                                       *)

\* Where the order of the candidates is that of their width.
ByWidth(j, w, o) == j[1] = "denylist" \/ StrategyOf(w, o) = "longest"

LEMMA CandidatesSpans ==
    ASSUME NEW w, ReadyWorld(w), NEW o, NEW j, j[1] \in Local, TextOf(w, j) \in Seq(Char)
    PROVE  /\ Spans(CandidatesOf(j, w, o))
           /\ ByWidth(j, w, o) =>
                \A k, l \in DOMAIN CandidatesOf(j, w, o) :
                    k < l => Width(CandidatesOf(j, w, o)[k]) >= Width(CandidatesOf(j, w, o)[l])
<1> DEFINE t == TextOf(w, j)
<1>1. CASE j[1] = "regex"
  <2> DEFINE ps == Named(PlainName(o.regex_patterns), w.patterns, w.pattern_sets)
             q == RegexCandidates(ps, t)
             s == StrategyOf(w, o)
  <2>1. IsPatterns(ps)
    BY DEF ReadyWorld, Named
  <2>2. Spans(q)
    <3> HIDE DEF ps, t
    <3> QED BY <2>1, RegexSpans DEF t
  <2>3. CandidatesOf(j, w, o) = IF s = "longest" THEN LongestFirst(q) ELSE q
    <3> HIDE DEF s
    <3> QED BY <1>1 DEF CandidatesOf, RegexOrder, s
  <2>4. ByWidth(j, w, o) => s = "longest"
    <3> HIDE DEF s
    <3> QED BY <1>1 DEF ByWidth, s
  <2> HIDE DEF q, s
  <2> QED BY <2>2, <2>3, <2>4, SpansSorted
<1>2. CASE j[1] = "denylist"
  <2> DEFINE raw == Named(PlainName(o.denylist), w.denylist, w.denylists)
             q == DenylistCandidates(w.backend, Load(raw), t)
  <2>1. raw \in Seq(Listing)
    BY DEF ReadyWorld, Named
  <2>2. Spans(q)
    <3> HIDE DEF raw, t
    <3> QED BY <2>1, DenylistSpans DEF t
  <2>3. CandidatesOf(j, w, o) = LongestFirst(q)
    BY <1>2 DEF CandidatesOf
  <2> HIDE DEF q
  <2> QED BY <2>2, <2>3, SpansSorted
<1> QED BY <1>1, <1>2 DEF Local

-----------------------------------------------------------------------------
(* Who runs.                                                                 *)

LEMMA SeqOver ==
    ASSUME NEW n \in Nat, NEW q, q = [i \in 1..n |-> q[i]]
    PROVE  q \in Seq(ToSet(q)) /\ Len(q) = n /\ DOMAIN q = 1..n
<1>1. DOMAIN q = 1..n
  OBVIOUS
<1>2. \A i \in 1..n : q[i] \in ToSet(q)
  BY <1>1 DEF ToSet
<1>3. q \in [1..n -> ToSet(q)]
  BY <1>2
<1>4. q \in Seq(ToSet(q))
  BY <1>3, SeqDef
<1>5. Len(q) \in Nat /\ DOMAIN q = 1..Len(q)
  BY <1>4, LenProperties
<1> QED BY <1>1, <1>4, <1>5

LEMMA DistinctTyped ==
    ASSUME NEW X, NEW q \in Seq(X)
    PROVE  /\ Distinct(q) \in Seq(X) /\ ToSet(Distinct(q)) = ToSet(q)
           /\ IsInjective(Distinct(q))
           /\ q # <<>> => Distinct(q) # <<>>
<1> DEFINE I == {i \in DOMAIN q : \A k \in 1..(i - 1) : q[k] # q[i]}
<1>1. Distinct(q) = Kept(q, I)
  BY DEF Distinct
<1>2. I \in SUBSET DOMAIN q
  OBVIOUS
<1>3. DOMAIN q = 1..Len(q) /\ Len(q) \in Nat
  BY LenProperties
<1>4. ASSUME NEW i \in DOMAIN q PROVE \E k \in I : q[k] = q[i]
  <2> DEFINE T == {k \in DOMAIN q : q[k] = q[i]}
  <2>1. PICK k \in T : \A l \in T : k <= l
    <3>1. T \in SUBSET Nat /\ T # {}
      BY <1>3
    <3> HIDE DEF T
    <3> QED BY <3>1, LeastExists
  <2>2. k \in DOMAIN q /\ q[k] = q[i]
    BY <2>1
  <2>3. ASSUME NEW l \in 1..(k - 1) PROVE q[l] # q[k]
    <3>1. l \in DOMAIN q /\ ~(k <= l)
      BY <1>3, <2>2
    <3>2. l \notin T
      <4> HIDE DEF T
      <4> QED BY <2>1, <3>1
    <3> QED BY <2>2, <3>1, <3>2
  <2> QED BY <2>2, <2>3
<1>5. /\ Kept(q, I) \in Seq(X) /\ ToSet(Kept(q, I)) = {q[i] : i \in I}
      /\ I # {} => Kept(q, I) # <<>>
  <2> HIDE DEF I
  <2> QED BY <1>2, KeptTyped
<1>6. ToSet(Kept(q, I)) = ToSet(q)
  <2>1. \A i \in I : i \in DOMAIN q
    OBVIOUS
  <2> HIDE DEF I
  <2> QED BY <1>4, <1>5, <2>1 DEF ToSet
<1>7. q # <<>> => I # {}
  <2> SUFFICES ASSUME q # <<>> PROVE I # {}
    OBVIOUS
  <2>1. 1 \in DOMAIN q
    <3>1. Len(q) # 0
      BY EmptySeq
    <3> QED BY <1>3, <3>1
  <2> HIDE DEF I
  <2> QED BY <1>4, <2>1
<1>8. IsInjective(Kept(q, I))
  <2>1. I \in SUBSET Int /\ IsFiniteSet(I)
    <3> HIDE DEF I
    <3> QED BY <1>2, Places1
  <2>2. PICK f : KeptBy(q, I, f)
    <3> HIDE DEF I
    <3> QED BY <2>1, KeptInOrder
  <2> DEFINE n == Cardinality(I)
  <2>3. /\ n \in Nat /\ f \in [1..n -> I] /\ \A i, j \in 1..n : i < j => f[i] < f[j]
        /\ Kept(q, I) = [k \in 1..n |-> q[f[k]]]
    <3> HIDE DEF I
    <3> QED BY <2>2 DEF KeptBy
  <2> HIDE DEF n
  <2>4. ASSUME NEW i \in 1..n, NEW j \in 1..n, i < j PROVE q[f[i]] # q[f[j]]
    <3>1. f[i] \in I /\ f[j] \in I /\ f[i] < f[j]
      <4> HIDE DEF I
      <4> QED BY <2>3, <2>4
    <3>2. f[i] \in 1..(f[j] - 1)
      BY <1>3, <3>1
    <3> QED BY <3>1, <3>2
  <2>5. \A i, j \in 1..n : q[f[i]] = q[f[j]] => i = j
    <3> SUFFICES ASSUME NEW i \in 1..n, NEW j \in 1..n, q[f[i]] = q[f[j]], i # j PROVE FALSE
      OBVIOUS
    <3>1. i < j \/ j < i
      BY <2>3
    <3> QED BY <2>4, <3>1
  <2> HIDE DEF I
  <2> QED BY <2>3, <2>5 DEF IsInjective
<1> HIDE DEF I
<1> QED BY <1>1, <1>5, <1>6, <1>7, <1>8

\* What the validator of a list lets through.
LEMMA CsvTyped ==
    ASSUME NEW v, Tag(v) \in {"str", "list"} => IsSeqOf(Val(v)), NEW cap
    PROVE  \A q \in CsvOrList(v, cap).value : IsSeqOf(q)
<1> DEFINE items == IF Tag(v) = "str" THEN Val(v) ELSE [i \in DOMAIN Val(v) |-> Val(Item(v, i))[1]]
           I == {i \in DOMAIN items : ~IsBlank(items[i])}
           parts == Kept(items, I)
           out == [i \in DOMAIN parts |-> Stripped(parts[i])]
<1>1. \A x \in CsvOrList(v, cap).value : Tag(v) \in {"str", "list"} /\ x = out
  BY DEF CsvOrList, Where, Invalid, NoOverride, Valid1
<1>2. SUFFICES ASSUME Tag(v) \in {"str", "list"} PROVE IsSeqOf(out)
  <2> HIDE DEF out
  <2> QED BY <1>1
<1>3. IsSeqOf(items)
  <2>1. IsSeqOf(Val(v)) /\ Len(Val(v)) \in Nat /\ DOMAIN Val(v) = 1..Len(Val(v))
    BY <1>2, LenProperties DEF IsSeqOf
  <2>2. CASE Tag(v) = "str"
    BY <2>1, <2>2
  <2>3. CASE Tag(v) # "str"
    <3>1. items = [i \in 1..Len(Val(v)) |-> items[i]]
      BY <2>1, <2>3
    <3> HIDE DEF items
    <3> QED BY <2>1, <3>1, SeqOver DEF IsSeqOf
  <2> QED BY <2>2, <2>3
<1>4. parts \in Seq(ToSet(items))
  <2>1. I \in SUBSET DOMAIN items
    OBVIOUS
  <2> HIDE DEF I, items
  <2> QED BY <1>3, <2>1, KeptTyped DEF IsSeqOf
<1> HIDE DEF parts
<1>5. Len(parts) \in Nat /\ DOMAIN parts = 1..Len(parts)
  BY <1>4, LenProperties
<1>6. out = [i \in 1..Len(parts) |-> out[i]]
  BY <1>5
<1> HIDE DEF out
<1> QED BY <1>5, <1>6, SeqOver DEF IsSeqOf

\* The overrides a request can end up with.
\* The overrides before and after they are parsed.
Overridden(w, o) == o = Unset \/ o = ParseOverrides(w.raw)

LEMMA OverridesTyped ==
    ASSUME NEW w, ReadyWorld(w), NEW o, Overridden(w, o)
    PROVE  /\ \A q \in o.detector_mode : IsSeqOf(q)
           /\ StrategyOf(w, o) \in Strategies
<1>1. CASE o = Unset
  BY <1>1 DEF Unset, StrategyOf, ReadyWorld
<1>2. CASE o = ParseOverrides(w.raw)
  <2>1. "detector_mode" \in Fields /\ "regex_overlap_strategy" \in Fields
    BY DEF Fields, Unset
  <2>2. /\ o.detector_mode = IF "detector_mode" \in DOMAIN w.raw
                             THEN Validate("detector_mode", w.raw["detector_mode"]).value ELSE {}
        /\ o.regex_overlap_strategy
             = IF "regex_overlap_strategy" \in DOMAIN w.raw
               THEN Validate("regex_overlap_strategy", w.raw["regex_overlap_strategy"]).value ELSE {}
    BY <1>2, <2>1 DEF ParseOverrides
  <2>3. \A v : /\ Validate("detector_mode", v) = CsvOrList(v, MAX_DETECTOR_LIST)
               /\ Validate("regex_overlap_strategy", v) = StrictOverlapStrategy(v)
    BY DEF Validate
  <2>4. \A q \in o.detector_mode : IsSeqOf(q)
    <3>1. SUFFICES ASSUME "detector_mode" \in DOMAIN w.raw
                   PROVE  \A q \in CsvOrList(w.raw["detector_mode"], MAX_DETECTOR_LIST).value : IsSeqOf(q)
      BY <2>2, <2>3
    <3>2. Tag(w.raw["detector_mode"]) \in {"str", "list"} => IsSeqOf(Val(w.raw["detector_mode"]))
      BY <3>1 DEF ReadyWorld, IsRaw
    <3> QED BY <3>2, CsvTyped
  <2>5. StrategyOf(w, o) \in Strategies
    <3>1. ASSUME NEW v PROVE \/ StrictOverlapStrategy(v).value = {}
                             \/ \E n \in Strategies : StrictOverlapStrategy(v).value = {Part(n, "plain")}
      BY DEF StrictOverlapStrategy, Invalid, Valid1, Lowered, VALID_OVERLAP_STRATEGIES, Strategies
    <3>2. \/ o.regex_overlap_strategy = {}
          \/ \E n \in Strategies : o.regex_overlap_strategy = {Part(n, "plain")}
      BY <2>2, <2>3, <3>1
    <3>3. CASE o.regex_overlap_strategy = {}
      BY <3>3 DEF StrategyOf, ReadyWorld
    <3>4. ASSUME NEW n \in Strategies, o.regex_overlap_strategy = {Part(n, "plain")}
          PROVE  StrategyOf(w, o) = n
      <4>1. (CHOOSE p \in {Part(n, "plain")} : TRUE) = Part(n, "plain")
        OBVIOUS
      <4>2. o.regex_overlap_strategy # {}
        BY <3>4
      <4> QED BY <3>4, <4>1, <4>2 DEF StrategyOf, Part
    <3> QED BY <3>2, <3>3, <3>4
  <2> QED BY <2>4, <2>5
<1> QED BY <1>1, <1>2 DEF Overridden

LEMMA ActiveTyped ==
    ASSUME NEW w, ReadyWorld(w), NEW o, Overridden(w, o)
    PROVE  /\ ActiveDetectors(w, o) \in Seq(ToSet(w.configured))
           /\ ActiveDetectors(w, o) # <<>>
           /\ IsInjective(ActiveDetectors(w, o))
<1> DEFINE named == {n \in UNION {ToSet(q) : q \in o.detector_mode} : n.style = "plain"}
           mode == IF o.detector_mode = {} THEN <<>> ELSE CHOOSE q \in o.detector_mode : TRUE
           I == {i \in DOMAIN mode : mode[i] \in named /\ mode[i].name \in ToSet(w.configured)}
           known == Kept(mode, I)
           names == [i \in DOMAIN known |-> known[i].name]
<1>1. ActiveDetectors(w, o) = IF known = <<>> THEN w.configured ELSE Distinct(names)
  BY DEF ActiveDetectors, Where
<1>2. mode \in Seq(ToSet(mode))
  <2>1. CASE o.detector_mode = {}
    BY <2>1, EmptySeq
  <2>2. CASE o.detector_mode # {}
    <3>1. mode \in o.detector_mode
      BY <2>2
    <3> HIDE DEF mode
    <3> QED BY <3>1, OverridesTyped DEF IsSeqOf
  <2> QED BY <2>1, <2>2
<1>3. known \in Seq(ToSet(mode)) /\ ToSet(known) = {mode[i] : i \in I}
  <2>1. I \in SUBSET DOMAIN mode
    OBVIOUS
  <2> HIDE DEF I, mode
  <2> QED BY <1>2, <2>1, KeptTyped
<1>4. \A i \in I : mode[i].name \in ToSet(w.configured)
  OBVIOUS
<1> HIDE DEF mode, I, known
<1>5. Len(known) \in Nat /\ DOMAIN known = 1..Len(known)
      /\ \A i \in DOMAIN known : known[i].name \in ToSet(w.configured)
  <2>1. \A i \in DOMAIN known : known[i] \in ToSet(known)
    BY DEF ToSet
  <2> QED BY <1>3, <1>4, <2>1, LenProperties
<1>6. names \in [1..Len(known) -> ToSet(w.configured)]
  BY <1>5
<1>7. names \in Seq(ToSet(w.configured))
  <2> HIDE DEF names
  <2> QED BY <1>5, <1>6, SeqDef
<1>8. known # <<>> => names # <<>>
  <2> SUFFICES ASSUME known # <<>> PROVE names # <<>>
    OBVIOUS
  <2>1. Len(known) # 0
    BY <1>3, EmptySeq
  <2>2. 1 \in DOMAIN names
    BY <1>5, <2>1
  <2> HIDE DEF names
  <2>3. DOMAIN <<>> = {}
    OBVIOUS
  <2> QED BY <2>2, <2>3
<1> HIDE DEF names
<1>9. CASE known = <<>>
  <2>1. /\ w.configured \in Seq(ToSet(w.configured)) /\ w.configured # <<>>
        /\ IsInjective(w.configured)
    BY DEF ReadyWorld, IsSeqOf
  <2> QED BY <1>1, <1>9, <2>1
<1>10. CASE known # <<>>
  BY <1>1, <1>7, <1>8, <1>10, DistinctTyped
<1> QED BY <1>9, <1>10

\* The calls of a request: which detectors there are, and on what.
Jobs(w, o) == (ToSet(PerText(w, o)) \X DOMAIN w.texts) \cup (ToSet(MergedMode(w, o)) \X {BLOB})

LEMMA JobsTyped ==
    ASSUME NEW w, ReadyWorld(w), NEW o, Overridden(w, o)
    PROVE  \A j \in Jobs(w, o) :
             /\ j[1] \in ToSet(w.configured)
             /\ j[1] \in Local => TextOf(w, j) \in Seq(Char)
<1> DEFINE active == ActiveDetectors(w, o)
           A == {i \in DOMAIN active : active[i] \notin w.merged}
           B == {i \in DOMAIN active : active[i] \in Demoted(w, o)}
           C == {i \in DOMAIN active : active[i] \in w.merged \ Demoted(w, o)}
<1>1. active \in Seq(ToSet(w.configured))
  BY ActiveTyped
<1>2. PerText(w, o) = Kept(active, A) \o Kept(active, B) /\ MergedMode(w, o) = Kept(active, C)
  BY DEF PerText, MergedMode, Where
<1>3. C \in SUBSET DOMAIN active /\ \A i \in C : active[i] \in w.merged
  OBVIOUS
<1>4. \A i \in DOMAIN active : active[i] \in ToSet(w.configured)
  <2> HIDE DEF active
  <2> QED BY <1>1, LenProperties, ElementOfSeq
<1>5. A \in SUBSET DOMAIN active /\ B \in SUBSET DOMAIN active
  OBVIOUS
<1> HIDE DEF active, A, B, C
<1>6. /\ Kept(active, A) \in Seq(ToSet(w.configured)) /\ Kept(active, B) \in Seq(ToSet(w.configured))
      /\ Kept(active, C) \in Seq(ToSet(w.configured)) /\ ToSet(Kept(active, C)) = {active[i] : i \in C}
  BY <1>1, <1>3, <1>5, KeptTyped
<1>7. PerText(w, o) \in Seq(ToSet(w.configured))
  BY <1>2, <1>6, ConcatProperties
<1>8. \A d \in ToSet(PerText(w, o)) : d \in ToSet(w.configured)
  <2>1. \A i \in DOMAIN PerText(w, o) : PerText(w, o)[i] \in ToSet(w.configured)
    BY <1>7, LenProperties, ElementOfSeq
  <2>2. \A d \in ToSet(PerText(w, o)) : \E i \in DOMAIN PerText(w, o) : d = PerText(w, o)[i]
    BY DEF ToSet
  <2> QED BY <2>1, <2>2
<1>9. \A d \in ToSet(MergedMode(w, o)) : d \in ToSet(w.configured) /\ d \notin Local
  <2>1. \A i \in C : active[i] \in ToSet(w.configured) /\ active[i] \notin Local
    BY <1>3, <1>4 DEF ReadyWorld
  <2> QED BY <1>2, <1>6, <2>1
<1>10. \A i \in DOMAIN w.texts : i # BLOB /\ w.texts[i] \in Seq(Char)
  <2>1. w.texts \in Seq(Seq(Char))
    BY DEF ReadyWorld
  <2>2. Len(w.texts) \in Nat /\ DOMAIN w.texts = 1..Len(w.texts)
        /\ \A i \in DOMAIN w.texts : w.texts[i] \in Seq(Char)
    BY <2>1, LenProperties, ElementOfSeq
  <2> QED BY <2>2 DEF BLOB
<1> TAKE j \in Jobs(w, o)
<1>11. CASE j \in ToSet(PerText(w, o)) \X DOMAIN w.texts
  BY <1>8, <1>10, <1>11 DEF TextOf
<1>12. CASE j \in ToSet(MergedMode(w, o)) \X {BLOB}
  BY <1>9, <1>12
<1> QED BY <1>11, <1>12 DEF Jobs

-----------------------------------------------------------------------------
(* The invariant: where a local detector stands in its list of candidates.   *)

\* Of the first n candidates, those that got their span share no character, and
\* each of the others overlaps one that came before it and got its own.
Settled(C, claimed, n) ==
    /\ claimed \subseteq {C[i] : i \in 1..n}
    /\ \A a, b \in claimed : a # b => ~Overlaps(a, b)
    /\ \A i \in 1..n : \E k \in 1..i : C[k] \in claimed /\ Overlaps(C[k], C[i])

\* The queue holds what comes after the n-th.
After(C, queue, n) ==
    /\ queue \in Seq(ToSet(C)) /\ Len(queue) = Len(C) - n
    /\ \A i \in 1..Len(queue) : queue[i] = C[n + i]

JobFields == {"at", "queue", "claimed", "how", "matches", "sent", "reply"}
IsJob(r) == r = [f \in JobFields |-> r[f]]

LocalStands(r, C, t) ==
    /\ r.how = "found"
    /\ r.at \in {"ready", "claiming", "done"}
    /\ r.at = "claiming" => /\ t # <<>>
                            /\ \E n \in 0..Len(C) : Settled(C, r.claimed, n) /\ After(C, r.queue, n)
    /\ r.at = "done" => IF t = <<>> THEN r.claimed = {} ELSE Settled(C, r.claimed, Len(C))

JobStands(j, r, w, o) ==
    /\ IsJob(r)
    /\ j[1] \in Local => LocalStands(r, CandidatesOf(j, w, o), TextOf(w, j))

LocalInv ==
    /\ world \in Worlds
    /\ Overridden(world, over)
    /\ DOMAIN job \subseteq Jobs(world, over)
    /\ \A j \in DOMAIN job : JobStands(j, job[j], world, over)

\* A call just created, and a call some fields of which are set anew.
LEMMA FreshJob == IsJob(Fresh) /\ Fresh.at = "ready" /\ Fresh.how = "found" /\ Fresh.claimed = {}
<1> DEFINE reply == Reply("none", None)
<1>1. Fresh = [at |-> "ready", queue |-> <<>>, claimed |-> {}, how |-> "found", matches |-> <<>>,
               sent |-> <<>>, reply |-> reply]
  BY DEF Fresh
<1> HIDE DEF reply
<1>2. DOMAIN Fresh = JobFields
  BY <1>1 DEF JobFields
<1>3. Fresh.at = "ready" /\ Fresh.how = "found" /\ Fresh.claimed = {}
  BY <1>1
<1> QED BY <1>1, <1>3 DEF IsJob, JobFields

LEMMA JobAt ==
    ASSUME NEW r, IsJob(r), NEW at
    PROVE  LET s == [r EXCEPT !.at = at]
           IN IsJob(s) /\ s.at = at /\ s.queue = r.queue /\ s.claimed = r.claimed /\ s.how = r.how
BY DEF IsJob, JobFields

LEMMA JobEnds ==
    ASSUME NEW r, IsJob(r), NEW at, NEW q
    PROVE  LET s == [r EXCEPT !.at = at, !.matches = q]
           IN /\ IsJob(s) /\ s.at = at /\ s.claimed = r.claimed /\ s.how = r.how
              /\ s.matches = q /\ s.reply = r.reply
BY DEF IsJob, JobFields

LEMMA JobScanned ==
    ASSUME NEW r, IsJob(r), NEW q
    PROVE  LET s == [r EXCEPT !.at = "claiming", !.queue = q]
           IN IsJob(s) /\ s.at = "claiming" /\ s.queue = q /\ s.claimed = r.claimed /\ s.how = r.how
BY DEF IsJob, JobFields

LEMMA JobSkips ==
    ASSUME NEW r, IsJob(r)
    PROVE  LET s == [r EXCEPT !.queue = Tail(@)]
           IN IsJob(s) /\ s.at = r.at /\ s.queue = Tail(r.queue) /\ s.claimed = r.claimed /\ s.how = r.how
BY DEF IsJob, JobFields

LEMMA JobClaims ==
    ASSUME NEW r, IsJob(r), NEW c, NEW m
    PROVE  LET s == [r EXCEPT !.queue = Tail(@), !.claimed = @ \cup {c}, !.matches = Append(@, m)]
           IN /\ IsJob(s) /\ s.at = r.at /\ s.queue = Tail(r.queue)
              /\ s.claimed = r.claimed \cup {c} /\ s.how = r.how
BY DEF IsJob, JobFields

LEMMA JobPosts ==
    ASSUME NEW r, IsJob(r), NEW q, NEW how, NEW reply
    PROVE  /\ IsJob([r EXCEPT !.at = "posted", !.sent = q])
           /\ IsJob([r EXCEPT !.how = how])
           /\ IsJob([r EXCEPT !.how = how, !.reply = reply])
BY DEF IsJob, JobFields

LEMMA FreshStands ==
    ASSUME NEW j, NEW w, NEW o
    PROVE  JobStands(j, Fresh, w, o)
<1>1. /\ IsJob(Fresh) /\ Fresh.at = "ready" /\ Fresh.how = "found"
  BY FreshJob
<1> QED BY <1>1 DEF JobStands, LocalStands

LEMMA NothingSettled ==
    ASSUME NEW C, Spans(C)
    PROVE  Settled(C, {}, 0) /\ After(C, C, 0) /\ 0 \in 0..Len(C)
<1>1. C \in Seq(ToSet(C)) /\ Len(C) \in Nat
  BY LenProperties DEF Spans
<1>2. After(C, C, 0)
  BY <1>1 DEF After
<1>3. Settled(C, {}, 0)
  BY DEF Settled
<1> QED BY <1>1, <1>2, <1>3

\* One candidate more.
LEMMA OneMore ==
    ASSUME NEW C, Spans(C), NEW n \in 0..Len(C), NEW claimed, NEW queue,
           Settled(C, claimed, n), After(C, queue, n), queue # <<>>
    PROVE  /\ n + 1 \in 0..Len(C) /\ After(C, Tail(queue), n + 1)
           /\ (\E a \in claimed : Overlaps(a, Head(queue))) => Settled(C, claimed, n + 1)
           /\ ~(\E a \in claimed : Overlaps(a, Head(queue)))
                => Settled(C, claimed \cup {Head(queue)}, n + 1)
<1> DEFINE X == ToSet(C)
           c == Head(queue)
           lc == Len(C)
           lq == Len(queue)
<1>1. /\ C \in Seq(X) /\ Len(C) \in Nat /\ DOMAIN C = 1..Len(C)
      /\ \A i \in 1..Len(C) : C[i] \in X
  BY LenProperties, ElementOfSeq DEF Spans
<1>2. /\ queue \in Seq(X) /\ Len(queue) = Len(C) - n /\ Len(queue) \in Nat \ {0}
      /\ \A i \in 1..Len(queue) : queue[i] = C[n + i]
  BY EmptySeq DEF After
<1>3. n + 1 \in 0..Len(C) /\ 1 \in 1..Len(queue) /\ n + 1 \in 1..Len(C)
  <2>1. lc \in Nat /\ lq \in Nat \ {0} /\ lq = lc - n /\ n \in 0..lc
    BY <1>1, <1>2
  <2> HIDE DEF lc, lq
  <2>2. n + 1 \in 0..lc /\ 1 \in 1..lq /\ n + 1 \in 1..lc
    BY <2>1
  <2> QED BY <2>2 DEF lc, lq
<1>4. c = C[n + 1]
  <2>1. c = queue[1]
    BY <1>2
  <2> QED BY <1>2, <1>3, <2>1
<1> HIDE DEF X, c
<1>5. After(C, Tail(queue), n + 1)
  <2>1. /\ Tail(queue) \in Seq(X) /\ Len(Tail(queue)) = Len(queue) - 1
        /\ \A i \in 1..Len(Tail(queue)) : Tail(queue)[i] = queue[i + 1]
    BY <1>2, HeadTailProperties
  <2>2. \A i \in 1..Len(Tail(queue)) : i + 1 \in 1..Len(queue) /\ n + (i + 1) = (n + 1) + i
    BY <1>2, <2>1
  <2>3. \A i \in 1..Len(Tail(queue)) : Tail(queue)[i] = C[(n + 1) + i]
    BY <1>2, <2>1, <2>2
  <2> QED BY <1>1, <1>2, <1>3, <2>1, <2>3 DEF After, X
<1>6. c.start \in Int /\ c.end \in Int /\ c.start < c.end
  BY <1>1, <1>3, <1>4 DEF Spans, X
<1>7. 1..(n + 1) = 1..n \cup {n + 1} /\ \A i \in 1..n : i \in 1..(n + 1)
  BY <1>3
<1>8. ASSUME NEW a \in claimed, Overlaps(a, c) PROVE Settled(C, claimed, n + 1)
  <2>1. PICK k \in 1..n : a = C[k]
    BY DEF Settled
  <2>2. k \in 1..(n + 1) /\ C[k] \in claimed /\ Overlaps(C[k], C[n + 1])
    BY <1>4, <1>7, <1>8, <2>1
  <2>3. claimed \subseteq {C[i] : i \in 1..(n + 1)}
    BY <1>7 DEF Settled
  <2>4. \A i \in 1..(n + 1) : \E l \in 1..i : C[l] \in claimed /\ Overlaps(C[l], C[i])
    BY <1>7, <2>2 DEF Settled
  <2> QED BY <2>3, <2>4 DEF Settled
<1>9. ASSUME ~(\E a \in claimed : Overlaps(a, c)) PROVE Settled(C, claimed \cup {c}, n + 1)
  <2>1. \A a \in claimed : ~Overlaps(a, c) /\ ~Overlaps(c, a)
    BY <1>9 DEF Overlaps
  <2>2. \A a, b \in claimed \cup {c} : a # b => ~Overlaps(a, b)
    BY <2>1 DEF Settled
  <2>3. claimed \cup {c} \subseteq {C[i] : i \in 1..(n + 1)}
    BY <1>3, <1>4, <1>7 DEF Settled
  <2>4. n + 1 \in 1..(n + 1) /\ C[n + 1] \in claimed \cup {c} /\ Overlaps(C[n + 1], C[n + 1])
    BY <1>3, <1>4, <1>6 DEF Overlaps
  <2>5. ASSUME NEW i \in 1..(n + 1)
        PROVE  \E l \in 1..i : C[l] \in claimed \cup {c} /\ Overlaps(C[l], C[i])
    <3>1. CASE i \in 1..n
      BY <3>1 DEF Settled
    <3>2. CASE i = n + 1
      BY <2>4, <3>2
    <3> QED BY <1>7, <3>1, <3>2
  <2> QED BY <2>2, <2>3, <2>5 DEF Settled
<1> QED BY <1>3, <1>5, <1>8, <1>9 DEF c

LEMMA AllSettled ==
    ASSUME NEW C, Spans(C), NEW n \in 0..Len(C), NEW claimed, NEW queue,
           Settled(C, claimed, n), After(C, queue, n), queue = <<>>
    PROVE  Settled(C, claimed, Len(C))
<1>1. Len(C) \in Nat
  BY LenProperties DEF Spans
<1>2. Len(queue) = 0 /\ Len(queue) = Len(C) - n
  BY EmptySeq DEF After
<1>3. n = Len(C)
  BY <1>1, <1>2
<1> QED BY <1>3

\* The steps of a local detector, for the call they change.
LEMMA ScanStands ==
    ASSUME Ready, LocalInv, NEW j \in DOMAIN job, Scan(j)
    PROVE  \E r : SetJob(j, r) /\ JobStands(j, r, world, over)
<1> DEFINE t == TextOf(world, j)
           C == CandidatesOf(j, world, over)
           empty == [Fresh EXCEPT !.at = "done", !.matches = <<>>]
           scanned == [Fresh EXCEPT !.at = "claiming", !.queue = C]
<1>1. j[1] \in Local /\ ReadyWorld(world) /\ Overridden(world, over) /\ j \in Jobs(world, over)
  BY DEF Scan, LocalInv, Ready
<1>2. t \in Seq(Char) /\ Spans(C)
  BY <1>1, JobsTyped, CandidatesSpans
<1>3. StrategyOf(world, over) \in Strategies
  BY <1>1, OverridesTyped
<1>4. CASE t = <<>>
  <2>1. SetJob(j, empty)
    BY <1>4 DEF Scan, Done
  <2>2. JobStands(j, empty, world, over)
    <3>1. IsJob(empty) /\ empty.at = "done" /\ empty.claimed = {} /\ empty.how = "found"
      <4> DEFINE q == <<>>
                 s == [Fresh EXCEPT !.at = "done", !.matches = q]
      <4>1. IsJob(s) /\ s.at = "done" /\ s.claimed = Fresh.claimed /\ s.how = Fresh.how
        <5> HIDE DEF q
        <5> QED BY FreshJob DEF IsJob, JobFields
      <4> QED BY <4>1, FreshJob
    <3> HIDE DEF empty, C
    <3> QED BY <1>4, <3>1 DEF JobStands, LocalStands
  <2> QED BY <2>1, <2>2
<1>5. CASE t # <<>>
  <2>1. SetJob(j, scanned)
    BY <1>3, <1>5 DEF Scan
  <2>2. JobStands(j, scanned, world, over)
    <3>1. /\ IsJob(scanned) /\ scanned.at = "claiming" /\ scanned.queue = C
          /\ scanned.claimed = {} /\ scanned.how = "found"
      <4> HIDE DEF C
      <4>1. /\ IsJob(scanned) /\ scanned.at = "claiming" /\ scanned.queue = C
            /\ scanned.claimed = Fresh.claimed /\ scanned.how = Fresh.how
        BY FreshJob, JobScanned
      <4> QED BY <4>1, FreshJob
    <3>2. \E n \in 0..Len(C) : Settled(C, {}, n) /\ After(C, C, n)
      <4> HIDE DEF C
      <4> QED BY <1>2, NothingSettled
    <3>3. IsJob(scanned) /\ LocalStands(scanned, C, t)
      <4> HIDE DEF scanned, C, t
      <4> QED BY <1>5, <3>1, <3>2 DEF LocalStands
    <3> QED BY <3>3 DEF JobStands
  <2> QED BY <2>1, <2>2
<1> QED BY <1>4, <1>5

LEMMA ClaimStands ==
    ASSUME Ready, LocalInv, NEW j \in DOMAIN job, Claim(j)
    PROVE  \E r : SetJob(j, r) /\ JobStands(j, r, world, over)
<1> DEFINE t == TextOf(world, j)
           C == CandidatesOf(j, world, over)
           r == job[j]
           c == Head(r.queue)
           taken == \E a \in r.claimed : Overlaps(a, c)
           skipped == [r EXCEPT !.queue = Tail(@)]
           got == [r EXCEPT !.queue = Tail(@), !.claimed = @ \cup {c},
                            !.matches = Append(@, Match(c.value, c.type))]
<1>1. /\ ReadyWorld(world) /\ Overridden(world, over) /\ j \in Jobs(world, over)
      /\ JobStands(j, r, world, over) /\ r.at = "claiming" /\ r.queue # <<>>
  BY DEF Claim, Open, LocalInv, Ready
<1>2. CASE j[1] \notin Local
  <2>1. IsJob(r)
    BY <1>1 DEF JobStands
  <2>2. IsJob(skipped) /\ IsJob(got)
    <3> HIDE DEF r, c
    <3> QED BY <2>1, JobSkips, JobClaims
  <2>3. SetJob(j, skipped) \/ SetJob(j, got)
    BY DEF Claim
  <2> HIDE DEF skipped, got
  <2> QED BY <1>2, <2>2, <2>3 DEF JobStands
<1>3. CASE j[1] \in Local
  <2>1. IsJob(r) /\ LocalStands(r, C, t)
    BY <1>1, <1>3 DEF JobStands
  <2>2. Spans(C)
    BY <1>1, <1>3, JobsTyped, CandidatesSpans
  <2> HIDE DEF C, t
  <2>3. PICK n \in 0..Len(C) : Settled(C, r.claimed, n) /\ After(C, r.queue, n)
    BY <1>1, <2>1 DEF LocalStands
  <2>4. /\ n + 1 \in 0..Len(C) /\ After(C, Tail(r.queue), n + 1)
        /\ taken => Settled(C, r.claimed, n + 1)
        /\ ~taken => Settled(C, r.claimed \cup {c}, n + 1)
    <3> HIDE DEF r
    <3> QED BY <1>1, <2>2, <2>3, OneMore
  <2>5. t # <<>> /\ r.how = "found"
    BY <1>1, <2>1 DEF LocalStands
  <2>6. CASE taken
    <3>1. SetJob(j, skipped)
      BY <2>6 DEF Claim
    <3>2. /\ IsJob(skipped) /\ skipped.at = r.at /\ skipped.queue = Tail(r.queue)
          /\ skipped.claimed = r.claimed /\ skipped.how = r.how
      <4> HIDE DEF r
      <4> QED BY <2>1, JobSkips
    <3>3. IsJob(skipped) /\ LocalStands(skipped, C, t)
      <4> HIDE DEF skipped, r, c
      <4> QED BY <1>1, <2>4, <2>5, <2>6, <3>2 DEF LocalStands
    <3> HIDE DEF skipped
    <3> QED BY <3>1, <3>3 DEF JobStands, C, t
  <2>7. CASE ~taken
    <3>1. SetJob(j, got)
      BY <2>7 DEF Claim
    <3>2. /\ IsJob(got) /\ got.at = r.at /\ got.queue = Tail(r.queue)
          /\ got.claimed = r.claimed \cup {c} /\ got.how = r.how
      <4> DEFINE m == Match(c.value, c.type)
                 s == [r EXCEPT !.queue = Tail(@), !.claimed = @ \cup {c}, !.matches = Append(@, m)]
      <4>1. /\ IsJob(s) /\ s.at = r.at /\ s.queue = Tail(r.queue)
            /\ s.claimed = r.claimed \cup {c} /\ s.how = r.how
        <5> HIDE DEF r, c, m
        <5> QED BY <2>1 DEF IsJob, JobFields
      <4> QED BY <4>1
    <3>3. IsJob(got) /\ LocalStands(got, C, t)
      <4> HIDE DEF got, r, c
      <4> QED BY <1>1, <2>4, <2>5, <2>7, <3>2 DEF LocalStands
    <3> HIDE DEF got
    <3> QED BY <3>1, <3>3 DEF JobStands, C, t
  <2> QED BY <2>6, <2>7
<1> QED BY <1>2, <1>3

LEMMA SettleStands ==
    ASSUME Ready, LocalInv, NEW j \in DOMAIN job, Settle(j)
    PROVE  \E r : SetJob(j, r) /\ JobStands(j, r, world, over)
<1> DEFINE t == TextOf(world, j)
           C == CandidatesOf(j, world, over)
           r == job[j]
           done == [r EXCEPT !.at = "done"]
<1>1. /\ ReadyWorld(world) /\ Overridden(world, over) /\ j \in Jobs(world, over)
      /\ JobStands(j, r, world, over) /\ r.at = "claiming" /\ r.queue = <<>>
  BY DEF Settle, Open, LocalInv, Ready
<1>2. SetJob(j, done)
  BY DEF Settle
<1>3. IsJob(r)
  BY <1>1 DEF JobStands
<1>4. IsJob(done) /\ done.at = "done" /\ done.claimed = r.claimed /\ done.how = r.how
  <2> HIDE DEF r
  <2> QED BY <1>3, JobAt
<1>5. ASSUME j[1] \in Local PROVE LocalStands(done, C, t)
  <2>1. LocalStands(r, C, t)
    BY <1>1, <1>5 DEF JobStands
  <2>2. Spans(C)
    BY <1>1, <1>5, JobsTyped, CandidatesSpans
  <2> HIDE DEF C, t, r
  <2>3. Settled(C, r.claimed, Len(C)) /\ t # <<>> /\ r.how = "found"
    BY <1>1, <2>1, <2>2, AllSettled DEF LocalStands
  <2> HIDE DEF done
  <2> QED BY <1>4, <2>3 DEF LocalStands
<1> HIDE DEF done
<1> QED BY <1>2, <1>4, <1>5 DEF JobStands

\* A remote detector keeps its calls in shape.
LEMMA RemoteStands ==
    ASSUME LocalInv, NEW j \in DOMAIN job,
           Post(j) \/ (job[j].at = "posted" /\ \E reply : Hear(j, reply))
    PROVE  \E r : SetJob(j, r) /\ JobStands(j, r, world, over)
<1>1. IsJob(job[j]) /\ JobStands(j, job[j], world, over)
  BY DEF LocalInv, JobStands
<1>2. IsJob(Fresh)
  BY FreshJob
<1>3. ASSUME NEW r, IsJob(r) PROVE \A d : IsJob(Fail(r, d))
  <2> TAKE d
  <2> DEFINE at == IF d \in world.closed THEN "failed" ELSE "done"
  <2>1. IsJob([r EXCEPT !.at = at, !.matches = <<>>])
    <3> HIDE DEF at
    <3> QED BY <1>3, JobEnds
  <2> QED BY <2>1 DEF Fail
<1>4. ASSUME NEW r, IsJob(r) PROVE \A q : IsJob(Done(r, q))
  BY <1>4, JobEnds DEF Done
<1>5. ASSUME NEW r, IsJob(r), NEW how, NEW reply
      PROVE  IsJob([r EXCEPT !.how = how, !.reply = reply])
  BY <1>5, JobPosts
<1>6. CASE Post(j)
  <2>1. j[1] \notin Local
    BY <1>6 DEF Post
  <2> DEFINE late == [Fresh EXCEPT !.how = "unavailable"]
             posted == [Fresh EXCEPT !.at = "posted",
                              !.sent = <<Request(j[1], TextOf(world, j), over, world), ApiKey(world)>>]
  <2>2. IsJob(late) /\ IsJob(posted)
    <3> DEFINE sent == <<Request(j[1], TextOf(world, j), over, world), ApiKey(world)>>
    <3> HIDE DEF sent
    <3>1. IsJob([Fresh EXCEPT !.how = "unavailable"]) /\ IsJob([Fresh EXCEPT !.at = "posted", !.sent = sent])
      BY <1>2, JobPosts
    <3> QED BY <3>1 DEF sent
  <2>3. SetJob(j, Done(Fresh, <<>>)) \/ SetJob(j, Fail(late, "llm")) \/ SetJob(j, posted)
    BY <1>6 DEF Post
  <2> HIDE DEF late, posted
  <2>4. IsJob(Done(Fresh, <<>>)) /\ IsJob(Fail(late, "llm"))
    BY <1>2, <1>3, <1>4, <2>2
  <2> QED BY <2>1, <2>2, <2>3, <2>4 DEF JobStands
<1>7. ASSUME NEW reply, Hear(j, reply), job[j].at = "posted"
      PROVE  \E r : SetJob(j, r) /\ JobStands(j, r, world, over)
  <2>1. j[1] \notin Local
    BY <1>1, <1>7 DEF JobStands, LocalStands
  <2> DEFINE outcome == Outcome(j[1], reply, TextOf(world, j))
             heard == [job[j] EXCEPT !.how = outcome.how, !.reply = reply]
  <2>2. IsJob(heard)
    <3> HIDE DEF outcome
    <3> QED BY <1>1, <1>5
  <2>3. SetJob(j, Done(heard, outcome.matches)) \/ SetJob(j, Fail(heard, j[1]))
    BY <1>7 DEF Hear
  <2> HIDE DEF heard, outcome
  <2>4. IsJob(Done(heard, outcome.matches)) /\ IsJob(Fail(heard, j[1]))
    BY <1>3, <1>4, <2>2
  <2> QED BY <2>1, <2>3, <2>4 DEF JobStands
<1> QED BY <1>6, <1>7

LEMMA LocalInitial == Init => LocalInv
<1> SUFFICES ASSUME Init PROVE LocalInv
  OBVIOUS
<1>1. DOMAIN job = {}
  BY DEF Init
<1> QED BY <1>1 DEF Init, LocalInv, Overridden

LEMMA LocalKept ==
    ASSUME Ready
    PROVE  LocalInv /\ [Next]_vars => LocalInv'
<1> SUFFICES ASSUME LocalInv, [Next]_vars PROVE LocalInv'
  OBVIOUS
<1> USE DEF LocalInv
<1>1. ASSUME NEW j \in DOMAIN job, NEW r, SetJob(j, r), JobStands(j, r, world, over)
      PROVE  LocalInv'
  <2>1. /\ world' = world /\ over' = over /\ DOMAIN job' = DOMAIN job
        /\ \A k \in DOMAIN job : job'[k] = IF k = j THEN r ELSE job[k]
    BY <1>1 DEF SetJob
  <2>2. \A k \in DOMAIN job' : JobStands(k, job'[k], world, over)
    BY <1>1, <2>1
  <2> QED BY <2>1, <2>2
<1>2. CASE Receive
  <2> DEFINE o == ParseOverrides(world.raw)
  <2>1. /\ world' = world /\ over' = o /\ job' = [j \in Jobs(world, o) |-> Fresh]
    BY <1>2 DEF Receive, Jobs
  <2>2. Overridden(world, o)
    BY DEF Overridden
  <2>3. \A j \in Jobs(world, o) : JobStands(j, job'[j], world, o)
    <3> HIDE DEF o
    <3> QED BY <2>1, FreshStands
  <2> HIDE DEF o
  <2> QED BY <2>1, <2>2, <2>3
<1>3. CASE Refuse \/ Trip \/ Release \/ Block \/ UNCHANGED vars
  <2>1. world' = world /\ over' = over /\ job' = job
    BY <1>3 DEF Refuse, Trip, Release, Block, vars
  <2> QED BY <2>1
<1>4. ASSUME NEW j \in DOMAIN job, Scan(j) \/ Claim(j) \/ Settle(j) \/ Post(j) PROVE LocalInv'
  <2>1. \E r : SetJob(j, r) /\ JobStands(j, r, world, over)
    BY <1>4, ScanStands, ClaimStands, SettleStands, RemoteStands
  <2> QED BY <1>1, <2>1
<1>5. ASSUME NEW j \in DOMAIN job, job[j].at = "posted", NEW reply, Hear(j, reply) PROVE LocalInv'
  <2>1. \E r : SetJob(j, r) /\ JobStands(j, r, world, over)
    BY <1>5, RemoteStands
  <2> QED BY <1>1, <2>1
<1> QED BY <1>2, <1>3, <1>4, <1>5 DEF Next

\* Every call of a local detector stands where its list of candidates says.
THEOREM LocalInvariant == Spec => []LocalInv
<1>1. Ready
  BY WorldsReady
<1> QED BY <1>1, LocalInitial, LocalKept, PTL DEF Spec

-----------------------------------------------------------------------------
(* What the invariant says of the claims, the overrides and the keys.        *)

\* Two spans overlap when they hold a character in common, and only then.
LEMMA OverlapShares ==
    ASSUME NEW a, NEW b, a.start \in Int, a.end \in Int, b.start \in Int, b.end \in Int,
           a.start < a.end, b.start < b.end
    PROVE  Overlaps(a, b) <=> Share(a, b)
<1>1. ASSUME Overlaps(a, b) PROVE Share(a, b)
  <2> DEFINE p == IF a.start <= b.start THEN b.start ELSE a.start
  <2>1. p \in a.start..(a.end - 1) /\ p \in b.start..(b.end - 1)
    BY <1>1 DEF Overlaps
  <2> HIDE DEF p
  <2> QED BY <2>1 DEF Share
<1>2. ASSUME Share(a, b) PROVE Overlaps(a, b)
  BY <1>2 DEF Share, Overlaps
<1> QED BY <1>1, <1>2

LEMMA ClaimsOfJob ==
    ASSUME Ready, LocalInv, NEW d \in Local, NEW j \in Ended(d, "found")
    PROVE  LET claimed == job[j].claimed
           IN /\ \A a, b \in claimed : a # b => ~Share(a, b)
              /\ TextOf(world, j) # <<>> =>
                   \A c \in ToSet(CandidatesOf(j, world, over)) :
                       \E a \in claimed :
                           /\ Share(a, c)
                           /\ d = "denylist" \/ StrategyOf(world, over) = "longest"
                                => Width(a) >= Width(c)
<1> DEFINE t == TextOf(world, j)
           C == CandidatesOf(j, world, over)
           claimed == job[j].claimed
           sure == d = "denylist" \/ StrategyOf(world, over) = "longest"
<1>1. /\ j \in DOMAIN job /\ j[1] = d /\ job[j].at = "done"
      /\ ReadyWorld(world) /\ Overridden(world, over) /\ j \in Jobs(world, over)
      /\ JobStands(j, job[j], world, over)
  BY DEF Ended, LocalInv, Ready
<1>2. /\ Spans(C)
      /\ sure => \A k, l \in DOMAIN C : k < l => Width(C[k]) >= Width(C[l])
  <2>1. t \in Seq(Char)
    BY <1>1, JobsTyped
  <2>2. sure => ByWidth(j, world, over)
    BY <1>1 DEF ByWidth
  <2>3. /\ Spans(C)
        /\ ByWidth(j, world, over) => \A k, l \in DOMAIN C : k < l => Width(C[k]) >= Width(C[l])
    BY <1>1, <2>1, CandidatesSpans
  <2> HIDE DEF C, sure
  <2> QED BY <2>2, <2>3
<1>3. IF t = <<>> THEN claimed = {} ELSE Settled(C, claimed, Len(C))
  BY <1>1 DEF JobStands, LocalStands
<1> HIDE DEF t, C, claimed, sure
<1>4. /\ DOMAIN C = 1..Len(C) /\ Len(C) \in Nat
      /\ \A i \in 1..Len(C) : C[i].start \in Int /\ C[i].end \in Int /\ C[i].start < C[i].end
  <2>1. DOMAIN C = 1..Len(C) /\ Len(C) \in Nat /\ \A i \in 1..Len(C) : C[i] \in ToSet(C)
    BY <1>2, LenProperties, ElementOfSeq DEF Spans
  <2> QED BY <1>2, <2>1 DEF Spans
<1>5. \A a, b \in claimed : a # b => ~Share(a, b)
  <2>1. CASE t = <<>>
    BY <1>3, <2>1
  <2>2. CASE t # <<>>
    <3> SUFFICES ASSUME NEW a \in claimed, NEW b \in claimed, a # b PROVE ~Share(a, b)
      OBVIOUS
    <3>1. Settled(C, claimed, Len(C))
      BY <1>3, <2>2
    <3>2. PICK i \in 1..Len(C), k \in 1..Len(C) : a = C[i] /\ b = C[k]
      BY <3>1 DEF Settled
    <3>3. ~Overlaps(a, b)
      BY <3>1 DEF Settled
    <3> QED BY <1>4, <3>2, <3>3, OverlapShares
  <2> QED BY <2>1, <2>2
<1>6. ASSUME t # <<>>, NEW c \in ToSet(C)
      PROVE  \E a \in claimed : Share(a, c) /\ (sure => Width(a) >= Width(c))
  <2>1. Settled(C, claimed, Len(C))
    BY <1>3, <1>6
  <2>2. PICK i \in 1..Len(C) : c = C[i]
    BY <1>4 DEF ToSet
  <2>3. PICK k \in 1..i : C[k] \in claimed /\ Overlaps(C[k], C[i])
    BY <2>1, <2>2 DEF Settled
  <2>4. k \in 1..Len(C)
    BY <1>4, <2>2, <2>3
  <2>5. Share(C[k], c)
    BY <1>4, <2>2, <2>3, <2>4, OverlapShares
  <2>6. sure => Width(C[k]) >= Width(c)
    <3>1. CASE k = i
      BY <1>4, <2>2, <3>1 DEF Width
    <3>2. CASE k # i
      <4>1. k < i
        BY <2>2, <2>3, <3>2
      <4> QED BY <1>2, <1>4, <2>2, <2>4, <4>1
    <3> QED BY <3>1, <3>2
  <2> QED BY <2>3, <2>5, <2>6
<1> QED BY <1>5, <1>6 DEF t, C, claimed, sure

\* Whatever the patterns, the denylists, the texts and the overrides: no
\* character of a text is claimed twice, and a candidate that lost its span lost
\* it to one that overlaps it and, longest first, is no shorter (regex.py and
\* denylist.py, pass 2).
THEOREM ClaimsAreSettled == Spec => []ClaimsSettled
<1>1. LocalInv => ClaimsSettled
  <2>0. Ready
    BY WorldsReady
  <2> SUFFICES ASSUME LocalInv PROVE ClaimsSettled
    OBVIOUS
  <2> QED BY <2>0, ClaimsOfJob DEF ClaimsSettled
<1> QED BY <1>1, LocalInvariant, PTL

\* What a call of the GLiNER service asks for as its threshold.
ThresholdStands(j, r, w) ==
    j[1] = "gliner_pii" /\ r.sent # <<>> =>
        r.sent[1].threshold = Effective(AskedThreshold(w.raw), w.threshold)

AskedInv ==
    /\ status = "failed" => ParseRaises(world.raw)
    /\ status \in {"running", "released", "blocked"} =>
          ~ParseRaises(world.raw) /\ over = ParseOverrides(world.raw)
    /\ \A j \in DOMAIN job : ThresholdStands(j, job[j], world)

\* What parse_overrides makes of a threshold is the client's number, if any.
LEMMA ThresholdParsed ==
    ASSUME NEW raw, IsRaw(raw)
    PROVE  ParseOverrides(raw).gliner_threshold = AskedThreshold(raw)
<1> DEFINE v == raw["gliner_threshold"]
           asked == {n \in 0..100 : Tag(v) = "num" /\ Val(v) = n}
           given == "gliner_threshold" \in DOMAIN raw
<1>1. ParseOverrides(raw).gliner_threshold = IF given THEN StrictThreshold(v).value ELSE {}
  <2>1. "gliner_threshold" \in Fields
    BY DEF Fields, Unset
  <2>2. Validate("gliner_threshold", v) = StrictThreshold(v)
    BY DEF Validate
  <2> QED BY <2>1, <2>2 DEF ParseOverrides
<1>2. AskedThreshold(raw) = IF given THEN asked ELSE {}
  BY DEF AskedThreshold
<1>3. given /\ Tag(v) = "num" => Val(v) \in Int
  BY DEF IsRaw
<1> HIDE DEF v
<1>4. given => StrictThreshold(v).value = asked
  BY <1>3 DEF StrictThreshold, Valid1, Invalid
<1> QED BY <1>1, <1>2, <1>4

\* What a step of a call leaves of the request it sent.
LEMMA SentKept ==
    ASSUME NEW r, IsJob(r), NEW a, NEW b, NEW c
    PROVE  /\ [r EXCEPT !.at = a, !.matches = b].sent = r.sent
           /\ [r EXCEPT !.at = a, !.how = b].sent = r.sent
           /\ [r EXCEPT !.at = a, !.queue = b].sent = r.sent
           /\ [r EXCEPT !.queue = a].sent = r.sent
           /\ [r EXCEPT !.queue = a, !.claimed = b, !.matches = c].sent = r.sent
           /\ [r EXCEPT !.at = a].sent = r.sent
           /\ [r EXCEPT !.how = a].sent = r.sent
           /\ [r EXCEPT !.how = a, !.reply = b].sent = r.sent
           /\ [r EXCEPT !.at = a, !.sent = b].sent = b
BY DEF IsJob, JobFields

LEMMA KeyAsks ==
    ASSUME NEW w, ReadyWorld(w)
    PROVE  \A o, p, d, t : CacheKey(d, t, o, w) = CacheKey(d, t, p, w)
                             => Request(d, t, o, w) = Request(d, t, p, w)
<1> SUFFICES ASSUME NEW o, NEW p, NEW d, NEW t, CacheKey(d, t, o, w) = CacheKey(d, t, p, w)
             PROVE  Request(d, t, o, w) = Request(d, t, p, w)
  OBVIOUS
<1>0. "" \notin DOMAIN w.prompts
  BY DEF ReadyWorld
<1>1. CASE d = "llm"
  <2> DEFINE NameIn(u) == IF u.llm_prompt = {} THEN "default" ELSE PlainName(u.llm_prompt)
  <2>1. /\ Effective(o.llm_model, w.model) = Effective(p.llm_model, w.model)
        /\ NameIn(o) = NameIn(p)
    BY <1>1 DEF CacheKey
  <2>2. ASSUME NEW u
        PROVE  Named(PlainName(u.llm_prompt), w.prompt, w.prompts) = Named(NameIn(u), w.prompt, w.prompts)
    <3>1. CASE u.llm_prompt = {}
      <4>1. PlainName(u.llm_prompt) = "" /\ NameIn(u) = "default"
        BY <3>1 DEF PlainName
      <4> QED BY <1>0, <4>1 DEF Named
    <3>2. CASE u.llm_prompt # {}
      BY <3>2
    <3> QED BY <3>1, <3>2
  <2> HIDE DEF NameIn
  <2>3. Named(PlainName(o.llm_prompt), w.prompt, w.prompts)
          = Named(PlainName(p.llm_prompt), w.prompt, w.prompts)
    BY <2>1, <2>2
  <2> QED BY <1>1, <2>1, <2>3 DEF Request
<1>2. CASE d = "gliner_pii"
  BY <1>2 DEF CacheKey, Request
<1>3. CASE d \notin {"llm", "gliner_pii"}
  BY <1>3 DEF Request
<1> QED BY <1>1, <1>2, <1>3

LEMMA KwargsAsk ==
    ASSUME NEW w, NEW o, NEW p, NEW d, NEW t, CallKwargs(d, o) = CallKwargs(d, p)
    PROVE  /\ d \notin Local => Request(d, t, o, w) = Request(d, t, p, w)
           /\ d \in Local => \A i : CandidatesOf(<<d, i>>, w, o) = CandidatesOf(<<d, i>>, w, p)
<1>1. CASE d = "llm"
  <2>1. o.llm_model = p.llm_model /\ o.llm_prompt = p.llm_prompt
    BY <1>1 DEF CallKwargs
  <2> QED BY <1>1, <2>1 DEF Request, Local
<1>2. CASE d = "gliner_pii"
  <2>1. o.gliner_labels = p.gliner_labels /\ o.gliner_threshold = p.gliner_threshold
    BY <1>2 DEF CallKwargs
  <2> QED BY <1>2, <2>1 DEF Request, Local
<1>3. CASE d = "regex"
  <2>1. o.regex_overlap_strategy = p.regex_overlap_strategy /\ o.regex_patterns = p.regex_patterns
    BY <1>3 DEF CallKwargs
  <2>2. StrategyOf(w, o) = StrategyOf(w, p)
    BY <2>1 DEF StrategyOf
  <2>3. ASSUME NEW i PROVE CandidatesOf(<<d, i>>, w, o) = CandidatesOf(<<d, i>>, w, p)
    BY <1>3, <2>1, <2>2 DEF CandidatesOf
  <2> QED BY <1>3, <2>3 DEF Local
<1>4. CASE d = "denylist"
  <2>1. o.denylist = p.denylist
    BY <1>4 DEF CallKwargs
  <2>2. ASSUME NEW i PROVE CandidatesOf(<<d, i>>, w, o) = CandidatesOf(<<d, i>>, w, p)
    BY <1>4, <2>1 DEF CandidatesOf
  <2> QED BY <1>4, <2>2 DEF Local
<1>5. CASE d \notin {"llm", "gliner_pii", "regex", "denylist"}
  BY <1>5 DEF Request, Local
<1> QED BY <1>1, <1>2, <1>3, <1>4, <1>5

\* Two requests that share an entry of a detector's cache, or of the pipeline's,
\* would have asked and looked for the same: a hit never answers for another
\* model, prompt, label set, threshold, pattern set or denylist (cache_key_for,
\* pipeline.py).
THEOREM KeysTellApart == Spec => []KeysTellRequestsApart
<1>1. LocalInv => KeysTellRequestsApart
  <2>0. Ready
    BY WorldsReady
  <2> SUFFICES ASSUME LocalInv PROVE KeysTellRequestsApart
    OBVIOUS
  <2>1. ReadyWorld(world)
    BY <2>0 DEF LocalInv, Ready
  <2>2. ASSUME NEW raw \in {raw \in Raws : ~ParseRaises(raw)}, NEW i \in DOMAIN world.texts
        PROVE  LET o == ParseOverrides(raw)
                   ds == ActiveDetectors(world, over)
                   t == world.texts[i]
                   Same(d) == Request(d, t, o, world) = Request(d, t, over, world)
               IN /\ \A d \in ToSet(ds) \ Local :
                       CacheKey(d, t, o, world) = CacheKey(d, t, over, world) => Same(d)
                  /\ PipelineKey(t, ActiveDetectors(world, o), o) = PipelineKey(t, ds, over) =>
                       /\ \A d \in ToSet(ds) \ Local : Same(d)
                       /\ \A d \in ToSet(ds) \cap Local :
                            CandidatesOf(<<d, i>>, world, o) = CandidatesOf(<<d, i>>, world, over)
    <3> DEFINE o == ParseOverrides(raw)
               ds == ActiveDetectors(world, over)
               es == ActiveDetectors(world, o)
               t == world.texts[i]
    <3> HIDE DEF o, ds, es, t
    <3>1. ASSUME NEW d, CacheKey(d, t, o, world) = CacheKey(d, t, over, world)
          PROVE  Request(d, t, o, world) = Request(d, t, over, world)
      BY <2>1, <3>1, KeyAsks
    <3>2. ASSUME PipelineKey(t, es, o) = PipelineKey(t, ds, over), NEW d \in ToSet(ds)
          PROVE  CallKwargs(d, o) = CallKwargs(d, over)
      <4>1. es = ds /\ [k \in DOMAIN es |-> CallKwargs(es[k], o)] = [k \in DOMAIN ds |-> CallKwargs(ds[k], over)]
        BY <3>2 DEF PipelineKey
      <4>2. PICK k \in DOMAIN ds : d = ds[k]
        BY DEF ToSet
      <4>3. \A l \in DOMAIN ds : CallKwargs(ds[l], o) = CallKwargs(ds[l], over)
        BY <4>1
      <4> QED BY <4>2, <4>3
    <3>3. ASSUME PipelineKey(t, es, o) = PipelineKey(t, ds, over)
          PROVE  /\ \A d \in ToSet(ds) \ Local : Request(d, t, o, world) = Request(d, t, over, world)
                 /\ \A d \in ToSet(ds) \cap Local :
                      CandidatesOf(<<d, i>>, world, o) = CandidatesOf(<<d, i>>, world, over)
      <4>1. \A d \in ToSet(ds) : CallKwargs(d, o) = CallKwargs(d, over)
        BY <3>2, <3>3
      <4> QED BY <4>1, KwargsAsk
    <3> QED BY <3>1, <3>3 DEF o, ds, es, t
  <2> QED BY <2>2 DEF KeysTellRequestsApart
<1> QED BY <1>1, LocalInvariant, PTL

-----------------------------------------------------------------------------
(* Sequences of whatever they hold.                                          *)

LEMMA SeqOfAny ==
    ASSUME NEW X, NEW q \in Seq(X)
    PROVE  /\ IsSeqOf(q) /\ Len(q) \in Nat /\ DOMAIN q = 1..Len(q)
           /\ ToSet(q) \subseteq X /\ \A i \in DOMAIN q : q[i] \in ToSet(q)
<1>1. Len(q) \in Nat /\ DOMAIN q = 1..Len(q) /\ q \in [1..Len(q) -> X]
  BY LenProperties
<1>2. q = [i \in 1..Len(q) |-> q[i]] /\ \A i \in DOMAIN q : q[i] \in X
  BY <1>1
<1>3. \A i \in DOMAIN q : q[i] \in ToSet(q)
  BY DEF ToSet
<1>4. ToSet(q) \subseteq X
  BY <1>2 DEF ToSet
<1>5. q \in [1..Len(q) -> ToSet(q)]
  BY <1>1, <1>3
<1>6. q \in Seq(ToSet(q))
  BY <1>1, <1>5, SeqDef
<1> QED BY <1>1, <1>3, <1>4, <1>6 DEF IsSeqOf

LEMMA ListSeq ==
    ASSUME NEW n \in Nat, NEW q, q = [i \in 1..n |-> q[i]]
    PROVE  IsSeqOf(q)
BY SeqOver DEF IsSeqOf

\* What was made of q place by place is a sequence as q is.
LEMMA MappedSeq ==
    ASSUME NEW q, IsSeqOf(q), NEW r, r = [i \in DOMAIN q |-> r[i]]
    PROVE  IsSeqOf(r)
<1>1. Len(q) \in Nat /\ DOMAIN q = 1..Len(q)
  BY LenProperties DEF IsSeqOf
<1>2. r = [i \in 1..Len(q) |-> r[i]]
  BY <1>1
<1> QED BY <1>1, <1>2, ListSeq

LEMMA KeptAny ==
    ASSUME NEW q, IsSeqOf(q), NEW I \in SUBSET DOMAIN q
    PROVE  IsSeqOf(Kept(q, I)) /\ ToSet(Kept(q, I)) = {q[i] : i \in I}
<1>1. q \in Seq(ToSet(q))
  BY DEF IsSeqOf
<1>2. Kept(q, I) \in Seq(ToSet(q)) /\ ToSet(Kept(q, I)) = {q[i] : i \in I}
  BY <1>1, KeptTyped
<1> QED BY <1>2, SeqOfAny

LEMMA FlatAny ==
    ASSUME NEW q, IsSeqOf(q), \A i \in DOMAIN q : IsSeqOf(q[i])
    PROVE  /\ IsSeqOf(FlattenSeq(q))
           /\ \A i \in DOMAIN q : ToSet(q[i]) \subseteq ToSet(FlattenSeq(q))
           /\ \A x \in ToSet(FlattenSeq(q)) : \E i \in DOMAIN q : x \in ToSet(q[i])
<1> DEFINE X == UNION {ToSet(q[i]) : i \in DOMAIN q}
<1>1. Len(q) \in Nat /\ DOMAIN q = 1..Len(q) /\ q = [i \in 1..Len(q) |-> q[i]]
  <2>1. Len(q) \in Nat /\ DOMAIN q = 1..Len(q) /\ q \in [1..Len(q) -> ToSet(q)]
    BY LenProperties DEF IsSeqOf
  <2> QED BY <2>1
<1>2. \A i \in DOMAIN q : q[i] \in Seq(X)
  <2> TAKE i \in DOMAIN q
  <2>1. q[i] \in Seq(ToSet(q[i])) /\ ToSet(q[i]) \subseteq X
    BY DEF IsSeqOf
  <2> HIDE DEF X
  <2> QED BY <2>1, SeqMonotonic
<1> HIDE DEF X
<1>3. q \in Seq(Seq(X))
  <2>1. q \in [1..Len(q) -> Seq(X)]
    BY <1>1, <1>2
  <2> QED BY <1>1, <2>1, SeqDef
<1>4. /\ FlattenSeq(q) \in Seq(X)
      /\ \A i \in DOMAIN q : ToSet(q[i]) \subseteq ToSet(FlattenSeq(q))
      /\ \A x \in ToSet(FlattenSeq(q)) : \E i \in DOMAIN q : x \in ToSet(q[i])
  BY <1>3, Flattened
<1> QED BY <1>4, SeqOfAny

LEMMA JoinAny ==
    ASSUME NEW a, NEW b, IsSeqOf(a), IsSeqOf(b)
    PROVE  IsSeqOf(a \o b) /\ ToSet(a \o b) = ToSet(a) \cup ToSet(b)
<1> DEFINE X == ToSet(a) \cup ToSet(b)
<1>1. a \in Seq(X) /\ b \in Seq(X)
  <2>1. a \in Seq(ToSet(a)) /\ b \in Seq(ToSet(b))
    BY DEF IsSeqOf
  <2> QED BY <2>1, SeqMonotonic
<1>2. a \o b \in Seq(X) /\ ToSet(a \o b) = ToSet(a) \cup ToSet(b)
  <2> HIDE DEF X
  <2> QED BY <1>1, JoinedSet
<1> QED BY <1>2, SeqOfAny

LEMMA AppendAny ==
    ASSUME NEW q, IsSeqOf(q), NEW x
    PROVE  IsSeqOf(Append(q, x))
<1>1. q \in Seq(ToSet(q) \cup {x})
  <2>1. q \in Seq(ToSet(q)) /\ ToSet(q) \subseteq ToSet(q) \cup {x}
    BY DEF IsSeqOf
  <2> QED BY <2>1, SeqMonotonic
<1>2. x \in ToSet(q) \cup {x}
  OBVIOUS
<1>3. Append(q, x) \in Seq(ToSet(q) \cup {x})
  BY <1>1, <1>2, AppendProperties
<1> QED BY <1>3, SeqOfAny

-----------------------------------------------------------------------------
(* The union of what was reported.                                           *)

HasText(q) == IsSeqOf(q) /\ \A x \in ToSet(q) : "text" \in DOMAIN x

\* An element of q whose text is that of x stands in r.
Keeps(r, x) == \E k \in DOMAIN r : r[k].text = x.text

\* Uniting drops no text.
LEMMA UniteKeeps ==
    ASSUME NEW q, HasText(q)
    PROVE  HasText(Unite(q)) /\ \A x \in ToSet(q) : Keeps(Unite(q), x)
<1> DEFINE I == {i \in DOMAIN q : \A k \in 1..(i - 1) : q[k].text # q[i].text}
           once == Kept(q, I)
           SourcesOf(v) == LET same == Where(q, LAMBDA m : m.text = v)
                           IN Distinct(FlattenSeq([k \in DOMAIN same |-> same[k].sources]))
           r == Unite(q)
<1>1. r = [k \in DOMAIN once |-> [once[k] EXCEPT !.sources = SourcesOf(once[k].text)]]
  BY DEF Unite
<1>2. IsSeqOf(q) /\ Len(q) \in Nat /\ DOMAIN q = 1..Len(q) /\ \A i \in DOMAIN q : "text" \in DOMAIN q[i]
  <2>1. IsSeqOf(q) /\ Len(q) \in Nat /\ DOMAIN q = 1..Len(q) /\ \A i \in DOMAIN q : q[i] \in ToSet(q)
    BY SeqOfAny DEF HasText, IsSeqOf
  <2> QED BY <2>1 DEF HasText
<1>3. IsSeqOf(once) /\ ToSet(once) = {q[i] : i \in I}
  BY <1>2, KeptAny
<1>4. ASSUME NEW i \in DOMAIN q PROVE \E k \in I : q[k].text = q[i].text
  <2> DEFINE T == {k \in DOMAIN q : q[k].text = q[i].text}
  <2>1. PICK k \in T : \A l \in T : k <= l
    <3>1. T \in SUBSET Nat /\ T # {}
      BY <1>2
    <3> HIDE DEF T
    <3> QED BY <3>1, LeastExists
  <2>2. k \in DOMAIN q /\ q[k].text = q[i].text
    BY <2>1
  <2>3. ASSUME NEW l \in 1..(k - 1) PROVE q[l].text # q[k].text
    <3>1. l \in DOMAIN q /\ ~(k <= l)
      BY <1>2, <2>2
    <3>2. l \notin T
      <4> HIDE DEF T
      <4> QED BY <2>1, <3>1
    <3> QED BY <2>2, <3>1, <3>2
  <2> QED BY <2>2, <2>3
<1>5. \A i \in I : i \in DOMAIN q
  OBVIOUS
<1> HIDE DEF I, once, SourcesOf
<1>6. \A k \in DOMAIN once : once[k] \in {q[i] : i \in I}
  BY <1>3 DEF ToSet
<1>7. \A k \in DOMAIN once : "text" \in DOMAIN once[k]
  BY <1>2, <1>5, <1>6
<1>8. DOMAIN r = DOMAIN once
      /\ \A k \in DOMAIN once : "text" \in DOMAIN r[k] /\ r[k].text = once[k].text
  <2>1. DOMAIN r = DOMAIN once
        /\ \A k \in DOMAIN once : r[k] = [once[k] EXCEPT !.sources = SourcesOf(once[k].text)]
    BY <1>1
  <2> QED BY <1>7, <2>1
<1>9. IsSeqOf(r)
  <2>1. r = [k \in DOMAIN once |-> r[k]]
    BY <1>1
  <2> QED BY <1>3, <2>1, MappedSeq
<1>10. HasText(r)
  BY <1>8, <1>9 DEF HasText, ToSet
<1>11. ASSUME NEW x \in ToSet(q) PROVE Keeps(r, x)
  <2>1. PICK i \in DOMAIN q : x = q[i]
    BY DEF ToSet
  <2>2. PICK k \in I : q[k].text = q[i].text
    BY <1>4
  <2>3. q[k] \in ToSet(once)
    BY <1>3
  <2>4. PICK l \in DOMAIN once : once[l] = q[k]
    BY <2>3 DEF ToSet
  <2> QED BY <1>8, <2>1, <2>2, <2>4 DEF Keeps
<1> QED BY <1>10, <1>11 DEF r

LEMMA SourcedText ==
    ASSUME NEW d, NEW q, IsSeqOf(q)
    PROVE  /\ HasText(Sourced(d, q))
           /\ \A x \in ToSet(q) : \E y \in ToSet(Sourced(d, q)) : y.text = x.text
<1> DEFINE r == Sourced(d, q)
<1>1. r = [i \in DOMAIN q |-> [text |-> q[i].text, type |-> q[i].type, sources |-> <<d>>]]
  BY DEF Sourced
<1>2. IsSeqOf(r)
  <2>1. r = [i \in DOMAIN q |-> r[i]]
    BY <1>1
  <2> HIDE DEF r
  <2> QED BY <2>1, MappedSeq
<1>3. DOMAIN r = DOMAIN q /\ \A i \in DOMAIN q : "text" \in DOMAIN r[i] /\ r[i].text = q[i].text
  BY <1>1
<1> HIDE DEF r
<1>4. HasText(r)
  BY <1>2, <1>3 DEF HasText, ToSet
<1>5. ASSUME NEW x \in ToSet(q) PROVE \E y \in ToSet(r) : y.text = x.text
  <2>1. PICK i \in DOMAIN q : x = q[i]
    BY DEF ToSet
  <2> QED BY <1>3, <2>1 DEF ToSet
<1> QED BY <1>4, <1>5 DEF r

\* The matches of one text: all of it but what is empty.
LEMMA DedupKeeps ==
    ASSUME NEW ds, IsSeqOf(ds), NEW of, \A d \in ToSet(ds) : IsSeqOf(of[d])
    PROVE  /\ HasText(DedupWithSources(ds, of))
           /\ \A d \in ToSet(ds) : \A x \in ToSet(of[d]) :
                x.text # <<>> => Keeps(DedupWithSources(ds, of), x)
<1> DEFINE parts == [k \in DOMAIN ds |-> Sourced(ds[k], of[ds[k]])]
           all == FlattenSeq(parts)
           I == {i \in DOMAIN all : all[i].text # <<>>}
           some == Kept(all, I)
<1>1. DedupWithSources(ds, of) = Unite(some)
  BY DEF DedupWithSources, Where
<1>2. DOMAIN parts = DOMAIN ds /\ \A k \in DOMAIN ds : parts[k] = Sourced(ds[k], of[ds[k]]) /\ ds[k] \in ToSet(ds)
  BY DEF ToSet
<1>3. IsSeqOf(parts) /\ \A k \in DOMAIN parts : HasText(parts[k])
  <2>1. parts = [k \in DOMAIN ds |-> parts[k]]
    OBVIOUS
  <2> HIDE DEF parts
  <2>2. IsSeqOf(parts)
    BY <2>1, MappedSeq
  <2>3. \A k \in DOMAIN parts : HasText(parts[k])
    BY <1>2, SourcedText
  <2> QED BY <2>2, <2>3
<1> HIDE DEF parts
<1>4. /\ IsSeqOf(all)
      /\ \A k \in DOMAIN parts : ToSet(parts[k]) \subseteq ToSet(all)
      /\ \A x \in ToSet(all) : \E k \in DOMAIN parts : x \in ToSet(parts[k])
  BY <1>3, FlatAny DEF HasText
<1>5. \A x \in ToSet(all) : "text" \in DOMAIN x
  BY <1>3, <1>4 DEF HasText
<1> HIDE DEF all
<1>6. IsSeqOf(some) /\ ToSet(some) = {all[i] : i \in I}
  BY <1>4, KeptAny
<1>7. ToSet(some) = {x \in ToSet(all) : x.text # <<>>}
  BY <1>6 DEF ToSet
<1>8. HasText(some)
  BY <1>5, <1>6, <1>7 DEF HasText
<1> HIDE DEF some
<1>9. HasText(Unite(some)) /\ \A x \in ToSet(some) : Keeps(Unite(some), x)
  BY <1>8, UniteKeeps
<1>10. ASSUME NEW d \in ToSet(ds), NEW x \in ToSet(of[d]), x.text # <<>>
       PROVE  Keeps(Unite(some), x)
  <2>1. PICK k \in DOMAIN ds : ds[k] = d
    BY DEF ToSet
  <2>2. PICK y \in ToSet(Sourced(d, of[d])) : y.text = x.text
    BY SourcedText
  <2>3. y \in ToSet(all)
    BY <1>2, <1>4, <2>1, <2>2
  <2>4. y \in ToSet(some)
    BY <1>7, <1>10, <2>2, <2>3
  <2>5. Keeps(Unite(some), y)
    BY <1>9, <2>4
  <2> QED BY <2>2, <2>5 DEF Keeps
<1> QED BY <1>1, <1>9, <1>10

LEMMA DispatchSeqs ==
    ASSUME NEW w, ReadyWorld(w), NEW o, Overridden(w, o)
    PROVE  IsSeqOf(PerText(w, o)) /\ IsSeqOf(MergedMode(w, o)) /\ IsSeqOf(w.texts)
<1> DEFINE active == ActiveDetectors(w, o)
           A == {i \in DOMAIN active : active[i] \notin w.merged}
           B == {i \in DOMAIN active : active[i] \in Demoted(w, o)}
           C == {i \in DOMAIN active : active[i] \in w.merged \ Demoted(w, o)}
<1>1. IsSeqOf(active)
  <2>1. active \in Seq(ToSet(w.configured))
    BY ActiveTyped
  <2> HIDE DEF active
  <2> QED BY <2>1, SeqOfAny
<1>2. PerText(w, o) = Kept(active, A) \o Kept(active, B) /\ MergedMode(w, o) = Kept(active, C)
  BY DEF PerText, MergedMode, Where
<1>3. A \in SUBSET DOMAIN active /\ B \in SUBSET DOMAIN active /\ C \in SUBSET DOMAIN active
  OBVIOUS
<1> HIDE DEF active, A, B, C
<1>4. IsSeqOf(Kept(active, A)) /\ IsSeqOf(Kept(active, B)) /\ IsSeqOf(Kept(active, C))
  BY <1>1, <1>3, KeptAny
<1>5. IsSeqOf(w.texts)
  <2>1. w.texts \in Seq(Seq(Char))
    BY DEF ReadyWorld
  <2> QED BY <2>1, SeqOfAny
<1> QED BY <1>2, <1>4, <1>5, JoinAny

\* What any call reports is anonymized, but for what is empty or runs across a
\* segment break.
LEMMA UnionKeeps ==
    ASSUME NEW w, ReadyWorld(w), NEW o, Overridden(w, o),
           \A j \in Jobs(w, o) : IsSeqOf(job[j].matches),
           NEW j \in Jobs(w, o), NEW x \in ToSet(job[j].matches),
           x.text # <<>>, SEP \notin ToSet(x.text)
    PROVE  Keeps(Union(w, o), x)
<1> DEFINE ds == PerText(w, o)
           ms == MergedMode(w, o)
           Of(i) == [d \in ToSet(ds) |-> job[<<d, i>>].matches]
           per == [i \in DOMAIN w.texts |-> DedupWithSources(ds, Of(i))]
           Inside(k) == WithinSegment(job[<<ms[k], BLOB>>].matches)
           more == [k \in DOMAIN ms |-> Sourced(ms[k], Inside(k))]
           all == FlattenSeq(per \o more)
<1>1. Union(w, o) = Unite(all)
  BY DEF Union
<1>2. IsSeqOf(ds) /\ IsSeqOf(ms) /\ IsSeqOf(w.texts)
  BY DispatchSeqs
<1>3. ASSUME NEW i \in DOMAIN w.texts
      PROVE  /\ HasText(per[i])
             /\ \A d \in ToSet(ds) : \A y \in ToSet(job[<<d, i>>].matches) :
                  y.text # <<>> => Keeps(per[i], y)
  <2> DEFINE of == Of(i)
  <2>1. \A d \in ToSet(ds) : <<d, i>> \in Jobs(w, o)
    BY DEF Jobs
  <2>2. \A d \in ToSet(ds) : of[d] = job[<<d, i>>].matches
    OBVIOUS
  <2>3. \A d \in ToSet(ds) : IsSeqOf(of[d])
    <3> HIDE DEF of, ds
    <3> QED BY <2>1, <2>2
  <2>4. per[i] = DedupWithSources(ds, of)
    OBVIOUS
  <2> HIDE DEF of, ds, per
  <2> QED BY <1>2, <2>2, <2>3, <2>4, DedupKeeps
<1>4. ASSUME NEW k \in DOMAIN ms
      PROVE  /\ HasText(more[k])
             /\ \A y \in ToSet(job[<<ms[k], BLOB>>].matches) :
                  SEP \notin ToSet(y.text) => \E z \in ToSet(more[k]) : z.text = y.text
  <2> DEFINE q == job[<<ms[k], BLOB>>].matches
             I == {i \in DOMAIN q : SEP \notin ToSet(q[i].text)}
  <2>1. IsSeqOf(q)
    <3>1. <<ms[k], BLOB>> \in Jobs(w, o)
      BY DEF Jobs, ToSet
    <3> QED BY <3>1
  <2>2. Inside(k) = Kept(q, I)
    BY DEF WithinSegment, Where
  <2>3. more[k] = Sourced(ms[k], Inside(k))
    OBVIOUS
  <2>4. I \in SUBSET DOMAIN q
    OBVIOUS
  <2>5. IsSeqOf(Inside(k)) /\ ToSet(Inside(k)) = {q[i] : i \in I}
    <3> HIDE DEF q, I, Inside
    <3> QED BY <2>1, <2>2, <2>4, KeptAny
  <2>6. \A y \in ToSet(q) : SEP \notin ToSet(y.text) => y \in ToSet(Inside(k))
    BY <2>5 DEF ToSet
  <2> HIDE DEF q, I, Inside, more, ms
  <2> QED BY <2>3, <2>5, <2>6, SourcedText DEF q
<1>5. IsSeqOf(per) /\ IsSeqOf(more)
  <2>1. per = [i \in DOMAIN w.texts |-> per[i]] /\ more = [k \in DOMAIN ms |-> more[k]]
    OBVIOUS
  <2> HIDE DEF per, more, ms
  <2> QED BY <1>2, <2>1, MappedSeq
<1>6. DOMAIN per = DOMAIN w.texts /\ DOMAIN more = DOMAIN ms
  OBVIOUS
<1> HIDE DEF per, more, Of, Inside, ds, ms
<1>7. IsSeqOf(per \o more) /\ ToSet(per \o more) = ToSet(per) \cup ToSet(more)
  BY <1>5, JoinAny
<1>8. \A p \in ToSet(per \o more) : HasText(p)
  <2>1. \A p \in ToSet(per) : HasText(p)
    BY <1>3, <1>6 DEF ToSet
  <2>2. \A p \in ToSet(more) : HasText(p)
    BY <1>4, <1>6 DEF ToSet
  <2> QED BY <1>7, <2>1, <2>2
<1>9. /\ IsSeqOf(all)
      /\ \A p \in ToSet(per \o more) : ToSet(p) \subseteq ToSet(all)
      /\ \A y \in ToSet(all) : \E p \in ToSet(per \o more) : y \in ToSet(p)
  <2> DEFINE q == per \o more
  <2>1. \A i \in DOMAIN q : q[i] \in ToSet(q)
    BY DEF ToSet
  <2> HIDE DEF q
  <2>2. \A i \in DOMAIN q : IsSeqOf(q[i])
    BY <1>8, <2>1 DEF HasText, q
  <2>3. /\ IsSeqOf(FlattenSeq(q))
        /\ \A i \in DOMAIN q : ToSet(q[i]) \subseteq ToSet(FlattenSeq(q))
        /\ \A y \in ToSet(FlattenSeq(q)) : \E i \in DOMAIN q : y \in ToSet(q[i])
    BY <1>7, <2>2, FlatAny DEF q
  <2>4. \A p \in ToSet(q) : ToSet(p) \subseteq ToSet(FlattenSeq(q))
    BY <2>3 DEF ToSet
  <2> QED BY <2>1, <2>3, <2>4 DEF q
<1>10. HasText(all)
  BY <1>8, <1>9 DEF HasText
<1> HIDE DEF all
<1>11. \A y \in ToSet(all) : Keeps(Unite(all), y)
  BY <1>10, UniteKeeps
<1>12. SUFFICES \E y \in ToSet(all) : y.text = x.text
  BY <1>1, <1>11 DEF Keeps
<1>13. CASE j \in ToSet(PerText(w, o)) \X DOMAIN w.texts
  <2>1. PICK d \in ToSet(ds), i \in DOMAIN w.texts : j = <<d, i>>
    BY <1>13 DEF ds
  <2>2. Keeps(per[i], x)
    BY <1>3, <2>1
  <2>3. PICK k \in DOMAIN per[i] : per[i][k].text = x.text
    BY <2>2 DEF Keeps
  <2>4. per[i][k] \in ToSet(per[i]) /\ per[i] \in ToSet(per)
    BY <1>6, <2>3 DEF ToSet
  <2> QED BY <1>7, <1>9, <2>3, <2>4
<1>14. CASE j \in ToSet(MergedMode(w, o)) \X {BLOB}
  <2>1. PICK d \in ToSet(ms) : j = <<d, BLOB>>
    BY <1>14 DEF ms
  <2>2. PICK k \in DOMAIN ms : ms[k] = d
    BY DEF ToSet
  <2>3. PICK z \in ToSet(more[k]) : z.text = x.text
    BY <1>4, <2>1, <2>2
  <2>4. more[k] \in ToSet(more)
    BY <1>6, <2>2 DEF ToSet
  <2> QED BY <1>7, <1>9, <2>3, <2>4
<1> QED BY <1>13, <1>14 DEF Jobs

-----------------------------------------------------------------------------
(* What a service reports, and what is made of it.                           *)

LEMMA StripSeq ==
    ASSUME NEW v, IsSeqOf(v)
    PROVE  IsSeqOf(Strip(v))
<1> DEFINE kept == {i \in DOMAIN v : v[i] \notin Blank}
<1>1. Len(v) \in Nat /\ DOMAIN v = 1..Len(v) /\ \A i \in DOMAIN v : v[i] \in ToSet(v)
  BY SeqOfAny DEF IsSeqOf
<1>2. CASE kept = {}
  <2>1. Strip(v) = <<>>
    BY <1>2 DEF Strip
  <2>2. <<>> \in Seq({})
    OBVIOUS
  <2> QED BY <2>1, <2>2, SeqOfAny
<1>3. CASE kept # {}
  <2>1. kept \in SUBSET (0..Len(v)) /\ kept \in SUBSET Nat /\ kept \in SUBSET DOMAIN v
    BY <1>1
  <2>2. Strip(v) = SubSeq(v, Min(kept), Max(kept))
    BY <1>3 DEF Strip
  <2> HIDE DEF kept
  <2>3. Min(kept) \in DOMAIN v /\ Max(kept) \in DOMAIN v
    BY <1>1, <1>3, <2>1, MinIn, MaxIn
  <2> DEFINE a == Min(kept)
             b == Max(kept)
  <2>4. a \in Int /\ b \in Int /\ \A i \in a..b : v[i] \in ToSet(v)
    BY <1>1, <2>3
  <2> HIDE DEF a, b
  <2>5. SubSeq(v, a, b) \in Seq(ToSet(v))
    BY <2>4, SubSeqProperties
  <2> QED BY <2>2, <2>5, SeqOfAny DEF a, b
<1> QED BY <1>2, <1>3

\* A value that is not all punctuation is let go of at most punctuation at its end.
LEMMA MatchStands ==
    ASSUME NEW v, IsSeqOf(v), ToSet(v) \ Punctuation # {}, NEW type
    PROVE  /\ Match(v, type).text # <<>>
           /\ ToSet(Match(v, type).text) \subseteq ToSet(v)
           /\ StandsFor(Match(v, type).text, v)
<1> DEFINE kept == {i \in DOMAIN v : v[i] \notin Punctuation}
           n == Max(kept)
           r == RStrip(v, Punctuation)
<1>1. /\ Len(v) \in Nat /\ DOMAIN v = 1..Len(v) /\ v \in Seq(ToSet(v))
      /\ \A i \in DOMAIN v : v[i] \in ToSet(v)
  BY SeqOfAny DEF IsSeqOf
<1>2. kept # {} /\ kept \in SUBSET (0..Len(v)) /\ \A i \in kept : i \in DOMAIN v
  <2>1. PICK i \in DOMAIN v : v[i] \notin Punctuation
    BY DEF ToSet
  <2>2. \A k \in kept : k \in DOMAIN v /\ k \in 0..Len(v)
    BY <1>1
  <2>3. i \in kept
    BY <2>1
  <2> HIDE DEF kept
  <2> QED BY <2>2, <2>3
<1>3. r = SubSeq(v, 1, n)
  BY <1>2 DEF RStrip
<1>4. n \in kept /\ \A k \in kept : k <= n
  <2> HIDE DEF kept
  <2> QED BY <1>1, <1>2, MaxIn
<1>5. n \in 1..Len(v) /\ \A i \in (n + 1)..Len(v) : v[i] \in Punctuation
  <2>1. n \in 1..Len(v)
    BY <1>1, <1>2, <1>4
  <2>2. ASSUME NEW i \in (n + 1)..Len(v) PROVE v[i] \in Punctuation
    <3>1. i \in DOMAIN v /\ ~(i <= n)
      BY <1>1, <2>1
    <3>2. i \notin kept
      <4> HIDE DEF kept, n
      <4> QED BY <1>4, <3>1
    <3> QED BY <3>1, <3>2
  <2> QED BY <2>1, <2>2
<1> HIDE DEF n
\* A beginning of v after which there is only punctuation.
<1>6. ASSUME NEW m \in 1..Len(v), \A i \in (m + 1)..Len(v) : v[i] \in Punctuation,
             NEW u, u = SubSeq(v, 1, m)
      PROVE  u # <<>> /\ ToSet(u) \subseteq ToSet(v) /\ StandsFor(u, v)
  <2>1. m \in Int /\ 1 \in Int /\ Len(v) \in Int /\ \A i \in 1..m : v[i] \in ToSet(v)
    BY <1>1
  <2>2. u \in Seq(ToSet(v)) /\ Len(u) = m /\ \A i \in 1..m : u[i] = v[i]
    <3>1. /\ SubSeq(v, 1, m) \in Seq(ToSet(v)) /\ Len(SubSeq(v, 1, m)) = m
          /\ \A i \in 1..(m - 1 + 1) : SubSeq(v, 1, m)[i] = v[1 + i - 1]
      BY <2>1, SubSeqProperties
    <3>2. m - 1 + 1 = m /\ \A i \in 1..m : 1 + i - 1 = i
      BY <2>1
    <3> QED BY <1>6, <3>1, <3>2
  <2>3. u # <<>> /\ ToSet(u) \subseteq ToSet(v)
    <3>1. Len(u) # 0
      BY <2>2
    <3>2. u # <<>>
      BY <3>1, EmptySeq
    <3>3. ToSet(u) \subseteq ToSet(v)
      BY <2>2, SeqOfAny
    <3> QED BY <3>2, <3>3
  <2>4. IsPrefix(u, v)
    <3>1. SubSeq(u, 1, m) = u
      <4>1. SubSeq(u, 1, Len(u)) = u
        BY <2>2, SubSeqFull
      <4> QED BY <2>2, <4>1
    <3>2. Len(u) <= Len(v) /\ SubSeq(u, 1, Len(u)) = SubSeq(v, 1, Len(u))
      BY <1>1, <1>6, <2>2, <3>1
    <3> QED BY <3>2 DEF IsPrefix
  <2>5. ToSet(SubSeq(v, Len(u) + 1, Len(v))) \subseteq Punctuation
    <3> DEFINE a == m + 1
               b == Len(v)
               s == SubSeq(v, a, b)
    <3>1. a \in Int /\ b \in Int /\ \A i \in a..b : v[i] \in Punctuation
      BY <1>1, <1>6, <2>1
    <3> HIDE DEF a, b
    <3>2. s \in Seq(Punctuation)
      BY <3>1, SubSeqProperties
    <3> HIDE DEF s
    <3>3. ToSet(s) \subseteq Punctuation
      BY <3>2, SeqOfAny
    <3> QED BY <2>2, <3>3 DEF a, b, s
  <2> QED BY <2>3, <2>4, <2>5 DEF StandsFor
<1>7. r # <<>> /\ ToSet(r) \subseteq ToSet(v) /\ StandsFor(r, v)
  BY <1>3, <1>5, <1>6
<1>8. v # <<>> /\ ToSet(v) \subseteq ToSet(v) /\ StandsFor(v, v)
  <2>1. Len(v) \in 1..Len(v) /\ \A i \in (Len(v) + 1)..Len(v) : v[i] \in Punctuation
    BY <1>1, <1>5
  <2>2. v = SubSeq(v, 1, Len(v))
    BY <1>1, SubSeqFull
  <2> QED BY <1>6, <2>1, <2>2
<1>9. Match(v, type).text \in {v, r}
  BY DEF Match
<1> QED BY <1>7, <1>8, <1>9

Services == {"llm", "gliner_pii"}

LEMMA ObjectsOf ==
    ASSUME NEW q, IsSeqOf(q)
    PROVE  IsSeqOf(Objects(q)) /\ ToSet(Objects(q)) \subseteq ToSet(q)
<1> DEFINE I == {i \in DOMAIN q : Tag(q[i]) = "obj"}
<1>1. Objects(q) = Kept(q, I)
  BY DEF Objects, Where
<1>2. I \in SUBSET DOMAIN q
  OBVIOUS
<1>3. IsSeqOf(Kept(q, I)) /\ ToSet(Kept(q, I)) = {q[i] : i \in I}
  <2> HIDE DEF I
  <2> QED BY <1>2, KeptAny
<1> QED BY <1>1, <1>3 DEF ToSet

\* What _parse_entities and _parse_matches have in common: each entry that
\* occurs in the text becomes a match.
LEMMA ReportedTyped ==
    ASSUME NEW x, IsList(x), IsEntries(x), NEW t
    PROVE  /\ IsSeqOf(Reported(Val(x), t))
           /\ \A y \in ToSet(Objects(Val(x))) :
                EntryText(y) # <<>> /\ Occurs(EntryText(y), t) => y \in ToSet(Reported(Val(x), t))
           /\ \A y \in ToSet(Objects(Val(x))) : IsSeqOf(EntryText(y))
<1> DEFINE q == Objects(Val(x))
           I == {i \in DOMAIN q : EntryText(q[i]) # <<>> /\ Occurs(EntryText(q[i]), t)}
<1>1. IsSeqOf(q)
  BY ObjectsOf DEF IsEntries
<1>2. Reported(Val(x), t) = Kept(q, I) /\ I \in SUBSET DOMAIN q
  BY DEF Reported, Where
<1>3. IsSeqOf(Kept(q, I)) /\ ToSet(Kept(q, I)) = {q[i] : i \in I}
  <2> HIDE DEF q, I
  <2> QED BY <1>1, <1>2, KeptAny
<1>4. \A y \in ToSet(q) : EntryText(y) # <<>> /\ Occurs(EntryText(y), t) => y \in ToSet(Kept(q, I))
  BY <1>3 DEF ToSet
<1>5. ASSUME NEW y \in ToSet(q) PROVE IsSeqOf(EntryText(y))
  <2> DEFINE text == Get(y, "text", Str(<<>>))
  <2>1. Tag(text) = "str" => IsSeqOf(Val(text))
    BY <1>5 DEF IsEntries
  <2> HIDE DEF text
  <2>2. IsSeqOf(StrOf(text))
    <3>1. <<"None">> \in Seq({"None"}) /\ <<"repr">> \in Seq({"repr"})
      OBVIOUS
    <3>2. IsSeqOf(<<"None">>) /\ IsSeqOf(<<"repr">>)
      BY <3>1, SeqOfAny
    <3>3. StrOf(text) = IF Tag(text) = "str" THEN Val(text)
                        ELSE IF Tag(text) = "null" THEN <<"None">> ELSE <<"repr">>
      BY DEF StrOf
    <3> QED BY <2>1, <3>2, <3>3
  <2> QED BY <2>2, StripSeq DEF EntryText, text
<1> QED BY <1>2, <1>3, <1>4, <1>5

\* The matches made of the entries x, with whatever types.
Parsed(x, t, ms) ==
    /\ IsSeqOf(ms)
    /\ \A y \in ToSet(Objects(Val(x))) :
         /\ IsSeqOf(EntryText(y))
         /\ EntryText(y) # <<>> /\ Occurs(EntryText(y), t) =>
              \E i \in DOMAIN ms : \E type : ms[i] = Match(EntryText(y), type)

LEMMA EntriesParsed ==
    ASSUME NEW x, IsList(x), IsEntries(x), NEW t, NEW T, NEW ms,
           ms = [i \in DOMAIN Reported(Val(x), t) |-> Match(EntryText(Reported(Val(x), t)[i]), T[i])]
    PROVE  Parsed(x, t, ms)
<1> DEFINE q == Reported(Val(x), t)
<1>1. /\ IsSeqOf(q)
      /\ \A y \in ToSet(Objects(Val(x))) :
           EntryText(y) # <<>> /\ Occurs(EntryText(y), t) => y \in ToSet(q)
      /\ \A y \in ToSet(Objects(Val(x))) : IsSeqOf(EntryText(y))
  BY ReportedTyped
<1>2. ms = [i \in DOMAIN q |-> Match(EntryText(q[i]), T[i])]
  OBVIOUS
<1> HIDE DEF q
<1>3. ms = [i \in DOMAIN q |-> ms[i]] /\ DOMAIN ms = DOMAIN q
  BY <1>2
<1>4. IsSeqOf(ms)
  BY <1>1, <1>3, MappedSeq
<1>5. ASSUME NEW y \in ToSet(q) PROVE \E i \in DOMAIN ms : \E type : ms[i] = Match(EntryText(y), type)
  <2>1. PICK i \in DOMAIN q : y = q[i]
    BY DEF ToSet
  <2>2. ms[i] = Match(EntryText(y), T[i])
    BY <1>2, <2>1
  <2> QED BY <1>3, <2>2
<1> QED BY <1>1, <1>4, <1>5 DEF Parsed

LEMMA GlinerParsed ==
    ASSUME NEW body, NEW t, \A x \in EntriesOf("gliner_pii", body) : IsEntries(x)
    PROVE  LET outcome == ReadGliner(body, t)
           IN /\ (\E x \in EntriesOf("gliner_pii", body) : IsList(x)) <=> outcome.how = "found"
              /\ outcome.how = "found" =>
                   \A x \in EntriesOf("gliner_pii", body) : Parsed(x, t, outcome.matches)
<1> DEFINE x == Field(body, "matches")
           q == Reported(Val(x), t)
           T == [i \in DOMAIN q |-> GlinerType(q[i])]
           ms == [i \in DOMAIN q |-> Match(EntryText(q[i]), GlinerType(q[i]))]
<1>1. EntriesOf("gliner_pii", body) = IF Tag(body) # "obj" THEN {} ELSE {x}
  BY DEF EntriesOf
<1>2. ReadGliner(body, t) = IF Tag(body) # "obj" \/ ~IsList(x) THEN Unavailable ELSE FoundAll(ms)
  BY DEF ReadGliner
<1>3. ASSUME IsList(x), IsEntries(x) PROVE Parsed(x, t, ms)
  <2>1. ms = [i \in DOMAIN q |-> Match(EntryText(q[i]), T[i])]
    OBVIOUS
  <2> HIDE DEF ms, T, x
  <2> QED BY <1>3, <2>1, EntriesParsed
<1> HIDE DEF x, ms
<1>4. Unavailable.how # "found" /\ FoundAll(ms).how = "found" /\ FoundAll(ms).matches = ms
  BY DEF Unavailable, FoundAll
<1> QED BY <1>1, <1>2, <1>3, <1>4

LEMMA LlmParsed ==
    ASSUME NEW body, NEW t, \A x \in EntriesOf("llm", body) : IsEntries(x)
    PROVE  LET outcome == ReadLlm(body, t)
           IN /\ (\E x \in EntriesOf("llm", body) : IsList(x)) <=> outcome.how = "found"
              /\ outcome.how = "found" =>
                   \A x \in EntriesOf("llm", body) : Parsed(x, t, outcome.matches)
<1> DEFINE content == ContentOf(body)
           data == Bare(Val(content))
           x == Field(data, "entities")
           q == Reported(Val(x), t)
           T == [i \in DOMAIN q |-> LlmType(q[i])]
           ms == [i \in DOMAIN q |-> Match(EntryText(q[i]), LlmType(q[i]))]
           read == HasContent(body) /\ Tag(content) = "str" /\ Tag(data) = "obj"
<1>1. EntriesOf("llm", body) = IF read THEN {x} ELSE {}
  <2>1. HasContent(body) => Tag(body) = "obj"
    BY DEF HasContent, HasKey
  <2>2. {ContentOf(b) : b \in {b \in {body} : HasContent(b)}} = IF HasContent(body) THEN {content} ELSE {}
    OBVIOUS
  <2> DEFINE E == {Field(Bare(Val(c)), "entities") :
                     c \in {y \in {ContentOf(b) : b \in {b \in {body} : HasContent(b)}} :
                              Tag(y) = "str" /\ Tag(Bare(Val(y))) = "obj"}}
  <2>3. EntriesOf("llm", body) = IF Tag(body) # "obj" THEN {} ELSE E
    BY DEF EntriesOf
  <2>4. E = IF read THEN {x} ELSE {}
    <3>1. E = {Field(Bare(Val(c)), "entities") :
                 c \in {y \in IF HasContent(body) THEN {content} ELSE {} :
                          Tag(y) = "str" /\ Tag(Bare(Val(y))) = "obj"}}
      BY <2>2
    <3>2. CASE read
      <4>1. {y \in IF HasContent(body) THEN {content} ELSE {} : Tag(y) = "str" /\ Tag(Bare(Val(y))) = "obj"}
              = {content}
        BY <3>2
      <4> QED BY <3>1, <3>2, <4>1
    <3>3. CASE ~read
      <4>1. {y \in IF HasContent(body) THEN {content} ELSE {} : Tag(y) = "str" /\ Tag(Bare(Val(y))) = "obj"}
              = {}
        BY <3>3
      <4> QED BY <3>1, <3>3, <4>1
    <3> QED BY <3>2, <3>3
  <2> HIDE DEF E
  <2> QED BY <2>1, <2>3, <2>4
<1>2. ExtractObject(Val(content)) = data \/ (Tag(ExtractObject(Val(content))) # "obj" /\ Tag(data) # "obj")
  <2> DEFINE y == Val(content)
  <2> HIDE DEF y
  <2>1. Len(<<>>) = 0 /\ Tag(NotJson) = "garbage"
    BY EmptySeq DEF Tag, NotJson
  <2>2. CASE ~IsList(y) \/ Len(Objects(Val(y))) = 1
    BY <2>1, <2>2 DEF ExtractObject, Bare, y
  <2>3. CASE IsList(y) /\ Len(Objects(Val(y))) # 1
    <3>1. Bare(y) = y /\ Tag(y) = "list"
      BY <2>3 DEF Bare, IsList
    <3>2. ExtractObject(y) \in {y, NotJson}
      BY <2>3 DEF ExtractObject
    <3> QED BY <2>1, <3>1, <3>2 DEF y
  <2> QED BY <2>2, <2>3
<1>3. ReadLlm(body, t) = IF read /\ IsList(x) THEN FoundAll(ms)
                         ELSE IF HasContent(body) /\ Tag(content) \notin {"null", "str"} THEN Crash ELSE Unavailable
  <2> DEFINE full == ExtractObject(Val(content))
             parsed == ParseEntities(Val(content), t)
  <2>1. parsed = IF Tag(data) # "obj" \/ ~IsList(x) THEN Unavailable ELSE FoundAll(ms)
    <3>1. CASE full = data
      <4>1. parsed = IF Tag(full) # "obj" \/ ~IsList(Field(full, "entities")) THEN Unavailable
                     ELSE FoundAll([i \in DOMAIN Reported(Val(Field(full, "entities")), t) |->
                             Match(EntryText(Reported(Val(Field(full, "entities")), t)[i]),
                                   LlmType(Reported(Val(Field(full, "entities")), t)[i]))])
        BY DEF ParseEntities
      <4> HIDE DEF full, parsed, data
      <4> QED BY <3>1, <4>1
    <3>2. CASE Tag(full) # "obj" /\ Tag(data) # "obj"
      <4>1. parsed = Unavailable
        BY <3>2 DEF ParseEntities
      <4> HIDE DEF data
      <4> QED BY <3>2, <4>1
    <3> QED BY <1>2, <3>1, <3>2
  <2>2. ReadLlm(body, t) = IF ~HasContent(body) THEN Unavailable
                           ELSE IF Tag(content) = "null" THEN Unavailable
                           ELSE IF Tag(content) = "str" THEN parsed ELSE Crash
    BY DEF ReadLlm
  <2> HIDE DEF parsed, ms, x, data, content
  <2> QED BY <2>1, <2>2
<1>4. ASSUME IsList(x), IsEntries(x) PROVE Parsed(x, t, ms)
  <2>1. ms = [i \in DOMAIN q |-> Match(EntryText(q[i]), T[i])]
    OBVIOUS
  <2> HIDE DEF ms, T, x
  <2> QED BY <1>4, <2>1, EntriesParsed
<1> HIDE DEF x, ms, data, content, read
<1>5. /\ Unavailable.how # "found" /\ Crash.how # "found"
      /\ FoundAll(ms).how = "found" /\ FoundAll(ms).matches = ms
  BY DEF Unavailable, FoundAll, Crash
<1> QED BY <1>1, <1>3, <1>4, <1>5

\* A service answered exactly when the call found something to make matches of.
LEMMA ServiceOutcome ==
    ASSUME NEW d \in Services, NEW reply, NEW t, ReadyReply(d, reply)
    PROVE  /\ Answered(d, reply) <=> Outcome(d, reply, t).how = "found"
           /\ Outcome(d, reply, t).how = "found" =>
                /\ reply.kind = "json"
                /\ \A x \in EntriesOf(d, reply.body) : Parsed(x, t, Outcome(d, reply, t).matches)
                /\ IsSeqOf(Outcome(d, reply, t).matches)
<1>1. CASE reply.kind # "json"
  BY <1>1 DEF Answered, Outcome, Unavailable
<1>2. CASE reply.kind = "json"
  <2> DEFINE body == reply.body
             r == IF d = "llm" THEN ReadLlm(body, t) ELSE ReadGliner(body, t)
  <2>1. Outcome(d, reply, t) = r
    BY <1>2 DEF Outcome, Services
  <2>2. Answered(d, reply) <=> \E x \in EntriesOf(d, body) : IsList(x)
    BY <1>2 DEF Answered
  <2>3. /\ (\E x \in EntriesOf(d, body) : IsList(x)) <=> r.how = "found"
        /\ r.how = "found" => \A x \in EntriesOf(d, body) : Parsed(x, t, r.matches)
    <3>1. \A x \in EntriesOf(d, body) : IsEntries(x)
      BY <1>2 DEF ReadyReply
    <3>2. CASE d = "llm"
      BY <3>1, <3>2, LlmParsed
    <3>3. CASE d = "gliner_pii"
      BY <3>1, <3>3, GlinerParsed
    <3> QED BY <3>2, <3>3 DEF Services
  <2> HIDE DEF r, body
  <2>4. r.how = "found" => IsSeqOf(r.matches)
    BY <2>3 DEF Parsed
  <2> QED BY <1>2, <2>1, <2>2, <2>3, <2>4 DEF body
<1> QED BY <1>1, <1>2

-----------------------------------------------------------------------------
(* Folds over a sequence.                                                    *)

FoldStep(base, G, f, s) == IF s = {} THEN base ELSE G[<<Max(s), f[s \ {Max(s)}]>>]
FoldTo(n, base, G, f) == f = [s \in SUBSET (1..n) |-> FoldStep(base, G, f, s)]

\* A fold is defined: what it makes of the first places is made from the left.
LEMMA FoldExists ==
    ASSUME NEW n \in Nat, NEW Acc, NEW base \in Acc, NEW G \in [(1..n) \X Acc -> Acc]
    PROVE  \E f \in [SUBSET (1..n) -> Acc] : FoldTo(n, base, G, f)
<1> DEFINE Good(m) == \E f \in [SUBSET (1..m) -> Acc] : FoldTo(m, base, G, f)
           Bad == {m \in 0..n : ~Good(m)}
<1>1. SUFFICES Bad = {}
  <2>1. n \in 0..n
    OBVIOUS
  <2> QED BY <2>1
<1>2. SUFFICES ASSUME Bad # {} PROVE FALSE
  OBVIOUS
<1>3. PICK m \in Bad : \A k \in Bad : m <= k
  <2>1. Bad \in SUBSET Nat
    OBVIOUS
  <2> HIDE DEF Bad
  <2> QED BY <1>2, <2>1, LeastExists
<1>4. m \in 0..n /\ ~Good(m)
  BY <1>3
<1>5. CASE m = 0
  <2> DEFINE f == [s \in SUBSET (1..0) |-> base]
  <2>1. \A s \in SUBSET (1..0) : s = {}
    OBVIOUS
  <2>2. f \in [SUBSET (1..0) -> Acc]
    OBVIOUS
  <2>3. FoldTo(0, base, G, f)
    BY <2>1 DEF FoldTo, FoldStep
  <2> QED BY <1>4, <1>5, <2>2, <2>3
<1>6. CASE m # 0
  <2>1. m - 1 \in 0..n /\ ~(m <= m - 1) /\ m \in 1..n /\ m \in Nat
    BY <1>4, <1>6
  <2>2. PICK f \in [SUBSET (1..(m - 1)) -> Acc] : FoldTo(m - 1, base, G, f)
    <3>1. m - 1 \notin Bad
      <4> HIDE DEF Bad
      <4> QED BY <1>3, <2>1
    <3>2. Good(m - 1)
      BY <2>1, <3>1
    <3> QED BY <3>2
  <2> DEFINE S == SUBSET (1..m)
             R == SUBSET (1..(m - 1))
             g == [s \in S |-> IF m \in s THEN G[<<m, f[s \ {m}]>>] ELSE f[s]]
  <2>3. \A s \in S : s \ {m} \in R
    BY <2>1
  <2>4. \A s \in S : m \notin s => s \in R /\ g[s] = f[s]
    <3>1. \A s \in S : m \notin s => s \in R
      BY <2>1
    <3> QED BY <3>1
  <2>5. g \in [S -> Acc]
    <3>1. \A s \in S : g[s] \in Acc
      <4> TAKE s \in S
      <4>1. CASE m \in s
        <5>1. f[s \ {m}] \in Acc
          BY <2>2, <2>3
        <5> QED BY <2>1, <4>1, <5>1
      <4>2. CASE m \notin s
        BY <2>2, <2>4, <4>2
      <4> QED BY <4>1, <4>2
    <3> QED BY <3>1
  <2>6. ASSUME NEW s \in S PROVE g[s] = FoldStep(base, G, g, s)
    <3>1. CASE m \in s
      <4>1. Max(s) = m
        <5>1. \A k \in s : k \in Int /\ k <= m
          BY <2>1
        <5>2. s \in SUBSET (0..m) /\ s # {}
          BY <2>1, <3>1
        <5>3. Max(s) \in s /\ \A k \in s : k <= Max(s)
          BY <2>1, <5>2, MaxIn
        <5> DEFINE k == Max(s)
        <5> HIDE DEF k
        <5>4. k \in Int /\ k <= m /\ m <= k
          BY <3>1, <5>1, <5>3 DEF k
        <5> QED BY <2>1, <5>4 DEF k
      <4>2. g[s \ {m}] = f[s \ {m}]
        <5>1. s \ {m} \in S /\ m \notin s \ {m}
          OBVIOUS
        <5> HIDE DEF g, S
        <5> QED BY <2>4, <5>1
      <4> QED BY <3>1, <4>1, <4>2 DEF FoldStep
    <3>2. CASE m \notin s
      <4>1. s \in R /\ g[s] = f[s]
        BY <2>4, <3>2
      <4>2. f[s] = FoldStep(base, G, f, s)
        BY <2>2, <4>1 DEF FoldTo
      <4>3. s # {} => g[s \ {Max(s)}] = f[s \ {Max(s)}]
        <5>1. s \ {Max(s)} \in S /\ m \notin s \ {Max(s)}
          BY <3>2
        <5> HIDE DEF g, S
        <5> QED BY <2>4, <5>1
      <4> HIDE DEF g
      <4> QED BY <4>1, <4>2, <4>3 DEF FoldStep
    <3> QED BY <3>1, <3>2
  <2>7. FoldTo(m, base, G, g)
    <3>1. g = [s \in S |-> g[s]]
      OBVIOUS
    <3> HIDE DEF g
    <3>2. g = [s \in S |-> FoldStep(base, G, g, s)]
      BY <2>6, <3>1
    <3> QED BY <3>2 DEF FoldTo
  <2> HIDE DEF g
  <2> QED BY <1>4, <2>5, <2>7
<1> QED BY <1>5, <1>6

\* What the fold has made of the first m places is in Inv[m], if each step leads
\* from one to the next.
LEMMA FoldClimbs ==
    ASSUME NEW n \in Nat, NEW F, NEW Inv, F[{}] \in Inv[0],
           \A m \in 1..n : F[1..(m - 1)] \in Inv[m - 1] => F[1..m] \in Inv[m]
    PROVE  F[1..n] \in Inv[n]
<1> DEFINE Bad == {m \in 0..n : F[1..m] \notin Inv[m]}
<1>1. SUFFICES Bad = {}
  <2>1. n \in 0..n
    OBVIOUS
  <2> QED BY <2>1
<1>2. SUFFICES ASSUME Bad # {} PROVE FALSE
  OBVIOUS
<1>3. PICK m \in Bad : \A k \in Bad : m <= k
  <2>1. Bad \in SUBSET Nat
    OBVIOUS
  <2> HIDE DEF Bad
  <2> QED BY <1>2, <2>1, LeastExists
<1>4. m \in 0..n /\ F[1..m] \notin Inv[m]
  BY <1>3
<1>5. m # 0
  <2>1. 1..0 = {}
    OBVIOUS
  <2> QED BY <1>4, <2>1
<1>6. m - 1 \in 0..n /\ ~(m <= m - 1) /\ m \in 1..n
  BY <1>4, <1>5
<1>7. m - 1 \notin Bad
  <2> HIDE DEF Bad
  <2> QED BY <1>3, <1>6
<1>8. F[1..(m - 1)] \in Inv[m - 1]
  BY <1>6, <1>7
<1> QED BY <1>4, <1>6, <1>8

-----------------------------------------------------------------------------
(* Merging spans.                                                            *)

\* Proper spans of a text of n characters, with a type of T.
SpansIn(T, n) == {x \in [start : Nat, end : Nat, type : T] : x.start < x.end /\ x.end <= n}
Covers(done, x) == \E i \in DOMAIN done : done[i].start <= x.start /\ x.end <= done[i].end

Joined(done, x, t) ==
    IF done = <<>> THEN <<x>>
    ELSE IF Last(done).type = x.type /\ GapIsMergeable(t, Last(done).end, x.start, x.type)
         THEN Front(done) \o <<[Last(done) EXCEPT !.end = x.end]>>
         ELSE Append(done, x)

MergeTo(q, t, f) ==
    f = [s \in SUBSET DOMAIN q |-> IF s = {} THEN <<>> ELSE Joined(f[s \ {Max(s)}], q[Max(s)], t)]

LEMMA MergeIs ==
    ASSUME NEW q, NEW t
    PROVE  Merge(q, t) = (CHOOSE f : MergeTo(q, t, f))[DOMAIN q]
BY DEF Merge, FoldLeft, MapThenFoldSet, MergeTo, Joined

\* Joining keeps every character covered: a gap has no negative length, so a
\* span that grows does not shrink.
LEMMA JoinedKeeps ==
    ASSUME NEW T, NEW n \in Nat, NEW t, NEW done \in Seq(SpansIn(T, n)), NEW x \in SpansIn(T, n)
    PROVE  /\ Joined(done, x, t) \in Seq(SpansIn(T, n))
           /\ Covers(Joined(done, x, t), x)
           /\ \A y : Covers(done, y) /\ y.start \in Int /\ y.end \in Int => Covers(Joined(done, x, t), y)
<1> DEFINE X == SpansIn(T, n)
           m == Len(done)
           prev == Last(done)
           new == [prev EXCEPT !.end = x.end]
           r == Joined(done, x, t)
<1>1. /\ m \in Nat /\ DOMAIN done = 1..m /\ \A i \in 1..m : done[i] \in X
      /\ x \in X
  BY LenProperties, ElementOfSeq
<1>2. \A y \in X : y.start \in Nat /\ y.end \in Nat /\ y.start < y.end /\ y.end <= n
  BY DEF SpansIn
<1>3. CASE done = <<>>
  <2>1. r = <<x>> /\ DOMAIN done = {}
    BY <1>3 DEF Joined
  <2>2. r \in Seq(X) /\ DOMAIN r = 1..1 /\ r[1] = x
    <3> HIDE DEF X
    <3> QED BY <1>1, <2>1
  <2>3. Covers(r, x)
    <3>1. 1 \in DOMAIN r /\ x.start <= x.start /\ x.end <= x.end
      BY <1>1, <1>2, <2>2
    <3> QED BY <2>2, <3>1 DEF Covers
  <2>4. \A y : ~Covers(done, y)
    BY <2>1 DEF Covers
  <2> QED BY <2>2, <2>3, <2>4
<1>4. CASE done # <<>> /\ ~(prev.type = x.type /\ GapIsMergeable(t, prev.end, x.start, x.type))
  <2>1. r = Append(done, x)
    BY <1>4 DEF Joined
  <2>2. /\ r \in Seq(X) /\ DOMAIN r = 1..(m + 1) /\ r[m + 1] = x
        /\ \A i \in 1..m : r[i] = done[i]
    <3> HIDE DEF X
    <3>1. /\ r \in Seq(X) /\ Len(r) = m + 1 /\ r[m + 1] = x
          /\ \A i \in 1..m : r[i] = done[i]
      BY <1>1, <2>1, AppendProperties
    <3> QED BY <3>1, LenProperties
  <2> HIDE DEF r
  <2>3. Covers(r, x)
    <3>1. m + 1 \in DOMAIN r /\ x.start <= x.start /\ x.end <= x.end
      BY <1>1, <1>2, <2>2
    <3> QED BY <2>2, <3>1 DEF Covers
  <2>4. ASSUME NEW y, Covers(done, y) PROVE Covers(r, y)
    <3>1. PICK i \in DOMAIN done : done[i].start <= y.start /\ y.end <= done[i].end
      BY <2>4 DEF Covers
    <3>2. i \in DOMAIN r /\ r[i] = done[i]
      BY <1>1, <2>2, <3>1
    <3> QED BY <3>1, <3>2 DEF Covers
  <2> QED BY <2>2, <2>3, <2>4 DEF r
<1>5. CASE done # <<>> /\ prev.type = x.type /\ GapIsMergeable(t, prev.end, x.start, x.type)
  <2>1. r = Front(done) \o <<new>>
    BY <1>5 DEF Joined
  <2>2. m # 0 /\ m - 1 \in Nat /\ prev = done[m] /\ prev \in X /\ m \in 1..m
    <3>1. m # 0
      BY <1>5, EmptySeq
    <3> QED BY <1>1, <3>1 DEF Last
  <2>3. prev.end <= x.start
    BY <1>5 DEF GapIsMergeable
  <2>4. new \in X /\ new.start = prev.start /\ new.end = x.end /\ prev.end <= new.end
    <3>1. prev \in [start : Nat, end : Nat, type : T] /\ x.end \in Nat
      BY <1>1, <2>2 DEF SpansIn
    <3>2. new \in [start : Nat, end : Nat, type : T] /\ new.start = prev.start /\ new.end = x.end
      <4> HIDE DEF prev
      <4> QED BY <3>1
    <3>3. new.start < new.end /\ new.end <= n /\ prev.end <= new.end
      <4> DEFINE a == prev.start
                 b == prev.end
                 c == x.start
                 e == x.end
      <4>1. a \in Nat /\ b \in Nat /\ c \in Nat /\ e \in Nat /\ a < b /\ c < e /\ e <= n /\ b <= c
        BY <1>1, <1>2, <2>2, <2>3
      <4> HIDE DEF a, b, c, e
      <4>2. a < e /\ e <= n /\ b <= e
        BY <4>1
      <4> QED BY <3>2, <4>2 DEF a, b, e
    <3> QED BY <3>2, <3>3 DEF SpansIn
  <2> HIDE DEF new, prev
  <2>5. Front(done) \in Seq(X) /\ Len(Front(done)) = m - 1 /\ \A i \in 1..(m - 1) : Front(done)[i] = done[i]
    <3>1. 1 \in Int /\ m - 1 \in Int /\ \A i \in 1..(m - 1) : done[i] \in X
      BY <1>1, <2>2
    <3> DEFINE k == m - 1
    <3>2. k \in Nat
      BY <2>2
    <3> HIDE DEF k, X
    <3>3. /\ SubSeq(done, 1, k) \in Seq(X)
          /\ Len(SubSeq(done, 1, k)) = IF 1 <= k THEN k - 1 + 1 ELSE 0
          /\ \A i \in 1..(k - 1 + 1) : SubSeq(done, 1, k)[i] = done[1 + i - 1]
      BY <3>1, SubSeqProperties DEF k
    <3>4. (IF 1 <= k THEN k - 1 + 1 ELSE 0) = k /\ k - 1 + 1 = k /\ \A i \in 1..k : 1 + i - 1 = i
      BY <3>2
    <3> QED BY <3>3, <3>4 DEF Front, k
  <2>6. /\ r \in Seq(X) /\ DOMAIN r = 1..m /\ r[m] = new
        /\ \A i \in 1..(m - 1) : r[i] = done[i]
    <3> DEFINE f == Front(done)
               g == <<new>>
    <3> HIDE DEF X, f, r
    <3>1. g \in Seq(X) /\ Len(g) = 1 /\ g[1] = new
      BY <2>4
    <3> HIDE DEF g
    <3>2. f \o g \in Seq(X) /\ Len(f \o g) = Len(f) + Len(g)
          /\ \A i \in 1..(Len(f) + Len(g)) : (f \o g)[i] = IF i <= Len(f) THEN f[i] ELSE g[i - Len(f)]
      BY <2>5, <3>1, ConcatProperties DEF f
    <3>3. r = f \o g /\ Len(f) = m - 1 /\ \A i \in 1..(m - 1) : f[i] = done[i]
      BY <2>1, <2>5 DEF f, g
    <3> DEFINE lf == Len(f)
    <3>4. lf = m - 1 /\ lf + 1 = m /\ m - lf = 1 /\ ~(m <= lf) /\ \A i \in 1..(m - 1) : i <= lf
      BY <1>1, <3>3
    <3>5. DOMAIN r = 1..m
      BY <3>1, <3>2, <3>3, <3>4, LenProperties
    <3>6. r[m] = new
      BY <2>2, <3>1, <3>2, <3>3, <3>4
    <3>7. ASSUME NEW i \in 1..(m - 1) PROVE r[i] = done[i]
      <4>1. i \in 1..m
        BY <1>1, <3>7
      <4> QED BY <3>1, <3>2, <3>3, <3>4, <4>1
    <3> QED BY <3>2, <3>3, <3>5, <3>6, <3>7
  <2> HIDE DEF r
  <2>7. Covers(r, x)
    <3>1. new.start <= x.start /\ x.end <= new.end
      <4> DEFINE a == prev.start
                 b == prev.end
                 c == x.start
                 e == x.end
      <4>1. a \in Nat /\ b \in Nat /\ c \in Nat /\ e \in Nat /\ a < b /\ b <= c
        BY <1>1, <1>2, <2>2, <2>3
      <4> HIDE DEF a, b, c, e
      <4>2. a <= c /\ e <= e
        BY <4>1
      <4> QED BY <2>4, <4>2 DEF a, c, e
    <3> QED BY <2>2, <2>6, <3>1 DEF Covers
  <2>8. ASSUME NEW y, Covers(done, y), y.start \in Int, y.end \in Int PROVE Covers(r, y)
    <3>1. PICK i \in DOMAIN done : done[i].start <= y.start /\ y.end <= done[i].end
      BY <2>8 DEF Covers
    <3>2. CASE i = m
      <4> DEFINE a == y.end
                 b == prev.end
                 e == new.end
      <4>1. new.start <= y.start /\ a <= b /\ b <= e
        BY <2>2, <2>4, <3>1, <3>2
      <4>2. a \in Int /\ b \in Int /\ e \in Int
        BY <1>2, <2>2, <2>4, <2>8
      <4> HIDE DEF a, b, e
      <4>3. a <= e
        BY <4>1, <4>2
      <4> QED BY <2>2, <2>6, <4>1, <4>3 DEF Covers, a, e
    <3>3. CASE i # m
      <4>1. i \in 1..(m - 1) /\ i \in 1..m
        BY <1>1, <3>1, <3>3
      <4> QED BY <2>6, <3>1, <4>1 DEF Covers
    <3> QED BY <3>2, <3>3
  <2> QED BY <2>6, <2>7, <2>8 DEF r
<1> QED BY <1>3, <1>4, <1>5

\* The merged spans are proper and cover what they were merged from.
LEMMA MergeKeeps ==
    ASSUME NEW T, NEW n \in Nat, NEW t, NEW q \in Seq(SpansIn(T, n))
    PROVE  /\ Merge(q, t) \in Seq(SpansIn(T, n))
           /\ \A x \in ToSet(q) : Covers(Merge(q, t), x)
<1> DEFINE X == SpansIn(T, n)
           m == Len(q)
           G == [p \in (1..m) \X Seq(X) |-> Joined(p[2], q[p[1]], t)]
<1>1. m \in Nat /\ DOMAIN q = 1..m /\ \A i \in 1..m : q[i] \in X
  BY LenProperties, ElementOfSeq
<1>2. <<>> \in Seq(X)
  OBVIOUS
<1>3. \A i \in 1..m, d \in Seq(X) :
        /\ G[<<i, d>>] = Joined(d, q[i], t) /\ Joined(d, q[i], t) \in Seq(X) /\ Covers(Joined(d, q[i], t), q[i])
        /\ \A k \in 1..m : Covers(d, q[k]) => Covers(Joined(d, q[i], t), q[k])
  <2> TAKE i \in 1..m, d \in Seq(X)
  <2>1. q[i] \in X
    BY <1>1
  <2>2. /\ Joined(d, q[i], t) \in Seq(X) /\ Covers(Joined(d, q[i], t), q[i])
        /\ \A y : Covers(d, y) /\ y.start \in Int /\ y.end \in Int => Covers(Joined(d, q[i], t), y)
    BY <2>1, JoinedKeeps
  <2>3. \A k \in 1..m : q[k].start \in Int /\ q[k].end \in Int
    BY <1>1 DEF SpansIn
  <2> HIDE DEF X, m
  <2>4. <<i, d>> \in (1..m) \X Seq(X) /\ <<i, d>>[1] = i /\ <<i, d>>[2] = d
    OBVIOUS
  <2> QED BY <2>2, <2>3, <2>4
<1>4. G \in [(1..m) \X Seq(X) -> Seq(X)]
  <2>1. \A p \in (1..m) \X Seq(X) : G[p] \in Seq(X)
    <3> TAKE p \in (1..m) \X Seq(X)
    <3>1. p[1] \in 1..m /\ p[2] \in Seq(X) /\ p = <<p[1], p[2]>>
      OBVIOUS
    <3> HIDE DEF X, G, m
    <3> QED BY <1>3, <3>1
  <2> HIDE DEF X, m
  <2> QED BY <2>1
<1> HIDE DEF X, G, m
<1>5. PICK f \in [SUBSET (1..m) -> Seq(X)] : FoldTo(m, <<>>, G, f)
  BY <1>1, <1>2, <1>4, FoldExists
<1>6. \E g : MergeTo(q, t, g)
  <2>1. \A s \in SUBSET (1..m) : f[s] = IF s = {} THEN <<>> ELSE Joined(f[s \ {Max(s)}], q[Max(s)], t)
    <3> TAKE s \in SUBSET (1..m)
    <3>1. f[s] = FoldStep(<<>>, G, f, s)
      BY <1>5 DEF FoldTo
    <3>2. CASE s # {}
      <4>1. s \in SUBSET (0..m)
        BY <1>1
      <4>2. Max(s) \in s
        BY <1>1, <3>2, <4>1, MaxIn
      <4>3. Max(s) \in 1..m /\ f[s \ {Max(s)}] \in Seq(X)
        BY <1>5, <4>2
      <4> QED BY <1>3, <3>1, <3>2, <4>3 DEF FoldStep
    <3> QED BY <3>1, <3>2 DEF FoldStep
  <2>2. f = [s \in SUBSET (1..m) |-> f[s]]
    BY <1>5
  <2>3. f = [s \in SUBSET DOMAIN q |-> IF s = {} THEN <<>> ELSE Joined(f[s \ {Max(s)}], q[Max(s)], t)]
    BY <1>1, <2>1, <2>2
  <2> QED BY <2>3 DEF MergeTo
<1> DEFINE F == CHOOSE g : MergeTo(q, t, g)
<1>7. MergeTo(q, t, F)
  BY <1>6
<1>8. Merge(q, t) = F[1..m]
  BY <1>1, MergeIs
<1> HIDE DEF F
<1>9. F[{}] = <<>>
  BY <1>1, <1>7 DEF MergeTo
<1>10. \A i \in 1..m : F[1..i] = Joined(F[1..(i - 1)], q[i], t)
  <2> TAKE i \in 1..m
  <2>1. 1..i \in SUBSET (1..m) /\ 1..i \in SUBSET (0..m) /\ i \in 1..i /\ \A k \in 1..i : k \in Int /\ k <= i
    BY <1>1
  <2>2. Max(1..i) = i
    <3> DEFINE k == Max(1..i)
    <3>1. k \in 1..i /\ i <= k
      BY <1>1, <2>1, MaxIn
    <3> HIDE DEF k
    <3>2. k = i
      BY <1>1, <2>1, <3>1
    <3> QED BY <3>2 DEF k
  <2>3. (1..i) \ {i} = 1..(i - 1)
    BY <1>1
  <2>4. F[1..i] = Joined(F[(1..i) \ {Max(1..i)}], q[Max(1..i)], t)
    <3>1. 1..i # {}
      BY <2>1
    <3> QED BY <1>1, <1>7, <2>1, <3>1 DEF MergeTo
  <2> QED BY <2>2, <2>3, <2>4
<1> DEFINE Inv == [k \in 0..m |-> {d \in Seq(X) : \A i \in 1..k : Covers(d, q[i])}]
<1>11. F[{}] \in Inv[0]
  <2>1. \A i \in 1..0 : FALSE
    OBVIOUS
  <2> QED BY <1>1, <1>2, <1>9, <2>1
<1>12. ASSUME NEW i \in 1..m, F[1..(i - 1)] \in Inv[i - 1] PROVE F[1..i] \in Inv[i]
  <2>1. i - 1 \in 0..m /\ i \in 0..m /\ 1..i = 1..(i - 1) \cup {i}
        /\ \A k \in 1..(i - 1) : k \in 1..m
    BY <1>1
  <2> DEFINE d == F[1..(i - 1)]
  <2>2. d \in Seq(X) /\ \A k \in 1..(i - 1) : Covers(d, q[k])
    BY <1>12, <2>1
  <2> HIDE DEF d
  <2>3. F[1..i] = Joined(d, q[i], t)
    BY <1>10 DEF d
  <2>4. F[1..i] \in Seq(X) /\ \A k \in 1..i : Covers(F[1..i], q[k])
    BY <1>3, <2>1, <2>2, <2>3
  <2> QED BY <2>1, <2>4
<1>13. F[1..m] \in Inv[m]
  <2> HIDE DEF Inv
  <2> QED BY <1>1, <1>11, <1>12, FoldClimbs
<1>14. F[1..m] \in Seq(X) /\ \A i \in 1..m : Covers(F[1..m], q[i])
  BY <1>1, <1>13
<1>15. \A x \in ToSet(q) : \E i \in 1..m : x = q[i]
  BY <1>1 DEF ToSet
<1> QED BY <1>8, <1>14, <1>15 DEF X

-----------------------------------------------------------------------------
(* The spans a service sends, and where they lie in the text.                *)

SpanTypes == {LABEL_MAP[l] : l \in DOMAIN LABEL_MAP} \cup {"OTHER"}

IsSpan(s) == s.start \in Int /\ s.end \in Int /\ IsSeqOf(s.text)
AsTyped(s) == Typed(s.start, s.end, LabelType(s.label))

\* Whatever the offsets, what is extracted lies in the text.
LEMMA ExtractedTyped ==
    ASSUME NEW t, IsSeqOf(t), NEW s, IsSpan(s)
    PROVE  /\ Extracted(s, t) \in Seq(SpansIn(SpanTypes, Len(t)))
           /\ s.label # "" /\ Usable(s, t) => AsTyped(s) \in ToSet(Extracted(s, t))
<1> DEFINE X == SpansIn(SpanTypes, Len(t))
           n == Len(t)
           type == LabelType(s.label)
           v == Strip(s.text)
           at == Min(Places(v, t))
           given == Typed(s.start, s.end, type)
           placed == Typed(at, at + Len(v), type)
<1>1. n \in Nat /\ Len(v) \in Nat
  <2>1. IsSeqOf(v)
    BY StripSeq DEF IsSpan
  <2> HIDE DEF v
  <2> QED BY <2>1, LenProperties DEF IsSeqOf
<1>2. type \in SpanTypes
  BY DEF LabelType, SpanTypes
<1>3. Usable(s, t) => given \in X
  <2> SUFFICES ASSUME Usable(s, t) PROVE given \in X
    OBVIOUS
  <2>1. s.start \in Nat /\ s.end \in Nat /\ s.start < s.end /\ s.end <= n
    BY <1>1 DEF Usable, IsSpan
  <2> HIDE DEF n, type
  <2> QED BY <1>2, <2>1 DEF SpansIn, Typed, n
<1>4. v # <<>> /\ Occurs(v, t) => placed \in X
  <2> SUFFICES ASSUME v # <<>>, Occurs(v, t) PROVE placed \in X
    OBVIOUS
  <2>1. Len(v) # 0
    <3>1. IsSeqOf(v)
      BY StripSeq DEF IsSpan
    <3> HIDE DEF v
    <3> QED BY <3>1, EmptySeq DEF IsSeqOf
  <2> DEFINE lv == Len(v)
  <2> HIDE DEF v
  <2>2. lv \in Nat /\ lv # 0
    BY <1>1, <2>1
  <2>3. at \in 0..(n - lv)
    <3>1. Places(v, t) \subseteq 0..(n - lv)
      BY DEF Places
    <3>2. Places(v, t) \in SUBSET Nat /\ Places(v, t) # {}
      BY <3>1 DEF Occurs
    <3>3. at \in Places(v, t)
      BY <3>2, MinIn
    <3> QED BY <3>1, <3>3
  <2> HIDE DEF at, n, lv, type
  <2>4. at \in Nat /\ at + lv \in Nat /\ at < at + lv /\ at + lv <= n
    BY <1>1, <2>2, <2>3 DEF n
  <2> QED BY <1>2, <2>4 DEF SpansIn, Typed, n, lv
<1>5. Extracted(s, t) \in {<<>>, <<given>>, <<placed>>}
      /\ (s.label # "" /\ Usable(s, t) => Extracted(s, t) = <<given>>)
      /\ (Extracted(s, t) = <<given>> => Usable(s, t) \/ Extracted(s, t) = <<placed>> \/ Extracted(s, t) = <<>>)
      /\ (Extracted(s, t) = <<placed>> => (v # <<>> /\ Occurs(v, t)) \/ Extracted(s, t) = <<given>> \/ Extracted(s, t) = <<>>)
  <2> HIDE DEF given, placed
  <2> QED BY DEF Extracted, given, placed
<1>6. \/ Extracted(s, t) = <<>>
      \/ Usable(s, t) /\ Extracted(s, t) = <<given>>
      \/ v # <<>> /\ Occurs(v, t) /\ Extracted(s, t) = <<placed>>
  <2> HIDE DEF given, placed
  <2> QED BY DEF Extracted, given, placed
<1> HIDE DEF X, given, placed, v
<1>7. Extracted(s, t) \in Seq(X)
  <2>1. <<>> \in Seq(X)
    OBVIOUS
  <2>2. Usable(s, t) => <<given>> \in Seq(X)
    BY <1>3
  <2>3. v # <<>> /\ Occurs(v, t) => <<placed>> \in Seq(X)
    BY <1>4
  <2> QED BY <1>6, <2>1, <2>2, <2>3
<1>8. s.label # "" /\ Usable(s, t) => given \in ToSet(Extracted(s, t))
  <2>1. given \in ToSet(<<given>>)
    <3>1. <<given>>[1] = given /\ 1 \in DOMAIN <<given>>
      OBVIOUS
    <3> QED BY <3>1 DEF ToSet
  <2> QED BY <1>5, <2>1
<1> QED BY <1>7, <1>8 DEF X, given, AsTyped

\* By place, then as they came.
Earlier(q, i, j) ==
    \/ q[i].start < q[j].start
    \/ q[i].start = q[j].start /\ q[i].end < q[j].end
    \/ q[i].start = q[j].start /\ q[i].end = q[j].end /\ i < j

InPlace(q) ==
    LET order == Sorted(DOMAIN q, LAMBDA i, j : Earlier(q, i, j)) IN [k \in DOMAIN q |-> q[order[k]]]

\* Sorting loses nothing.
LEMMA SortedSpans ==
    ASSUME NEW X, NEW q \in Seq(X), \A x \in X : x.start \in Int /\ x.end \in Int,
           NEW r, r = InPlace(q)
    PROVE  r \in Seq(X) /\ ToSet(r) = ToSet(q)
<1> DEFINE D == DOMAIN q
           R == {p \in D \X D : Earlier(q, p[1], p[2])}
           f == Ranked(D, R)
           rankA == [x \in D |-> Cardinality({y \in D : Earlier(q, y, x)})]
           rankB == [x \in D |-> Cardinality({y \in D : <<y, x>> \in R})]
           order == Sorted(D, LAMBDA i, j : Earlier(q, i, j))
<1>1. /\ D \in SUBSET Int /\ IsFiniteSet(D)
      /\ \A i \in D : i \in Int /\ q[i] \in X /\ q[i].start \in Int /\ q[i].end \in Int
  BY Places1
<1>2. TellsApart(D, R)
  <2> HIDE DEF D
  <2>1. \A x, y \in D : <<x, y>> \in R <=> Earlier(q, x, y)
    OBVIOUS
  <2> HIDE DEF R
  <2>2. \A x \in D : ~Earlier(q, x, x)
    BY <1>1 DEF Earlier
  <2>3. ASSUME NEW x \in D, NEW y \in D, NEW z \in D, Earlier(q, x, y), Earlier(q, y, z)
        PROVE  Earlier(q, x, z)
    BY <1>1, <2>3 DEF Earlier
  <2>4. ASSUME NEW x \in D, NEW y \in D, x # y PROVE Earlier(q, x, y) \/ Earlier(q, y, x)
    <3> DEFINE a == q[x].start
               b == q[x].end
               c == q[y].start
               d == q[y].end
    <3>1. x \in Int /\ y \in Int /\ a \in Int /\ b \in Int /\ c \in Int /\ d \in Int
      BY <1>1
    <3>2. /\ Earlier(q, x, y) <=> a < c \/ (a = c /\ b < d) \/ (a = c /\ b = d /\ x < y)
          /\ Earlier(q, y, x) <=> c < a \/ (c = a /\ d < b) \/ (c = a /\ d = b /\ y < x)
      BY DEF Earlier
    <3> HIDE DEF a, b, c, d
    <3> QED BY <2>4, <3>1, <3>2
  <2> QED BY <2>1, <2>2, <2>3, <2>4 DEF TellsApart
<1>3. Lists(f, D, R)
  <2> HIDE DEF D, R
  <2> QED BY <1>1, <1>2, RankedLists
<1>4. rankA = rankB
  <2>1. \A x \in D : {y \in D : Earlier(q, y, x)} = {y \in D : <<y, x>> \in R}
    OBVIOUS
  <2> HIDE DEF R
  <2> QED BY <2>1
<1>5. f = [k \in 1..Cardinality(D) |-> CHOOSE x \in D : rankB[x] = k - 1]
  BY DEF Ranked
<1>6. order = [k \in 1..Cardinality(D) |-> CHOOSE x \in D : rankA[x] = k - 1]
  BY DEF Sorted
<1>7. order = f
  <2> HIDE DEF rankA, rankB, f, D, order
  <2> QED BY <1>4, <1>5, <1>6
<1>8. r = [k \in D |-> q[f[k]]]
  <2>1. r = [k \in D |-> q[order[k]]]
    BY DEF InPlace
  <2> HIDE DEF order, f
  <2> QED BY <1>7, <2>1
<1>9. Cardinality(D) = Len(q) /\ D = 1..Len(q) /\ Len(q) \in Nat
  <2>1. D = 1..Len(q) /\ Len(q) \in Nat
    BY LenProperties
  <2>2. Cardinality(1..Len(q)) = Len(q)
    BY <2>1, FS_Interval
  <2> QED BY <2>1, <2>2
<1>10. f \in [1..Len(q) -> D] /\ \A x \in D : \E k \in 1..Len(q) : f[k] = x
  <2> HIDE DEF f, D, R
  <2> QED BY <1>3, <1>9 DEF Lists
<1> HIDE DEF f, D, R, order
<1>11. r \in [1..Len(q) -> X] /\ \A k \in 1..Len(q) : r[k] = q[f[k]] /\ f[k] \in D
  BY <1>1, <1>8, <1>9, <1>10
<1>12. r \in Seq(X) /\ DOMAIN r = 1..Len(q)
  BY <1>9, <1>11, SeqDef
<1>13. ToSet(r) = ToSet(q)
  <2>1. \A k \in DOMAIN r : \E i \in DOMAIN q : r[k] = q[i]
    BY <1>11, <1>12 DEF D
  <2>2. \A i \in DOMAIN q : \E k \in DOMAIN r : r[k] = q[i]
    BY <1>10, <1>11, <1>12 DEF D
  <2> QED BY <2>1, <2>2 DEF ToSet
<1> QED BY <1>12, <1>13

LEMMA ExtractTyped ==
    ASSUME NEW t, IsSeqOf(t), NEW spans, IsSeqOf(spans), \A s \in ToSet(spans) : IsSpan(s)
    PROVE  /\ Extract(spans, t) \in Seq(SpansIn(SpanTypes, Len(t)))
           /\ \A s \in ToSet(spans) :
                s.label # "" /\ Usable(s, t) => AsTyped(s) \in ToSet(Extract(spans, t))
<1> DEFINE X == SpansIn(SpanTypes, Len(t))
           parts == [i \in DOMAIN spans |-> Extracted(spans[i], t)]
           q == FlattenSeq(parts)
           r == Extract(spans, t)
<1>1. /\ Len(spans) \in Nat /\ DOMAIN spans = 1..Len(spans)
      /\ \A i \in DOMAIN spans : spans[i] \in ToSet(spans)
  BY SeqOfAny DEF IsSeqOf
<1>2. \A i \in DOMAIN spans :
        /\ parts[i] = Extracted(spans[i], t) /\ parts[i] \in Seq(X)
        /\ spans[i].label # "" /\ Usable(spans[i], t) => AsTyped(spans[i]) \in ToSet(parts[i])
  <2> TAKE i \in DOMAIN spans
  <2>1. IsSpan(spans[i])
    BY <1>1
  <2>2. /\ Extracted(spans[i], t) \in Seq(X)
        /\ spans[i].label # "" /\ Usable(spans[i], t) => AsTyped(spans[i]) \in ToSet(Extracted(spans[i], t))
    BY <2>1, ExtractedTyped
  <2>3. parts[i] = Extracted(spans[i], t)
    OBVIOUS
  <2> HIDE DEF X, parts
  <2> QED BY <2>2, <2>3
<1>3. DOMAIN parts = DOMAIN spans /\ parts \in Seq(Seq(X))
  <2>1. DOMAIN parts = DOMAIN spans /\ parts = [i \in 1..Len(spans) |-> parts[i]]
    BY <1>1
  <2> HIDE DEF X, parts
  <2>2. parts \in [1..Len(spans) -> Seq(X)]
    BY <1>1, <1>2, <2>1
  <2> QED BY <1>1, <2>1, <2>2, SeqDef
<1> HIDE DEF X, parts
<1>4. q \in Seq(X) /\ \A i \in DOMAIN parts : ToSet(parts[i]) \subseteq ToSet(q)
  BY <1>3, Flattened
<1>5. \A x \in X : x.start \in Int /\ x.end \in Int
  BY DEF X, SpansIn
<1>6. r = InPlace(q)
  BY DEF Extract, InPlace, Earlier, parts
<1> HIDE DEF q, r
<1>7. r \in Seq(X) /\ ToSet(r) = ToSet(q)
  BY <1>4, <1>5, <1>6, SortedSpans
<1>8. ASSUME NEW s \in ToSet(spans), s.label # "", Usable(s, t) PROVE AsTyped(s) \in ToSet(r)
  <2>1. PICK i \in DOMAIN spans : s = spans[i]
    BY DEF ToSet
  <2> QED BY <1>2, <1>3, <1>4, <1>7, <1>8, <2>1
<1> QED BY <1>7, <1>8 DEF X, r

-----------------------------------------------------------------------------
(* Splitting a span at its paragraph breaks.                                 *)

InBreak(x, t, i) ==
    /\ t[i] = "\n"
    /\ \/ i > x.start + 1 /\ t[i - 1] = "\n"
       \/ i < x.end /\ t[i + 1] = "\n"
HeadsOf(x, t) ==
    {i \in (x.start + 1)..x.end : ~InBreak(x, t, i) /\ (i = x.start + 1 \/ InBreak(x, t, i - 1))}
Reach(x, t, h) == {j \in h..x.end : \A i \in h..j : ~InBreak(x, t, i)}
PieceOf(x, t, h) == Typed(h - 1, Max(Reach(x, t, h)), x.type)

LEMMA SplitIs ==
    ASSUME NEW x, NEW t
    PROVE  SplitAtBreaks(x, t) =
             [k \in DOMAIN Ordered(HeadsOf(x, t)) |-> PieceOf(x, t, Ordered(HeadsOf(x, t))[k])]
BY DEF SplitAtBreaks, HeadsOf, PieceOf, Reach, InBreak, Ordered

\* A piece reaches as far as no break stops it.
LEMMA PieceReaches ==
    ASSUME NEW T, NEW n \in Nat, NEW x \in SpansIn(T, n), NEW t, NEW h \in HeadsOf(x, t)
    PROVE  LET e == Max(Reach(x, t, h))
           IN /\ h \in Int /\ e \in Int /\ x.start < h /\ h <= e /\ e <= x.end
              /\ \A i \in h..e : ~InBreak(x, t, i)
              /\ \A j \in h..x.end : (\A i \in h..j : ~InBreak(x, t, i)) => j <= e
<1> DEFINE S == Reach(x, t, h)
           e == Max(S)
<1>1. x.start \in Nat /\ x.end \in Nat /\ h \in (x.start + 1)..x.end /\ ~InBreak(x, t, h)
  BY DEF SpansIn, HeadsOf
<1>2. h \in Nat /\ x.start < h /\ h <= x.end
  BY <1>1
<1>3. S \in SUBSET (0..x.end)
  BY <1>1, <1>2 DEF Reach
<1>4. h \in S
  <2>1. h \in h..x.end /\ \A i \in h..h : i = h
    BY <1>1, <1>2
  <2> QED BY <1>1, <2>1 DEF Reach
<1>5. e \in S /\ \A k \in S : k <= e
  <2> HIDE DEF S
  <2> QED BY <1>1, <1>3, <1>4, MaxIn
<1> HIDE DEF e
<1>6. e \in h..x.end /\ \A i \in h..e : ~InBreak(x, t, i)
  BY <1>5 DEF Reach
<1>7. \A j \in h..x.end : (\A i \in h..j : ~InBreak(x, t, i)) => j <= e
  BY <1>5 DEF Reach
<1>8. e \in Int /\ h <= e /\ e <= x.end
  BY <1>1, <1>2, <1>6
<1> QED BY <1>2, <1>6, <1>7, <1>8 DEF e

\* Every place outside the breaks is in a piece.
LEMMA PieceFound ==
    ASSUME NEW T, NEW n \in Nat, NEW x \in SpansIn(T, n), NEW t,
           NEW i \in (x.start + 1)..x.end, ~InBreak(x, t, i)
    PROVE  \E h \in HeadsOf(x, t) : h <= i /\ i <= Max(Reach(x, t, h))
<1> DEFINE H == {h \in (x.start + 1)..i : \A k \in h..i : ~InBreak(x, t, k)}
<1>1. x.start \in Nat /\ x.end \in Nat /\ i \in Nat /\ x.start + 1 <= i /\ i <= x.end
  BY DEF SpansIn
<1>2. i \in H
  <2>1. i \in (x.start + 1)..i /\ \A k \in i..i : k = i
    BY <1>1
  <2> QED BY <2>1
<1>3. PICK h \in H : \A k \in H : h <= k
  <2>1. H \in SUBSET Nat
    BY <1>1
  <2> HIDE DEF H
  <2> QED BY <1>2, <2>1, LeastExists
<1>4. h \in (x.start + 1)..i /\ \A k \in h..i : ~InBreak(x, t, k)
  BY <1>3
<1>5. h \in Nat /\ h \in (x.start + 1)..x.end /\ h \in h..i /\ i \in h..x.end
  BY <1>1, <1>4
<1>6. h = x.start + 1 \/ InBreak(x, t, h - 1)
  <2> SUFFICES ASSUME h # x.start + 1, ~InBreak(x, t, h - 1) PROVE FALSE
    OBVIOUS
  <2>1. h - 1 \in (x.start + 1)..i /\ ~(h <= h - 1) /\ \A k \in (h - 1)..i : k = h - 1 \/ k \in h..i
    BY <1>1, <1>4, <1>5
  <2>2. h - 1 \in H
    BY <1>4, <2>1
  <2> HIDE DEF H
  <2> QED BY <1>3, <2>1, <2>2
<1>7. h \in HeadsOf(x, t)
  BY <1>4, <1>5, <1>6 DEF HeadsOf
<1>8. i <= Max(Reach(x, t, h))
  BY <1>4, <1>5, <1>7, PieceReaches
<1>9. h <= i
  BY <1>1, <1>4
<1> QED BY <1>7, <1>8, <1>9

\* A piece of x has no break within and lies in x.
Unbroken(p, x, t) ==
    /\ p.start \in Nat /\ p.end \in Nat
    /\ x.start <= p.start /\ p.start < p.end /\ p.end <= x.end
    /\ \A i \in (p.start + 1)..(p.end - 1) : ~(t[i] = "\n" /\ t[i + 1] = "\n")

LEMMA SplitKeeps ==
    ASSUME NEW T, NEW n \in Nat, NEW x \in SpansIn(T, n), NEW t
    PROVE  /\ IsSeqOf(SplitAtBreaks(x, t))
           /\ \A p \in ToSet(SplitAtBreaks(x, t)) : Unbroken(p, x, t)
           /\ \A i \in (x.start + 1)..x.end :
                t[i] # "\n" => \E p \in ToSet(SplitAtBreaks(x, t)) : p.start < i /\ i <= p.end
<1> DEFINE I == HeadsOf(x, t)
           f == Ordered(I)
           m == Cardinality(I)
           r == SplitAtBreaks(x, t)
<1>1. x.start \in Nat /\ x.end \in Nat
  BY DEF SpansIn
<1>2. I \in SUBSET Int /\ IsFiniteSet(I)
  <2>1. I \subseteq (x.start + 1)..x.end
    BY DEF HeadsOf
  <2>2. IsFiniteSet((x.start + 1)..x.end)
    <3>1. x.start + 1 \in Int /\ x.end \in Int
      BY <1>1
    <3> QED BY <3>1, FS_Interval
  <2>3. IsFiniteSet(I)
    BY <2>1, <2>2, FS_Subset
  <2> QED BY <2>1, <2>3
<1>3. m \in Nat /\ f \in [1..m -> I] /\ \A h \in I : \E k \in 1..m : f[k] = h
  <2> HIDE DEF I
  <2> QED BY <1>2, OrderedLists
<1>4. r = [k \in 1..m |-> PieceOf(x, t, f[k])]
  <2>1. r = [k \in DOMAIN f |-> PieceOf(x, t, f[k])]
    BY SplitIs
  <2>2. DOMAIN f = 1..m
    BY <1>3
  <2> HIDE DEF r, f, m
  <2> QED BY <2>1, <2>2
<1> HIDE DEF r, f, m
<1>5. r = [k \in 1..m |-> r[k]] /\ DOMAIN r = 1..m /\ \A k \in 1..m : r[k] = PieceOf(x, t, f[k]) /\ f[k] \in I
  BY <1>3, <1>4
<1>6. IsSeqOf(r)
  BY <1>3, <1>5, ListSeq
<1>7. ASSUME NEW h \in I PROVE PieceOf(x, t, h) \in ToSet(r)
  BY <1>3, <1>5 DEF ToSet
<1>8. ASSUME NEW p \in ToSet(r) PROVE Unbroken(p, x, t)
  <2>1. PICK h \in I : p = PieceOf(x, t, h)
    BY <1>5 DEF ToSet
  <2> DEFINE e == Max(Reach(x, t, h))
  <2>2. /\ h \in Int /\ e \in Int /\ x.start < h /\ h <= e /\ e <= x.end
        /\ \A i \in h..e : ~InBreak(x, t, i)
    BY PieceReaches
  <2>3. p.start = h - 1 /\ p.end = e
    BY <2>1 DEF PieceOf, Typed
  <2> HIDE DEF e
  <2>4. h - 1 \in Nat /\ e \in Nat /\ x.start <= h - 1 /\ h - 1 < e /\ e <= x.end
    BY <1>1, <2>2
  <2>5. ASSUME NEW i \in ((h - 1) + 1)..(e - 1), t[i] = "\n", t[i + 1] = "\n" PROVE FALSE
    <3>1. i \in h..e /\ i < x.end
      BY <1>1, <2>2
    <3> QED BY <2>2, <2>5, <3>1 DEF InBreak
  <2> QED BY <2>3, <2>4, <2>5 DEF Unbroken
<1>9. ASSUME NEW i \in (x.start + 1)..x.end, t[i] # "\n"
      PROVE  \E p \in ToSet(r) : p.start < i /\ i <= p.end
  <2>1. ~InBreak(x, t, i)
    BY <1>9 DEF InBreak
  <2>2. PICK h \in I : h <= i /\ i <= Max(Reach(x, t, h))
    BY <2>1, PieceFound
  <2> DEFINE e == Max(Reach(x, t, h))
  <2>3. PieceOf(x, t, h).start = h - 1 /\ PieceOf(x, t, h).end = e
    BY DEF PieceOf, Typed
  <2>4. h \in Int /\ i \in Int
    BY <1>1, <1>2
  <2>5. h - 1 < i
    BY <2>2, <2>4
  <2> QED BY <1>7, <2>2, <2>3, <2>5
<1> QED BY <1>6, <1>8, <1>9 DEF r

-----------------------------------------------------------------------------
(* The pieces of the spans, and the matches made of them.                    *)

\* A piece of t with no paragraph break in it.
Clean(p, t) ==
    /\ p.start \in Nat /\ p.end \in Nat /\ p.start < p.end /\ p.end <= Len(t)
    /\ \A i \in (p.start + 1)..(p.end - 1) : ~(t[i] = "\n" /\ t[i + 1] = "\n")

LEMMA PiecesKeep ==
    ASSUME NEW t, IsSeqOf(t), NEW spans, IsSeqOf(spans), \A s \in ToSet(spans) : IsSpan(s)
    PROVE  /\ IsSeqOf(Pieces(spans, t))
           /\ \A p \in ToSet(Pieces(spans, t)) : Clean(p, t)
           /\ \A s \in ToSet(spans) : s.label # "" /\ Usable(s, t) =>
                \A i \in (s.start + 1)..s.end :
                    t[i] # "\n" => \E p \in ToSet(Pieces(spans, t)) : p.start < i /\ i <= p.end
<1> DEFINE n == Len(t)
           X == SpansIn(SpanTypes, n)
           q == Extract(spans, t)
           merged == Merge(q, t)
           parts == [k \in DOMAIN merged |-> SplitAtBreaks(merged[k], t)]
           all == FlattenSeq(parts)
<1>1. Pieces(spans, t) = all
  BY DEF Pieces
<1>2. n \in Nat
  BY LenProperties DEF IsSeqOf
<1>3. q \in Seq(X) /\ \A s \in ToSet(spans) : s.label # "" /\ Usable(s, t) => AsTyped(s) \in ToSet(q)
  BY ExtractTyped
<1> HIDE DEF q
<1>4. merged \in Seq(X) /\ \A x \in ToSet(q) : Covers(merged, x)
  <2> HIDE DEF n
  <2> QED BY <1>2, <1>3, MergeKeeps
<1>5. Len(merged) \in Nat /\ DOMAIN merged = 1..Len(merged) /\ \A k \in DOMAIN merged : merged[k] \in X
  <2> HIDE DEF merged, X
  <2> QED BY <1>4, LenProperties, ElementOfSeq
<1>6. \A x \in X : x.start \in Nat /\ x.end \in Nat /\ x.start < x.end /\ x.end <= n
  BY DEF SpansIn
<1>7. DOMAIN parts = DOMAIN merged /\ \A k \in DOMAIN merged : parts[k] = SplitAtBreaks(merged[k], t)
  OBVIOUS
<1>8. parts = [k \in 1..Len(merged) |-> parts[k]]
  BY <1>5
<1> HIDE DEF merged, parts
<1>9. \A k \in DOMAIN merged :
        /\ IsSeqOf(parts[k]) /\ \A p \in ToSet(parts[k]) : Unbroken(p, merged[k], t)
        /\ \A i \in (merged[k].start + 1)..merged[k].end :
             t[i] # "\n" => \E p \in ToSet(parts[k]) : p.start < i /\ i <= p.end
  <2> TAKE k \in DOMAIN merged
  <2>1. merged[k] \in SpansIn(SpanTypes, n)
    BY <1>5
  <2> HIDE DEF n
  <2>2. /\ IsSeqOf(SplitAtBreaks(merged[k], t))
        /\ \A p \in ToSet(SplitAtBreaks(merged[k], t)) : Unbroken(p, merged[k], t)
        /\ \A i \in (merged[k].start + 1)..merged[k].end :
             t[i] # "\n" => \E p \in ToSet(SplitAtBreaks(merged[k], t)) : p.start < i /\ i <= p.end
    BY <1>2, <2>1, SplitKeeps
  <2> QED BY <1>7, <2>2
<1>10. IsSeqOf(parts)
  BY <1>5, <1>8, ListSeq
<1>11. /\ IsSeqOf(all) /\ \A k \in DOMAIN parts : ToSet(parts[k]) \subseteq ToSet(all)
       /\ \A p \in ToSet(all) : \E k \in DOMAIN parts : p \in ToSet(parts[k])
  BY <1>7, <1>9, <1>10, FlatAny
<1> HIDE DEF all
<1>12. ASSUME NEW p \in ToSet(all) PROVE Clean(p, t)
  <2>1. PICK k \in DOMAIN merged : p \in ToSet(parts[k])
    BY <1>7, <1>11
  <2>2. Unbroken(p, merged[k], t) /\ merged[k].end \in Nat /\ merged[k].end <= n
    BY <1>5, <1>6, <1>9, <2>1
  <2> DEFINE e == p.end
             m == merged[k].end
  <2>3. e \in Nat /\ m \in Nat /\ e <= m /\ m <= n
    BY <2>2 DEF Unbroken
  <2> HIDE DEF e, m, n
  <2>4. e <= n
    BY <1>2, <2>3
  <2> QED BY <2>2, <2>4 DEF Unbroken, Clean, e, n
<1>13. ASSUME NEW s \in ToSet(spans), s.label # "", Usable(s, t), NEW i \in (s.start + 1)..s.end, t[i] # "\n"
       PROVE  \E p \in ToSet(all) : p.start < i /\ i <= p.end
  <2>1. Covers(merged, AsTyped(s))
    BY <1>3, <1>4, <1>13
  <2>2. PICK k \in DOMAIN merged : merged[k].start <= s.start /\ s.end <= merged[k].end
    BY <2>1 DEF Covers, AsTyped, Typed
  <2>3. i \in (merged[k].start + 1)..merged[k].end
    <3> DEFINE a == merged[k].start
               b == merged[k].end
               c == s.start
               d == s.end
    <3>1. a \in Int /\ b \in Int /\ c \in Int /\ d \in Int /\ i \in (c + 1)..d /\ a <= c /\ d <= b
      <4>1. IsSpan(s)
        BY <1>13
      <4>2. merged[k] \in X
        BY <1>5, <2>2
      <4>3. a \in Nat /\ b \in Nat
        <5> HIDE DEF X
        <5> QED BY <1>6, <4>2
      <4>4. c \in Int /\ d \in Int
        BY <4>1 DEF IsSpan
      <4>5. i \in (c + 1)..d /\ a <= c /\ d <= b
        BY <1>13, <2>2
      <4> HIDE DEF a, b, c, d
      <4> QED BY <4>3, <4>4, <4>5
    <3> HIDE DEF a, b, c, d
    <3>2. i \in (a + 1)..b
      BY <3>1
    <3> QED BY <3>2 DEF a, b
  <2>4. PICK p \in ToSet(parts[k]) : p.start < i /\ i <= p.end
    BY <1>9, <1>13, <2>2, <2>3
  <2> QED BY <1>7, <1>11, <2>4
<1> QED BY <1>1, <1>11, <1>12, <1>13

\* Part of a text has no break that the text does not have there.
LEMMA PartUnbroken ==
    ASSUME NEW v, IsSeqOf(v), NEW a \in Nat, NEW b \in Nat, 1 <= a, b <= Len(v),
           \A i \in a..(b - 1) : ~(v[i] = "\n" /\ v[i + 1] = "\n")
    PROVE  IsSeqOf(SubSeq(v, a, b)) /\ ~Breaks(SubSeq(v, a, b))
<1> DEFINE S == ToSet(v)
           u == SubSeq(v, a, b)
<1>1. Len(v) \in Nat /\ \A i \in 1..Len(v) : v[i] \in S
  BY SeqOfAny DEF IsSeqOf
<1>2. \A i \in a..b : v[i] \in S
  BY <1>1
<1> HIDE DEF S
<1>3. /\ u \in Seq(S) /\ Len(u) = (IF a <= b THEN b - a + 1 ELSE 0)
      /\ \A i \in 1..(b - a + 1) : u[i] = v[a + i - 1]
  BY <1>2, SubSeqProperties
<1> HIDE DEF u
<1>4. ASSUME NEW i \in 1..(Len(u) - 1), u[i] = "\n", u[i + 1] = "\n" PROVE FALSE
  <2>1. a <= b /\ i \in 1..(b - a) /\ i \in 1..(b - a + 1) /\ i + 1 \in 1..(b - a + 1)
    <3> DEFINE l == Len(u)
    <3>1. l = (IF a <= b THEN b - a + 1 ELSE 0)
      BY <1>3
    <3> HIDE DEF l
    <3>2. i \in 1..(l - 1)
      BY DEF l
    <3> QED BY <3>1, <3>2
  <2>2. u[i] = v[a + i - 1] /\ u[i + 1] = v[a + (i + 1) - 1]
    BY <1>3, <2>1
  <2> DEFINE k == a + i - 1
  <2>3. k \in a..(b - 1) /\ a + (i + 1) - 1 = k + 1
    BY <2>1
  <2> HIDE DEF k
  <2>4. v[k] = "\n" /\ v[k + 1] = "\n"
    BY <1>4, <2>2, <2>3 DEF k
  <2> QED BY <2>3, <2>4
<1>5. ~Breaks(u)
  BY <1>4 DEF Breaks
<1> QED BY <1>3, <1>5, SeqOfAny DEF u

LEMMA EmptyUnbroken == IsSeqOf(<<>>) /\ ~Breaks(<<>>)
<1>1. Len(<<>>) = 0 /\ <<>> \in Seq({})
  BY EmptySeq
<1>2. \A i \in 1..(0 - 1) : FALSE
  OBVIOUS
<1> QED BY <1>1, <1>2, SeqOfAny DEF Breaks

LEMMA StripUnbroken ==
    ASSUME NEW v, IsSeqOf(v), ~Breaks(v)
    PROVE  ~Breaks(Strip(v))
<1> DEFINE kept == {i \in DOMAIN v : v[i] \notin Blank}
<1>1. Len(v) \in Nat /\ DOMAIN v = 1..Len(v)
  BY SeqOfAny DEF IsSeqOf
<1>2. CASE kept = {}
  BY <1>2, EmptyUnbroken DEF Strip
<1>3. CASE kept # {}
  <2>1. kept \in SUBSET (0..Len(v)) /\ kept \in SUBSET Nat /\ kept \in SUBSET DOMAIN v
    BY <1>1
  <2>2. Strip(v) = SubSeq(v, Min(kept), Max(kept))
    BY <1>3 DEF Strip
  <2> HIDE DEF kept
  <2>3. Min(kept) \in DOMAIN v /\ Max(kept) \in DOMAIN v
    BY <1>1, <1>3, <2>1, MinIn, MaxIn
  <2> DEFINE a == Min(kept)
             b == Max(kept)
  <2> HIDE DEF a, b
  <2>4. a \in Nat /\ b \in Nat /\ 1 <= a /\ b <= Len(v)
    BY <1>1, <2>3 DEF a, b
  <2>5. \A i \in a..(b - 1) : i \in 1..(Len(v) - 1)
    BY <1>1, <2>4
  <2>6. \A i \in a..(b - 1) : ~(v[i] = "\n" /\ v[i + 1] = "\n")
    BY <2>5 DEF Breaks
  <2>7. ~Breaks(SubSeq(v, a, b))
    BY <2>4, <2>6, PartUnbroken
  <2> QED BY <2>2, <2>7 DEF a, b
<1> QED BY <1>2, <1>3

LEMMA MatchUnbroken ==
    ASSUME NEW v, IsSeqOf(v), ~Breaks(v), NEW type
    PROVE  ~Breaks(Match(v, type).text)
<1> DEFINE kept == {i \in DOMAIN v : v[i] \notin Punctuation}
<1>1. Len(v) \in Nat /\ DOMAIN v = 1..Len(v)
  BY SeqOfAny DEF IsSeqOf
<1>2. ~Breaks(RStrip(v, Punctuation))
  <2>1. CASE kept = {}
    BY <2>1, EmptyUnbroken DEF RStrip
  <2>2. CASE kept # {}
    <3>1. kept \in SUBSET (0..Len(v)) /\ kept \in SUBSET DOMAIN v
      BY <1>1
    <3>2. RStrip(v, Punctuation) = SubSeq(v, 1, Max(kept))
      BY <2>2 DEF RStrip
    <3> HIDE DEF kept
    <3> DEFINE b == Max(kept)
    <3>3. b \in DOMAIN v
      BY <1>1, <2>2, <3>1, MaxIn
    <3> HIDE DEF b
    <3>4. b \in Nat /\ 1 \in Nat /\ 1 <= 1 /\ b <= Len(v) /\ \A i \in 1..(b - 1) : i \in 1..(Len(v) - 1)
      BY <1>1, <3>3
    <3>5. \A i \in 1..(b - 1) : ~(v[i] = "\n" /\ v[i + 1] = "\n")
      BY <3>4 DEF Breaks
    <3>6. ~Breaks(SubSeq(v, 1, b))
      BY <3>4, <3>5, PartUnbroken
    <3> QED BY <3>2, <3>6 DEF b
  <2> QED BY <2>1, <2>2
<1>3. Match(v, type).text \in {v, RStrip(v, Punctuation)}
  BY DEF Match
<1> QED BY <1>2, <1>3

LEMMA EmitUnbroken ==
    ASSUME NEW t, IsSeqOf(t), NEW q, IsSeqOf(q), \A p \in ToSet(q) : Clean(p, t)
    PROVE  IsSeqOf(Emit(q, t)) /\ \A m \in ToSet(Emit(q, t)) : ~Breaks(m.text)
<1> DEFINE Cut(p) == Strip(Slice(t, p.start, p.end))
           I == {i \in DOMAIN q : Cut(q[i]) # <<>>}
           kept == Kept(q, I)
           r == Emit(q, t)
<1>1. r = [k \in DOMAIN kept |-> Match(Cut(kept[k]), kept[k].type)]
  BY DEF Emit, Where
<1>2. IsSeqOf(kept) /\ ToSet(kept) = {q[i] : i \in I}
  <2>1. I \in SUBSET DOMAIN q
    OBVIOUS
  <2> HIDE DEF I
  <2> QED BY <2>1, KeptAny
<1>3. \A k \in DOMAIN kept : Clean(kept[k], t)
  <2>1. ToSet(kept) \subseteq ToSet(q)
    BY <1>2 DEF ToSet
  <2> HIDE DEF kept
  <2> QED BY <2>1 DEF ToSet
<1> HIDE DEF kept, r, Cut
<1>4. r = [k \in DOMAIN kept |-> r[k]] /\ DOMAIN r = DOMAIN kept
  BY <1>1
<1>5. IsSeqOf(r)
  BY <1>2, <1>4, MappedSeq
<1>6. ASSUME NEW k \in DOMAIN kept PROVE ~Breaks(r[k].text)
  <2> DEFINE p == kept[k]
             s == Slice(t, p.start, p.end)
  <2>1. r[k] = Match(Cut(p), p.type)
    BY <1>1
  <2>2. Clean(p, t) /\ Len(t) \in Nat
    BY <1>3, LenProperties DEF IsSeqOf
  <2> HIDE DEF p
  <2>3. s = SubSeq(t, p.start + 1, p.end)
    <3> DEFINE e == p.end
               n == Len(t)
    <3>1. e \in Nat /\ n \in Nat /\ e <= n
      BY <2>2 DEF Clean
    <3>2. s = SubSeq(t, p.start + 1, IF e < n THEN e ELSE n)
      BY DEF Slice
    <3> HIDE DEF e, n, s
    <3>3. (IF e < n THEN e ELSE n) = e
      BY <3>1
    <3> QED BY <3>2, <3>3 DEF e
  <2>4. IsSeqOf(s) /\ ~Breaks(s)
    <3> DEFINE a == p.start + 1
               b == p.end
    <3>1. a \in Nat /\ b \in Nat /\ 1 <= a /\ b <= Len(t) /\ \A i \in a..(b - 1) : ~(t[i] = "\n" /\ t[i + 1] = "\n")
      BY <2>2 DEF Clean
    <3> HIDE DEF a, b
    <3>2. IsSeqOf(SubSeq(t, a, b)) /\ ~Breaks(SubSeq(t, a, b))
      BY <3>1, PartUnbroken
    <3> QED BY <2>3, <3>2 DEF a, b
  <2> HIDE DEF s
  <2>5. IsSeqOf(Strip(s)) /\ ~Breaks(Strip(s))
    BY <2>4, StripSeq, StripUnbroken
  <2>6. ~Breaks(Match(Strip(s), p.type).text)
    BY <2>5, MatchUnbroken
  <2> QED BY <2>1, <2>6 DEF Cut, s
<1> QED BY <1>4, <1>5, <1>6 DEF ToSet, r

-----------------------------------------------------------------------------
(* The merged blob, and what is heard of the spans of a text.                *)

Segment(texts, b, i) == IF i = 1 THEN texts[1] ELSE b \o <<SEP>> \o texts[i]
Places0(texts) == [i \in DOMAIN texts |-> i]
BlobTo(texts, f) ==
    f = [s \in SUBSET DOMAIN Places0(texts) |->
           IF s = {} THEN <<>> ELSE Segment(texts, f[s \ {Max(s)}], Places0(texts)[Max(s)])]

LEMMA BlobIs ==
    ASSUME NEW texts
    PROVE  Blob(texts) = (CHOOSE f : BlobTo(texts, f))[DOMAIN Places0(texts)]
BY DEF Blob, FoldLeftDomain, FoldLeft, MapThenFoldSet, BlobTo, Segment, Places0

LEMMA BlobTyped ==
    ASSUME NEW texts \in Seq(Seq(Char))
    PROVE  IsSeqOf(Blob(texts))
<1> DEFINE X == Char \cup {SEP}
           m == Len(texts)
           G == [p \in (1..m) \X Seq(X) |-> Segment(texts, p[2], p[1])]
<1>1. m \in Nat /\ DOMAIN texts = 1..m /\ \A i \in 1..m : texts[i] \in Seq(X)
  <2>1. m \in Nat /\ DOMAIN texts = 1..m /\ \A i \in 1..m : texts[i] \in Seq(Char)
    BY LenProperties, ElementOfSeq
  <2>2. Char \subseteq X
    OBVIOUS
  <2> HIDE DEF X
  <2> QED BY <2>1, <2>2, SeqMonotonic
<1>2. <<>> \in Seq(X) /\ <<SEP>> \in Seq(X)
  OBVIOUS
<1> HIDE DEF X
<1>3. \A i \in 1..m, b \in Seq(X) : Segment(texts, b, i) \in Seq(X)
  <2> TAKE i \in 1..m, b \in Seq(X)
  <2>1. b \o <<SEP>> \in Seq(X)
    BY <1>2, ConcatProperties
  <2>2. b \o <<SEP>> \o texts[i] \in Seq(X)
    BY <1>1, <2>1, ConcatProperties
  <2>3. i = 1 => texts[1] \in Seq(X)
    BY <1>1
  <2> QED BY <2>2, <2>3 DEF Segment
<1>4. G \in [(1..m) \X Seq(X) -> Seq(X)] /\ \A i \in 1..m, b \in Seq(X) : G[<<i, b>>] = Segment(texts, b, i)
  <2>1. \A p \in (1..m) \X Seq(X) : p[1] \in 1..m /\ p[2] \in Seq(X)
    OBVIOUS
  <2>2. \A p \in (1..m) \X Seq(X) : Segment(texts, p[2], p[1]) \in Seq(X)
    BY <1>3, <2>1
  <2>3. \A i \in 1..m, b \in Seq(X) : <<i, b>> \in (1..m) \X Seq(X) /\ <<i, b>>[1] = i /\ <<i, b>>[2] = b
    OBVIOUS
  <2> HIDE DEF m
  <2> QED BY <2>2, <2>3
<1> HIDE DEF G, m
<1>5. PICK f \in [SUBSET (1..m) -> Seq(X)] : FoldTo(m, <<>>, G, f)
  BY <1>1, <1>2, <1>4, FoldExists
<1>6. DOMAIN Places0(texts) = 1..m /\ \A i \in 1..m : Places0(texts)[i] = i
  BY <1>1 DEF Places0
<1>7. \A s \in SUBSET (1..m) : s # {} => Max(s) \in s
  <2> TAKE s \in SUBSET (1..m)
  <2>1. s \in SUBSET (0..m)
    BY <1>1
  <2> QED BY <1>1, <2>1, MaxIn
<1>8. \E g : BlobTo(texts, g)
  <2>1. \A s \in SUBSET (1..m) :
          f[s] = IF s = {} THEN <<>> ELSE Segment(texts, f[s \ {Max(s)}], Places0(texts)[Max(s)])
    <3> TAKE s \in SUBSET (1..m)
    <3>1. f[s] = FoldStep(<<>>, G, f, s)
      BY <1>5 DEF FoldTo
    <3>2. CASE s # {}
      <4>1. Max(s) \in 1..m /\ f[s \ {Max(s)}] \in Seq(X)
        BY <1>5, <1>7, <3>2
      <4> QED BY <1>4, <1>6, <3>1, <3>2, <4>1 DEF FoldStep
    <3> QED BY <3>1, <3>2 DEF FoldStep
  <2>2. f = [s \in SUBSET (1..m) |-> f[s]]
    BY <1>5
  <2>3. f = [s \in SUBSET DOMAIN Places0(texts) |->
               IF s = {} THEN <<>> ELSE Segment(texts, f[s \ {Max(s)}], Places0(texts)[Max(s)])]
    BY <1>6, <2>1, <2>2
  <2> QED BY <2>3 DEF BlobTo
<1> DEFINE F == CHOOSE g : BlobTo(texts, g)
<1>9. BlobTo(texts, F)
  BY <1>8
<1>10. Blob(texts) = F[1..m]
  BY <1>6, BlobIs
<1> HIDE DEF F
<1>11. F[{}] = <<>>
  BY <1>6, <1>9 DEF BlobTo
<1> DEFINE Inv == [k \in 0..m |-> Seq(X)]
<1>12. F[{}] \in Inv[0]
  BY <1>1, <1>2, <1>11
<1>13. ASSUME NEW i \in 1..m, F[1..(i - 1)] \in Inv[i - 1] PROVE F[1..i] \in Inv[i]
  <2>1. /\ 1..i \in SUBSET (1..m) /\ 1..i \in SUBSET (0..m) /\ i \in 1..i /\ i - 1 \in 0..m /\ i \in 0..m
        /\ \A k \in 1..i : k \in Int /\ k <= i
    BY <1>1
  <2>2. Max(1..i) = i
    <3> DEFINE k == Max(1..i)
    <3>1. k \in 1..i /\ i <= k
      <4>1. 1..i # {}
        BY <2>1
      <4> QED BY <1>1, <2>1, <4>1, MaxIn
    <3> HIDE DEF k
    <3>2. k = i
      BY <1>1, <2>1, <3>1
    <3> QED BY <3>2 DEF k
  <2>3. (1..i) \ {i} = 1..(i - 1)
    BY <1>1
  <2>4. F[1..i] = Segment(texts, F[(1..i) \ {Max(1..i)}], Places0(texts)[Max(1..i)])
    <3>1. 1..i # {}
      BY <2>1
    <3> QED BY <1>6, <1>9, <2>1, <3>1 DEF BlobTo
  <2>5. F[1..i] = Segment(texts, F[1..(i - 1)], i)
    BY <1>6, <2>2, <2>3, <2>4
  <2>6. F[1..(i - 1)] \in Seq(X)
    BY <1>13, <2>1
  <2> QED BY <1>3, <2>1, <2>5, <2>6
<1>14. F[1..m] \in Inv[m]
  <2> HIDE DEF Inv
  <2> QED BY <1>1, <1>12, <1>13, FoldClimbs
<1>15. F[1..m] \in Seq(X)
  BY <1>1, <1>14
<1> QED BY <1>10, <1>15, SeqOfAny

LEMMA TextTyped ==
    ASSUME NEW w, ReadyWorld(w), NEW o, NEW j \in Jobs(w, o)
    PROVE  IsSeqOf(TextOf(w, j))
<1>1. w.texts \in Seq(Seq(Char))
  BY DEF ReadyWorld
<1>2. CASE j[2] = BLOB
  BY <1>1, <1>2, BlobTyped DEF TextOf
<1>3. CASE j[2] # BLOB
  <2>1. j[2] \in DOMAIN w.texts
    BY <1>3 DEF Jobs
  <2>2. w.texts[j[2]] \in Seq(Char)
    BY <1>1, <2>1, LenProperties, ElementOfSeq
  <2> QED BY <1>3, <2>2, SeqOfAny DEF TextOf
<1> QED BY <1>2, <1>3

LEMMA RawTyped ==
    ASSUME NEW body, IsList(Field(body, "spans")), IsEntries(Field(body, "spans"))
    PROVE  IsSeqOf(RawSpans(body)) /\ \A s \in ToSet(RawSpans(body)) : IsSpan(s)
<1> DEFINE x == Field(body, "spans")
           q == Objects(Val(x))
           r == RawSpans(body)
<1>1. IsSeqOf(q)
  BY ObjectsOf DEF IsEntries
<1>2. DOMAIN r = DOMAIN q /\ r = [i \in DOMAIN q |-> r[i]] /\ \A i \in DOMAIN q : r[i] = RawSpan(q[i])
  BY DEF RawSpans
<1> HIDE DEF r
<1>3. IsSeqOf(r)
  <2> HIDE DEF q
  <2> QED BY <1>1, <1>2, MappedSeq
<1>4. ASSUME NEW y \in ToSet(q) PROVE IsSpan(RawSpan(y))
  <2> DEFINE text == Get(y, "text", Str(<<>>))
  <2>1. /\ Tag(text) = "str" => IsSeqOf(Val(text))
        /\ OffsetOf(y, "start") \in Int /\ OffsetOf(y, "end") \in Int
    BY <1>4 DEF IsEntries
  <2>2. /\ RawSpan(y).start = OffsetOf(y, "start") /\ RawSpan(y).end = OffsetOf(y, "end")
        /\ RawSpan(y).text = StrOf(text)
    BY DEF RawSpan, Span
  <2> HIDE DEF text
  <2>3. IsSeqOf(StrOf(text))
    <3>1. <<"None">> \in Seq({"None"}) /\ <<"repr">> \in Seq({"repr"})
      OBVIOUS
    <3>2. IsSeqOf(<<"None">>) /\ IsSeqOf(<<"repr">>)
      BY <3>1, SeqOfAny
    <3>3. StrOf(text) = IF Tag(text) = "str" THEN Val(text)
                        ELSE IF Tag(text) = "null" THEN <<"None">> ELSE <<"repr">>
      BY DEF StrOf
    <3> QED BY <2>1, <3>2, <3>3
  <2> QED BY <2>1, <2>2, <2>3 DEF IsSpan
<1> HIDE DEF q
<1> QED BY <1>2, <1>3, <1>4 DEF ToSet, r

\* What the privacy filter makes of its spans.
LEMMA SpansOutcome ==
    ASSUME NEW d, d \notin Services, NEW reply, NEW t, IsSeqOf(t), ReadyReply(d, reply),
           Outcome(d, reply, t).how = "found"
    PROVE  LET spans == RawSpans(reply.body)
               matches == Outcome(d, reply, t).matches
               pieces == Pieces(spans, t)
           IN /\ reply.kind = "json" /\ IsSeqOf(matches)
              /\ \A m \in ToSet(matches) : ~Breaks(m.text)
              /\ \A s \in ToSet(spans) : s.label # "" /\ Usable(s, t) =>
                   \A i \in (s.start + 1)..s.end :
                       t[i] # "\n" => \E p \in ToSet(pieces) : p.start < i /\ i <= p.end
<1> DEFINE body == reply.body
           x == Field(body, "spans")
           spans == RawSpans(body)
<1>1. reply.kind = "json"
  BY DEF Outcome, Unavailable
<1>2. Outcome(d, reply, t) = ReadPrivacyFilter(body, t)
  BY <1>1 DEF Outcome, Services
<1>3. Tag(body) = "obj" /\ IsList(x) /\ ReadPrivacyFilter(body, t) = FoundAll(ToMatches(spans, t))
  <2>1. Unavailable.how # "found"
    BY DEF Unavailable
  <2> QED BY <1>2, <2>1 DEF ReadPrivacyFilter
<1>4. IsEntries(x)
  <2>1. x \in EntriesOf(d, body)
    BY <1>3 DEF EntriesOf, Services
  <2> QED BY <1>1, <2>1 DEF ReadyReply
<1> HIDE DEF x, spans
<1>5. IsSeqOf(spans) /\ \A s \in ToSet(spans) : IsSpan(s)
  BY <1>3, <1>4, RawTyped DEF x, spans
<1>6. /\ IsSeqOf(Pieces(spans, t)) /\ \A p \in ToSet(Pieces(spans, t)) : Clean(p, t)
      /\ \A s \in ToSet(spans) : s.label # "" /\ Usable(s, t) =>
           \A i \in (s.start + 1)..s.end :
               t[i] # "\n" => \E p \in ToSet(Pieces(spans, t)) : p.start < i /\ i <= p.end
  BY <1>5, PiecesKeep
<1>7. IsSeqOf(ToMatches(spans, t)) /\ \A m \in ToSet(ToMatches(spans, t)) : ~Breaks(m.text)
  BY <1>6, EmitUnbroken DEF ToMatches
<1>8. Outcome(d, reply, t).matches = ToMatches(spans, t)
  BY <1>2, <1>3 DEF FoundAll
<1> QED BY <1>1, <1>6, <1>7, <1>8 DEF spans

-----------------------------------------------------------------------------
(* The invariant: where every call stands with its reply.                    *)

NoReply == Reply("none", None)

\* Nothing was heard: a call that is done needed no answer, or did without.
Unheard(j, r, w) ==
    /\ r.reply = NoReply
    /\ r.at = "done" => j[1] \notin w.closed \/ Blankish(TextOf(w, j))

\* A reply was heard, and the call ended with what it comes to.
Heard(j, r, w) ==
    LET outcome == Outcome(j[1], r.reply, TextOf(w, j))
    IN /\ r.reply \in Replies[j[1]] /\ r.at \in {"done", "failed"} /\ r.how = outcome.how
       /\ IF outcome.how = "found" THEN r.matches = outcome.matches
          ELSE r.at = "done" => j[1] \notin w.closed

CallStands(j, r, w) ==
    /\ IsSeqOf(r.matches)
    /\ j[1] \notin Local => /\ r.at \in {"ready", "posted", "done", "failed"}
                            /\ Unheard(j, r, w) \/ Heard(j, r, w)

HeardInv ==
    /\ status \in {"running", "released", "blocked"} => DOMAIN job = Jobs(world, over)
    /\ \A j \in DOMAIN job : CallStands(j, job[j], world)
    /\ status = "released" => /\ found = Union(world, over)
                              /\ \A j \in DOMAIN job : job[j].at = "done"

\* A call just created, and a call some fields of which are set anew.
LEMMA FreshUnheard == IsJob(Fresh) /\ Fresh.at = "ready" /\ Fresh.matches = <<>> /\ Fresh.reply = NoReply
<1>1. Fresh = [at |-> "ready", queue |-> <<>>, claimed |-> {}, how |-> "found", matches |-> <<>>,
               sent |-> <<>>, reply |-> NoReply]
  BY DEF Fresh, NoReply
<1>2. Fresh.at = "ready" /\ Fresh.matches = <<>> /\ Fresh.reply = NoReply
  BY <1>1
<1> QED BY <1>2, FreshJob

LEMMA JobLate ==
    ASSUME NEW r, IsJob(r), NEW how
    PROVE  LET s == [r EXCEPT !.how = how] IN IsJob(s) /\ s.reply = r.reply
BY DEF IsJob, JobFields

LEMMA JobSent ==
    ASSUME NEW r, IsJob(r), NEW q
    PROVE  LET s == [r EXCEPT !.at = "posted", !.sent = q]
           IN s.at = "posted" /\ s.reply = r.reply /\ s.matches = r.matches
BY DEF IsJob, JobFields

LEMMA JobMatches ==
    ASSUME NEW r, IsJob(r), NEW q, NEW c, NEW m, NEW at
    PROVE  /\ [r EXCEPT !.at = "claiming", !.queue = q].matches = r.matches
           /\ [r EXCEPT !.queue = Tail(@)].matches = r.matches
           /\ [r EXCEPT !.queue = Tail(@), !.claimed = @ \cup {c}, !.matches = Append(@, m)].matches
                = Append(r.matches, m)
           /\ [r EXCEPT !.at = at].matches = r.matches
BY DEF IsJob, JobFields

LEMMA EmptyList == IsSeqOf(<<>>)
BY EmptyUnbroken

LEMMA FreshCall ==
    ASSUME NEW j, NEW w
    PROVE  CallStands(j, Fresh, w)
BY FreshUnheard, EmptyList DEF CallStands, Unheard

\* A step of a call keeps it where it stands.
Stepped(j) == status = "running" /\ \E r : SetJob(j, r) /\ CallStands(j, r, world)

LEMMA LocalCalls ==
    ASSUME Ready, LocalInv, HeardInv, NEW j \in DOMAIN job, Scan(j) \/ Claim(j) \/ Settle(j)
    PROVE  Stepped(j)
<1> DEFINE old == job[j]
<1>1. CallStands(j, old, world) /\ IsJob(old) /\ status = "running"
  BY DEF HeardInv, LocalInv, JobStands, Scan, Claim, Settle, Open
<1>2. j[1] \in Local
  <2>1. CASE Scan(j)
    BY <2>1 DEF Scan
  <2>2. CASE Claim(j) \/ Settle(j)
    <3>1. old.at = "claiming"
      BY <2>2 DEF Claim, Settle, Open
    <3> QED BY <1>1, <3>1 DEF CallStands
  <2> QED BY <2>1, <2>2
<1>3. SUFFICES \E r : SetJob(j, r) /\ IsSeqOf(r.matches)
  BY <1>1, <1>2 DEF Stepped, CallStands
<1>4. CASE Scan(j)
  <2> DEFINE C == CandidatesOf(j, world, over)
             empty == [Fresh EXCEPT !.at = "done", !.matches = <<>>]
             scanned == [Fresh EXCEPT !.at = "claiming", !.queue = C]
  <2>1. SetJob(j, empty) \/ SetJob(j, scanned)
    <3>1. StrategyOf(world, over) \in Strategies
      BY OverridesTyped DEF LocalInv, Ready
    <3> QED BY <1>4, <3>1 DEF Scan, Done
  <2>2. empty.matches = <<>>
    <3> DEFINE q == <<>>
               at == "done"
               s == [Fresh EXCEPT !.at = at, !.matches = q]
    <3>1. s.matches = q
      <4> HIDE DEF q, at
      <4> QED BY FreshUnheard DEF IsJob, JobFields
    <3> QED BY <3>1
  <2>3. scanned.matches = <<>>
    <3> HIDE DEF C
    <3> QED BY FreshUnheard, JobMatches
  <2> HIDE DEF empty, scanned
  <2> QED BY <2>1, <2>2, <2>3, EmptyList
<1>5. CASE Claim(j)
  <2> DEFINE c == Head(old.queue)
             m == Match(c.value, c.type)
             skips == [old EXCEPT !.queue = Tail(@)]
             claims == [old EXCEPT !.queue = Tail(@), !.claimed = @ \cup {c}, !.matches = Append(@, m)]
  <2>1. SetJob(j, skips) \/ SetJob(j, claims)
    BY <1>5 DEF Claim
  <2> HIDE DEF c, m, old
  <2>2. skips.matches = old.matches /\ claims.matches = Append(old.matches, m)
    BY <1>1, JobMatches
  <2> HIDE DEF skips, claims
  <2>3. IsSeqOf(old.matches) /\ IsSeqOf(Append(old.matches, m))
    BY <1>1, AppendAny DEF CallStands
  <2> QED BY <2>1, <2>2, <2>3
<1>6. CASE Settle(j)
  <2> DEFINE settled == [old EXCEPT !.at = "done"]
  <2>1. SetJob(j, settled)
    BY <1>6 DEF Settle
  <2> HIDE DEF old
  <2>2. settled.matches = old.matches
    BY <1>1, JobMatches
  <2> QED BY <1>1, <2>1, <2>2 DEF CallStands
<1> QED BY <1>4, <1>5, <1>6

\* A call that fails: fail-closed it failed, else it is done with nothing.
LEMMA FailStands ==
    ASSUME NEW r, IsJob(r), NEW d
    PROVE  LET s == Fail(r, d)
           IN /\ s.at \in {"done", "failed"} /\ (s.at = "done" => d \notin world.closed)
              /\ s.matches = <<>> /\ s.reply = r.reply /\ s.how = r.how
<1> DEFINE at == IF d \in world.closed THEN "failed" ELSE "done"
           q == <<>>
           s == [r EXCEPT !.at = at, !.matches = q]
<1>1. at \in {"done", "failed"} /\ (at = "done" => d \notin world.closed)
  OBVIOUS
<1>2. s = Fail(r, d)
  BY DEF Fail
<1> HIDE DEF at, q
<1>3. s.at = at /\ s.matches = q /\ s.reply = r.reply /\ s.how = r.how
  BY DEF IsJob, JobFields
<1> QED BY <1>1, <1>2, <1>3 DEF q

LEMMA PostStands ==
    ASSUME NEW j \in DOMAIN job, Post(j)
    PROVE  Stepped(j)
<1> DEFINE t == TextOf(world, j)
           sent == <<Request(j[1], t, over, world), ApiKey(world)>>
           late == [Fresh EXCEPT !.how = "unavailable"]
           posted == [Fresh EXCEPT !.at = "posted", !.sent = sent]
<1>1. status = "running" /\ j[1] \notin Local
  BY DEF Post, Open
<1>2. \/ Blankish(t) /\ SetJob(j, Done(Fresh, <<>>))
      \/ j[1] = "llm" /\ SetJob(j, Fail(late, "llm"))
      \/ SetJob(j, posted)
  BY DEF Post
<1>3. CASE Blankish(t) /\ SetJob(j, Done(Fresh, <<>>))
  <2> DEFINE q == <<>>
             s == [Fresh EXCEPT !.at = "done", !.matches = q]
  <2>1. SetJob(j, s)
    BY <1>3 DEF Done
  <2>2. s.at = "done" /\ s.matches = q /\ s.reply = NoReply
    <3> DEFINE at == "done"
    <3>1. LET r == [Fresh EXCEPT !.at = at, !.matches = q] IN r.at = at /\ r.matches = q /\ r.reply = Fresh.reply
      <4> HIDE DEF q, at
      <4> QED BY FreshUnheard DEF IsJob, JobFields
    <3> QED BY <3>1, FreshUnheard
  <2>3. CallStands(j, s, world)
    <3> HIDE DEF s, t
    <3> QED BY <1>3, <2>2, EmptyList DEF CallStands, Unheard, t
  <2> QED BY <1>1, <2>1, <2>3 DEF Stepped
<1>4. CASE j[1] = "llm" /\ SetJob(j, Fail(late, "llm"))
  <2>1. IsJob(late) /\ late.reply = NoReply
    BY FreshUnheard, JobLate
  <2> HIDE DEF late
  <2> DEFINE s == Fail(late, "llm")
  <2>2. /\ s.at \in {"done", "failed"} /\ (s.at = "done" => "llm" \notin world.closed)
        /\ s.matches = <<>> /\ s.reply = NoReply
    BY <2>1, FailStands
  <2> HIDE DEF s
  <2>3. CallStands(j, s, world)
    BY <1>4, <2>2, EmptyList DEF CallStands, Unheard
  <2> QED BY <1>1, <1>4, <2>3 DEF Stepped, s
<1>5. CASE SetJob(j, posted)
  <2>1. posted.at = "posted" /\ posted.reply = NoReply /\ posted.matches = <<>>
    <3> HIDE DEF sent
    <3> QED BY FreshUnheard, JobSent
  <2> HIDE DEF posted
  <2>2. CallStands(j, posted, world)
    BY <2>1, EmptyList DEF CallStands, Unheard
  <2> QED BY <1>1, <1>5, <2>2 DEF Stepped
<1> QED BY <1>2, <1>3, <1>4, <1>5

\* Any reply comes to a sequence of matches, if it comes to matches at all.
LEMMA OutcomeListed ==
    ASSUME NEW d, NEW reply, NEW t, IsSeqOf(t), ReadyReply(d, reply), Outcome(d, reply, t).how = "found"
    PROVE  IsSeqOf(Outcome(d, reply, t).matches)
<1>1. CASE d \in Services
  BY <1>1, ServiceOutcome
<1>2. CASE d \notin Services
  BY <1>2, SpansOutcome
<1> QED BY <1>1, <1>2

\* What a call of a service may hear.
LEMMA RepliesListed ==
    ASSUME Ready, LocalInv, NEW j \in DOMAIN job, j[1] \notin Local
    PROVE  IsSeqOf(TextOf(world, j)) /\ \A reply \in Replies[j[1]] : ReadyReply(j[1], reply)
<1>1. ReadyWorld(world) /\ world \in Worlds /\ Overridden(world, over) /\ j \in Jobs(world, over)
  BY DEF LocalInv, Ready
<1>2. IsSeqOf(TextOf(world, j))
  BY <1>1, TextTyped
<1>3. j[1] \in ToSet(world.configured)
  BY <1>1, JobsTyped
<1>4. j[1] \in DOMAIN Replies
  BY <1>1, <1>3, RepliesReady
<1> QED BY <1>2, <1>4, RepliesReady

LEMMA HearStands ==
    ASSUME Ready, LocalInv, HeardInv, NEW j \in DOMAIN job, job[j].at = "posted",
           NEW reply \in Replies[j[1]], Hear(j, reply)
    PROVE  Stepped(j)
<1> DEFINE t == TextOf(world, j)
           old == job[j]
           outcome == Outcome(j[1], reply, t)
           heard == [old EXCEPT !.how = outcome.how, !.reply = reply]
<1>1. status = "running" /\ IsJob(old) /\ JobStands(j, old, world, over)
  BY DEF Hear, Open, LocalInv, JobStands
<1>2. j[1] \notin Local
  BY <1>1 DEF JobStands, LocalStands
<1>3. outcome.how = "found" => IsSeqOf(outcome.matches)
  BY <1>2, RepliesListed, OutcomeListed
<1>4. IsJob(heard) /\ heard.how = outcome.how /\ heard.reply = reply
  <2> HIDE DEF outcome, old
  <2> QED BY <1>1 DEF IsJob, JobFields
<1>5. SetJob(j, IF outcome.how = "found" THEN Done(heard, outcome.matches) ELSE Fail(heard, j[1]))
  BY DEF Hear
<1> HIDE DEF heard
<1>6. CASE outcome.how = "found"
  <2> DEFINE s == Done(heard, outcome.matches)
  <2>1. s.at = "done" /\ s.matches = outcome.matches /\ s.reply = reply /\ s.how = outcome.how
    <3> DEFINE ms == outcome.matches
               at == "done"
    <3>1. LET r == [heard EXCEPT !.at = at, !.matches = ms]
          IN r.at = at /\ r.matches = ms /\ r.reply = heard.reply /\ r.how = heard.how
      <4> HIDE DEF ms, at
      <4> QED BY <1>4 DEF IsJob, JobFields
    <3> HIDE DEF outcome
    <3> QED BY <1>4, <3>1 DEF Done
  <2> HIDE DEF s
  <2>2. Heard(j, s, world)
    BY <1>6, <2>1 DEF Heard
  <2>3. CallStands(j, s, world)
    <3> HIDE DEF outcome
    <3> QED BY <1>3, <1>6, <2>1, <2>2 DEF CallStands
  <2>4. SetJob(j, s)
    BY <1>5, <1>6 DEF s
  <2> QED BY <1>1, <2>3, <2>4 DEF Stepped
<1>7. CASE outcome.how # "found"
  <2> DEFINE s == Fail(heard, j[1])
  <2>1. /\ s.at \in {"done", "failed"} /\ (s.at = "done" => j[1] \notin world.closed)
        /\ s.matches = <<>> /\ s.reply = reply /\ s.how = outcome.how
    <3> HIDE DEF outcome
    <3> QED BY <1>4, FailStands
  <2> HIDE DEF s
  <2>2. Heard(j, s, world)
    BY <1>7, <2>1 DEF Heard
  <2>3. CallStands(j, s, world)
    <3> HIDE DEF outcome
    <3> QED BY <2>1, <2>2, EmptyList DEF CallStands
  <2>4. SetJob(j, s)
    BY <1>5, <1>7 DEF s
  <2> QED BY <1>1, <2>3, <2>4 DEF Stepped
<1> QED BY <1>6, <1>7

LEMMA HeardInitial == Init => HeardInv
<1> SUFFICES ASSUME Init PROVE HeardInv
  OBVIOUS
<1>1. DOMAIN job = {} /\ status = "new"
  BY DEF Init
<1> QED BY <1>1 DEF HeardInv

LEMMA UnionSame ==
    ASSUME world' = world, over' = over, job' = job
    PROVE  Union(world, over)' = Union(world, over)
BY DEF Union

LEMMA HeardKept ==
    ASSUME Ready
    PROVE  LocalInv /\ HeardInv /\ [Next]_vars => HeardInv'
<1> SUFFICES ASSUME LocalInv, HeardInv, [Next]_vars PROVE HeardInv'
  OBVIOUS
<1>1. ASSUME NEW j \in DOMAIN job, Stepped(j) PROVE HeardInv'
  <2>1. PICK r : SetJob(j, r) /\ CallStands(j, r, world)
    BY <1>1 DEF Stepped
  <2>2. /\ world' = world /\ over' = over /\ status' = status /\ DOMAIN job' = DOMAIN job
        /\ \A k \in DOMAIN job : job'[k] = IF k = j THEN r ELSE job[k]
    BY <2>1 DEF SetJob
  <2>3. \A k \in DOMAIN job' : CallStands(k, job'[k], world)
    BY <2>1, <2>2 DEF HeardInv
  <2>4. status' = "running" /\ DOMAIN job' = Jobs(world, over)
    BY <1>1, <2>2 DEF Stepped, HeardInv
  <2> QED BY <2>2, <2>3, <2>4 DEF HeardInv
<1>2. CASE Receive
  <2> DEFINE o == ParseOverrides(world.raw)
  <2>1. world' = world /\ over' = o /\ job' = [j \in Jobs(world, o) |-> Fresh] /\ status' = "running"
    BY <1>2 DEF Receive, Jobs
  <2> HIDE DEF o
  <2>2. DOMAIN job' = Jobs(world, o) /\ \A j \in DOMAIN job' : CallStands(j, job'[j], world)
    BY <2>1, FreshCall
  <2> QED BY <2>1, <2>2 DEF HeardInv
<1>3. CASE Refuse \/ Trip \/ Block \/ UNCHANGED vars
  <2>1. /\ world' = world /\ over' = over /\ job' = job
        /\ status' \in {"refused", "failed"} \/ (status' = "blocked" /\ status = "running")
             \/ (status' = status /\ found' = found)
    BY <1>3 DEF Refuse, Trip, Block, vars
  <2>2. \A j \in DOMAIN job' : CallStands(j, job'[j], world')
    BY <2>1 DEF HeardInv
  <2>3. status' \in {"running", "released", "blocked"} => DOMAIN job' = Jobs(world', over')
    BY <2>1 DEF HeardInv
  <2>4. status' = "released" => status = "released" /\ found' = found /\ Union(world, over)' = Union(world, over)
    <3>1. status' = "released" => status = "released" /\ found' = found
      BY <2>1
    <3>2. Union(world, over)' = Union(world, over)
      BY <2>1, UnionSame
    <3> QED BY <3>1, <3>2
  <2> QED BY <2>1, <2>2, <2>3, <2>4 DEF HeardInv
<1>4. CASE Release
  <2>1. /\ world' = world /\ over' = over /\ job' = job /\ status = "running"
        /\ found' = Union(world, over) /\ \A j \in DOMAIN job : job[j].at = "done"
    BY <1>4 DEF Release
  <2>2. Union(world, over)' = Union(world, over)
    BY <2>1, UnionSame
  <2> QED BY <2>1, <2>2 DEF HeardInv
<1>5. ASSUME NEW j \in DOMAIN job, Scan(j) \/ Claim(j) \/ Settle(j) \/ Post(j) PROVE HeardInv'
  BY <1>1, <1>5, LocalCalls, PostStands
<1>6. ASSUME NEW j \in DOMAIN job, job[j].at = "posted", NEW reply \in Replies[j[1]], Hear(j, reply)
      PROVE  HeardInv'
  BY <1>1, <1>6, HearStands
<1> QED BY <1>2, <1>3, <1>4, <1>5, <1>6 DEF Next

\* Every call stands where the reply it heard, if any, puts it, and what is let
\* through is the union of what all calls found.
THEOREM HeardInvariant == Spec => []HeardInv
<1>1. Ready
  BY WorldsReady
<1> QED BY <1>1, LocalInvariant, HeardInitial, HeardKept, PTL DEF Spec

-----------------------------------------------------------------------------
(* What the overrides come to.                                               *)

\* A step of a call of a running request keeps what it asked for.
LEMMA StepAsks ==
    ASSUME LocalInv, AskedInv, NEW j \in DOMAIN job,
           \/ Scan(j) \/ Claim(j) \/ Settle(j) \/ Post(j) \/ \E reply : Hear(j, reply)
    PROVE  \E r : SetJob(j, r) /\ ThresholdStands(j, r, world)
<1> DEFINE old == job[j]
<1>1. IsJob(old) /\ ThresholdStands(j, old, world)
  BY DEF LocalInv, JobStands, AskedInv
<1>2. IsJob(Fresh) /\ Fresh.sent = <<>>
  BY FreshJob DEF Fresh
<1>3. ASSUME NEW r, SetJob(j, r), r.sent = old.sent \/ r.sent = <<>>
      PROVE  \E s : SetJob(j, s) /\ ThresholdStands(j, s, world)
  BY <1>1, <1>3 DEF ThresholdStands
<1>4. ASSUME NEW r, IsJob(r) PROVE \A d : Fail(r, d).sent = r.sent
  <2> TAKE d
  <2> DEFINE at == IF d \in world.closed THEN "failed" ELSE "done"
  <2>1. [r EXCEPT !.at = at, !.matches = <<>>].sent = r.sent
    <3> HIDE DEF at
    <3> QED BY <1>4, SentKept
  <2> QED BY <2>1 DEF Fail
<1>5. ASSUME NEW r, IsJob(r) PROVE \A q : Done(r, q).sent = r.sent
  BY <1>5, SentKept DEF Done
<1>6. CASE Scan(j)
  <2> DEFINE C == CandidatesOf(j, world, over)
             tripped == [Fresh EXCEPT !.at = "done", !.how = "crash"]
             scanned == [Fresh EXCEPT !.at = "claiming", !.queue = C]
  <2>1. SetJob(j, Done(Fresh, <<>>)) \/ SetJob(j, tripped) \/ SetJob(j, scanned)
    BY <1>6 DEF Scan
  <2>2. Done(Fresh, <<>>).sent = <<>> /\ tripped.sent = <<>> /\ scanned.sent = <<>>
    <3> HIDE DEF C
    <3> QED BY <1>2, <1>5, SentKept
  <2> HIDE DEF tripped, scanned
  <2> QED BY <1>3, <2>1, <2>2
<1>7. CASE Claim(j)
  <2> DEFINE c == Head(old.queue)
             q == Tail(old.queue)
             spans == old.claimed \cup {c}
             ms == Append(old.matches, Match(c.value, c.type))
             skips == [old EXCEPT !.queue = q]
             claims == [old EXCEPT !.queue = q, !.claimed = spans, !.matches = ms]
  <2>1. SetJob(j, skips) \/ SetJob(j, claims)
    BY <1>7 DEF Claim
  <2> HIDE DEF c, q, spans, ms, old
  <2>2. skips.sent = old.sent /\ claims.sent = old.sent
    BY <1>1, SentKept
  <2> HIDE DEF skips, claims
  <2> QED BY <1>3, <2>1, <2>2
<1>8. CASE Settle(j)
  <2> DEFINE settled == [old EXCEPT !.at = "done"]
  <2>1. SetJob(j, settled)
    BY <1>8 DEF Settle
  <2> HIDE DEF old
  <2>2. settled.sent = old.sent
    BY <1>1, SentKept
  <2> HIDE DEF settled
  <2> QED BY <1>3, <2>1, <2>2
<1>9. CASE Post(j)
  <2> DEFINE asked == Request(j[1], TextOf(world, j), over, world)
             sent == <<asked, ApiKey(world)>>
             late == [Fresh EXCEPT !.how = "unavailable"]
             posted == [Fresh EXCEPT !.at = "posted", !.sent = sent]
  <2>1. /\ status = "running"
        /\ SetJob(j, Done(Fresh, <<>>)) \/ SetJob(j, Fail(late, "llm")) \/ SetJob(j, posted)
    BY <1>9 DEF Post, Open
  <2>2. j[1] = "gliner_pii" => asked.threshold = Effective(AskedThreshold(world.raw), world.threshold)
    <3>1. IsRaw(world.raw) /\ over = ParseOverrides(world.raw)
      BY <2>1, WorldsReady DEF AskedInv, LocalInv, Ready, ReadyWorld
    <3>2. over.gliner_threshold = AskedThreshold(world.raw)
      BY <3>1, ThresholdParsed
    <3> QED BY <3>2 DEF Request
  <2> HIDE DEF asked
  <2>3. posted.sent = sent /\ sent[1] = asked
    <3>1. sent[1] = asked
      OBVIOUS
    <3> HIDE DEF sent
    <3> QED BY <1>2, <3>1, SentKept
  <2>4. IsJob(late) /\ late.sent = <<>>
    BY <1>2, JobPosts, SentKept
  <2> HIDE DEF posted, sent, late
  <2>5. Done(Fresh, <<>>).sent = <<>> /\ Fail(late, "llm").sent = <<>>
    BY <1>2, <1>4, <1>5, <2>4
  <2>6. ThresholdStands(j, posted, world)
    BY <2>2, <2>3 DEF ThresholdStands
  <2> QED BY <1>3, <2>1, <2>5, <2>6
<1>10. ASSUME NEW reply, Hear(j, reply)
       PROVE  \E r : SetJob(j, r) /\ ThresholdStands(j, r, world)
  <2> DEFINE outcome == Outcome(j[1], reply, TextOf(world, j))
             how == outcome.how
             heard == [old EXCEPT !.how = how, !.reply = reply]
  <2>1. SetJob(j, Done(heard, outcome.matches)) \/ SetJob(j, Fail(heard, j[1]))
    BY <1>10 DEF Hear
  <2>2. IsJob(heard) /\ heard.sent = old.sent
    <3> HIDE DEF how, old
    <3>1. IsJob(heard)
      BY <1>1, JobPosts
    <3>2. heard.sent = old.sent
      BY <1>1, SentKept
    <3> QED BY <3>1, <3>2
  <2> HIDE DEF heard, outcome
  <2>3. Done(heard, outcome.matches).sent = old.sent /\ Fail(heard, j[1]).sent = old.sent
    BY <1>4, <1>5, <2>2
  <2> QED BY <1>3, <2>1, <2>3
<1> QED BY <1>6, <1>7, <1>8, <1>9, <1>10

LEMMA AskedInitial == Init => AskedInv
<1> SUFFICES ASSUME Init PROVE AskedInv
  OBVIOUS
<1>1. DOMAIN job = {} /\ status = "new"
  BY DEF Init
<1> QED BY <1>1 DEF AskedInv

LEMMA AskedKept == LocalInv /\ AskedInv /\ [Next]_vars => AskedInv'
<1> SUFFICES ASSUME LocalInv, AskedInv, [Next]_vars PROVE AskedInv'
  OBVIOUS
<1>1. ASSUME NEW j \in DOMAIN job, NEW r, SetJob(j, r), ThresholdStands(j, r, world) PROVE AskedInv'
  <2>1. /\ world' = world /\ over' = over /\ status' = status /\ DOMAIN job' = DOMAIN job
        /\ \A k \in DOMAIN job : job'[k] = IF k = j THEN r ELSE job[k]
    BY <1>1 DEF SetJob
  <2>2. \A k \in DOMAIN job' : ThresholdStands(k, job'[k], world')
    BY <1>1, <2>1 DEF AskedInv
  <2> QED BY <2>1, <2>2 DEF AskedInv
<1>2. CASE Receive
  <2> DEFINE o == ParseOverrides(world.raw)
  <2>1. /\ world' = world /\ over' = o /\ job' = [j \in Jobs(world, o) |-> Fresh]
        /\ status' = "running" /\ ~ParseRaises(world.raw)
    BY <1>2 DEF Receive, Jobs
  <2>2. Fresh.sent = <<>>
    BY DEF Fresh
  <2>3. \A j \in DOMAIN job' : ThresholdStands(j, job'[j], world')
    <3> HIDE DEF o
    <3> QED BY <2>1, <2>2 DEF ThresholdStands
  <2> QED BY <2>1, <2>3 DEF AskedInv
<1>3. CASE Refuse \/ Trip \/ Release \/ Block \/ UNCHANGED vars
  <2>1. /\ world' = world /\ over' = over /\ job' = job
        /\ \/ status' = "refused" \/ (status' = "failed" /\ ParseRaises(world.raw))
           \/ (status' \in {"released", "blocked"} /\ status = "running") \/ status' = status
    BY <1>3 DEF Refuse, Trip, Release, Block, vars
  <2> QED BY <2>1 DEF AskedInv
<1>4. ASSUME NEW j \in DOMAIN job,
             Scan(j) \/ Claim(j) \/ Settle(j) \/ Post(j) \/ \E reply : Hear(j, reply)
      PROVE  AskedInv'
  BY <1>1, <1>4, StepAsks
<1> QED BY <1>2, <1>3, <1>4 DEF Next

\* Whatever a client puts in its overrides: only an integer too large for a float
\* ends its request, and that one always does (api.py:143).  Else no local detector
\* trips, a nonempty choice of the configured detectors runs, each once, and the
\* service is asked for the client's threshold if that is a number in range.
THEOREM NoOverrideHarms == Spec => []OverridesHarmless
<1>1. LocalInv /\ AskedInv => OverridesHarmless
  <2>0. Ready
    BY WorldsReady
  <2> SUFFICES ASSUME LocalInv, AskedInv PROVE OverridesHarmless
    OBVIOUS
  <2>1. ReadyWorld(world) /\ Overridden(world, over)
    BY <2>0 DEF LocalInv, Ready
  <2>2. ASSUME NEW j \in DOMAIN job, j[1] \in Local PROVE job[j].how # "crash"
    BY <2>2 DEF LocalInv, JobStands, LocalStands
  <2>3. ActiveDetectors(world, over) # <<>> /\ IsInjective(ActiveDetectors(world, over))
    BY <2>1, ActiveTyped
  <2>4. \A j \in DOMAIN job : j[1] \in ToSet(world.configured)
    BY <2>1, JobsTyped DEF LocalInv
  <2>5. ASSUME NEW j \in DOMAIN job, j[1] = "gliner_pii", job[j].sent # <<>>
        PROVE  job[j].sent[1].threshold = Effective(AskedThreshold(world.raw), world.threshold)
    BY <2>5 DEF AskedInv, ThresholdStands
  <2>6. status \in {"failed", "running", "released", "blocked"} =>
          (status = "failed" <=> ParseRaises(world.raw))
    BY DEF AskedInv
  <2> QED BY <2>2, <2>3, <2>4, <2>5, <2>6 DEF OverridesHarmless
<1>2. Spec => []AskedInv
  BY LocalInvariant, AskedInitial, AskedKept, PTL DEF Spec
<1> QED BY <1>1, <1>2, LocalInvariant, PTL

-----------------------------------------------------------------------------
(* What the invariant says of the services.                                  *)

LEMMA HeardOf ==
    ASSUME Ready, LocalInv, HeardInv, NEW j \in DOMAIN job, j[1] \notin Local,
           job[j].at = "done"
    PROVE  LET reply == job[j].reply
               t == TextOf(world, j)
               outcome == Outcome(j[1], reply, t)
           IN \/ reply.kind = "none" /\ (j[1] \notin world.closed \/ Blankish(t))
              \/ /\ ReadyReply(j[1], reply) /\ job[j].how = outcome.how
                 /\ IF outcome.how = "found" THEN job[j].matches = outcome.matches
                    ELSE j[1] \notin world.closed
<1>1. Unheard(j, job[j], world) \/ Heard(j, job[j], world)
  BY DEF HeardInv, CallStands
<1>2. CASE Unheard(j, job[j], world)
  BY <1>2 DEF Unheard, NoReply, Reply
<1>3. CASE Heard(j, job[j], world)
  <2>1. job[j].reply \in Replies[j[1]]
    BY <1>3 DEF Heard
  <2>2. ReadyReply(j[1], job[j].reply)
    BY <2>1, RepliesListed
  <2> QED BY <1>3, <2>2 DEF Heard
<1> QED BY <1>1, <1>2, <1>3

\* A request is let through only with an answer of each fail-closed service it
\* asked, and what an answer reports is going to be anonymized (llm.py).
THEOREM ReportedFound == Spec => []ReportedIsFound
<1>1. Ready
  BY WorldsReady
<1>2. LocalInv /\ HeardInv => ReportedIsFound
  <2> SUFFICES ASSUME LocalInv, HeardInv, status = "released", NEW j \in DOMAIN job, j[1] \in Services
               PROVE  LET reply == job[j].reply
                          t == TextOf(world, j)
                      IN /\ j[1] \in world.closed /\ ~Blankish(t) => Answered(j[1], reply)
                         /\ Answered(j[1], reply) =>
                              \A q \in EntriesOf(j[1], reply.body) : \A x \in ToSet(Objects(Val(q))) :
                                LET v == EntryText(x)
                                IN ToSet(v) \ Punctuation # {} /\ Occurs(v, t) /\ SEP \notin ToSet(v) =>
                                     \E i \in DOMAIN found : StandsFor(found[i].text, v)
    BY DEF ReportedIsFound, EntryText, Services
  <2> DEFINE d == j[1]
             reply == job[j].reply
             t == TextOf(world, j)
             outcome == Outcome(d, reply, t)
  <2>1. j[1] \notin Local
    BY DEF Services, Local
  <2>2. /\ job[j].at = "done" /\ found = Union(world, over) /\ DOMAIN job = Jobs(world, over)
        /\ \A k \in DOMAIN job : IsSeqOf(job[k].matches)
    BY DEF HeardInv, CallStands
  <2>3. \/ reply.kind = "none" /\ (d \notin world.closed \/ Blankish(t))
        \/ /\ ReadyReply(d, reply)
           /\ IF outcome.how = "found" THEN job[j].matches = outcome.matches
              ELSE d \notin world.closed
    BY <1>1, <2>1, <2>2, HeardOf
  <2>4. Answered(d, reply) => reply.kind = "json"
    BY DEF Answered
  <2>5. ReadyReply(d, reply) =>
          /\ Answered(d, reply) <=> outcome.how = "found"
          /\ outcome.how = "found" => \A q \in EntriesOf(d, reply.body) : Parsed(q, t, outcome.matches)
    BY ServiceOutcome
  <2> HIDE DEF outcome
  <2>6. d \in world.closed /\ ~Blankish(t) => Answered(d, reply)
    BY <2>3, <2>5
  <2>7. ASSUME Answered(d, reply), NEW q \in EntriesOf(d, reply.body), NEW x \in ToSet(Objects(Val(q))),
               ToSet(EntryText(x)) \ Punctuation # {}, Occurs(EntryText(x), t), SEP \notin ToSet(EntryText(x))
        PROVE  \E i \in DOMAIN found : StandsFor(found[i].text, EntryText(x))
    <3> DEFINE v == EntryText(x)
               ms == job[j].matches
    <3>1. Parsed(q, t, ms)
      BY <2>3, <2>4, <2>5, <2>7
    <3>2. IsSeqOf(v) /\ (v # <<>> /\ Occurs(v, t) => \E i \in DOMAIN ms : \E type : ms[i] = Match(v, type))
      BY <2>7, <3>1 DEF Parsed
    <3>3. v # <<>>
      <4>1. ToSet(<<>>) = {}
        BY DEF ToSet
      <4> QED BY <2>7, <4>1
    <3>4. PICK i \in DOMAIN ms : \E type : ms[i] = Match(v, type)
      BY <2>7, <3>2, <3>3
    <3>10. PICK type : ms[i] = Match(v, type)
      BY <3>4
    <3> DEFINE m == ms[i]
    <3>5. m \in ToSet(ms)
      BY DEF ToSet
    <3>6. m.text # <<>> /\ ToSet(m.text) \subseteq ToSet(v) /\ StandsFor(m.text, v)
      BY <2>7, <3>2, <3>10, MatchStands
    <3> HIDE DEF v, m, t
    <3>7. SEP \notin ToSet(m.text)
      BY <2>7, <3>6 DEF v
    <3>8. ReadyWorld(world) /\ Overridden(world, over)
      BY <1>1 DEF Ready, LocalInv
    <3>9. Keeps(Union(world, over), m)
      BY <2>2, <3>5, <3>6, <3>7, <3>8, UnionKeeps
    <3> QED BY <2>2, <3>6, <3>9 DEF Keeps, v
  <2> QED BY <2>6, <2>7
<1> QED BY <1>1, <1>2, LocalInvariant, HeardInvariant, PTL

\* What the privacy filter reports runs across no paragraph break, and no
\* character of a usable span is lost but blanks (remote_privacy_filter.py).
THEOREM ParagraphsKept == Spec => []ParagraphsRespected
<1>1. Ready
  BY WorldsReady
<1>2. LocalInv /\ HeardInv => ParagraphsRespected
  <2> SUFFICES ASSUME LocalInv, HeardInv, NEW j \in Ended("privacy_filter", "found"),
                      job[j].reply.kind = "json"
               PROVE  LET t == TextOf(world, j)
                          spans == {s \in ToSet(RawSpans(job[j].reply.body)) : s.label # "" /\ Usable(s, t)}
                          pieces == ToSet(Pieces(RawSpans(job[j].reply.body), t))
                      IN /\ \A m \in ToSet(job[j].matches) : ~Breaks(m.text)
                         /\ \A s \in spans : \A i \in (s.start + 1)..s.end :
                              t[i] \notin Blank => \E p \in pieces : p.start < i /\ i <= p.end
    BY DEF ParagraphsRespected
  <2> DEFINE d == j[1]
             reply == job[j].reply
             t == TextOf(world, j)
             outcome == Outcome(d, reply, t)
  <2>1. j \in DOMAIN job /\ d = "privacy_filter" /\ job[j].at = "done" /\ job[j].how = "found"
    BY DEF Ended
  <2>2. d \notin Local /\ d \notin Services
    BY <2>1 DEF Local, Services
  <2>3. ReadyReply(d, reply) /\ outcome.how = "found" /\ job[j].matches = outcome.matches
    BY <1>1, <2>1, <2>2, HeardOf
  <2>4. IsSeqOf(t)
    BY <1>1, <2>1, <2>2, RepliesListed
  <2>5. LET spans == RawSpans(reply.body)
            pieces == Pieces(spans, t)
        IN /\ \A m \in ToSet(outcome.matches) : ~Breaks(m.text)
           /\ \A s \in ToSet(spans) : s.label # "" /\ Usable(s, t) =>
                \A i \in (s.start + 1)..s.end :
                    t[i] # "\n" => \E p \in ToSet(pieces) : p.start < i /\ i <= p.end
    BY <2>2, <2>3, <2>4, SpansOutcome
  <2>6. "\n" \in Blank
    BY DEF Blank
  <2> HIDE DEF outcome, t
  <2> QED BY <2>3, <2>5, <2>6 DEF t
<1> QED BY <1>1, <1>2, LocalInvariant, HeardInvariant, PTL
=============================================================================
