--------------------------- MODULE Streaming_proofs ---------------------------
(***************************************************************************)
(* Theorems of Streaming for any replies, cuts, completions and entries    *)
(* with the shape of opaque surrogates: what a client was shown is never   *)
(* taken back; and for entries of any shape, it holds no surrogate.        *)
(***************************************************************************)
EXTENDS Streaming, SequenceTheorems, WellFoundedInduction, TLAPS

LEMMA LeastExists ==
    ASSUME NEW T \in SUBSET Nat, T # {}
    PROVE  \E n \in T : \A k \in T : n <= k
<1>1. PICK n \in T : \A k \in T : ~(<<k, n>> \in OpToRel(<, Nat))
  BY NatLessThanWellFounded, WFMin
<1>2. \A k \in T : ~(k < n)
  BY <1>1 DEF OpToRel
<1>3. n \in Nat /\ \A k \in T : k \in Nat
  OBVIOUS
<1> QED BY <1>2, <1>3

\* The same from above.
LEMMA GreatestExists ==
    ASSUME NEW N \in Nat, NEW T \in SUBSET (0..N), T # {}
    PROVE  \E n \in T : \A k \in T : k <= n
<1> DEFINE U == {m \in Nat : N - m \in T}
<1>1. U \in SUBSET Nat /\ U # {}
  <2>1. PICK k : k \in T
    OBVIOUS
  <2>2. k \in 0..N /\ N - k \in Nat /\ N - (N - k) = k
    BY <2>1
  <2> QED BY <2>1, <2>2
<1>2. PICK m \in U : \A k \in U : m <= k
  <2> HIDE DEF U
  <2> QED BY <1>1, LeastExists
<1>3. N - m \in T
  BY <1>2
<1>4. ASSUME NEW k \in T PROVE k <= N - m
  <2>1. k \in 0..N /\ N - k \in Nat /\ N - (N - k) = k
    OBVIOUS
  <2>2. N - k \in U
    BY <2>1
  <2> QED BY <1>2, <2>1, <2>2
<1> QED BY <1>3, <1>4

-----------------------------------------------------------------------------
(* Replace, unfolded.                                                        *)

Longest(text, i, entry) ==
    CHOOSE k \in KeysAt(text, i, entry) : \A j \in KeysAt(text, i, entry) : Len(j) <= Len(k)

\* What the pass yields from the place i on, when f is what it yields behind.
Piece(text, entry, f, i) ==
    IF i > Len(text) THEN <<>>
    ELSE IF KeysAt(text, i, entry) = {} THEN <<text[i]>> \o f[i + 1]
    ELSE entry[Longest(text, i, entry)] \o f[i + Len(Longest(text, i, entry))]

ReplacedFrom(text, entry, f, n) ==
    f = [i \in n..(Len(text) + 1) |-> Piece(text, entry, f, i)]

\* Surrogates and originals are texts, no surrogate is empty.
EntryOver(S, entry) ==
    /\ DOMAIN entry \subseteq Seq(S) \ {<<>>}
    /\ \A k \in DOMAIN entry : entry[k] \in Seq(S)

\* The key stands in the text at place i.
Stands(k, text, i) == /\ i + Len(k) <= Len(text) + 1
                      /\ \A j \in 1..Len(k) : k[j] = text[i + j - 1]

\* A key that matches lies within the text.
LEMMA KeyFits ==
    ASSUME NEW S, NEW text \in Seq(S), NEW entry, EntryOver(S, entry),
           NEW i \in 1..Len(text), NEW k \in Seq(S) \ {<<>>}
    PROVE  /\ Len(k) \in Nat \ {0} /\ Len(text) \in Nat
           /\ IsPrefix(k, SubSeq(text, i, Len(text))) <=> Stands(k, text, i)
<1> DEFINE rest == SubSeq(text, i, Len(text))
<1>1. Len(k) \in Nat /\ Len(text) \in Nat /\ i \in Nat /\ Len(k) # 0
  BY EmptySeq, LenProperties
<1>2. /\ rest \in Seq(S) /\ Len(rest) = Len(text) - i + 1
      /\ \A j \in 1..Len(rest) : rest[j] = text[i + j - 1]
  BY <1>1, SubSeqProperties
<1> HIDE DEF rest
<1>3. Len(k) <= Len(rest) <=> i + Len(k) <= Len(text) + 1
  BY <1>1, <1>2
<1>4. ASSUME Len(k) <= Len(rest)
      PROVE  SubSeq(k, 1, Len(k)) = SubSeq(rest, 1, Len(k))
               <=> \A j \in 1..Len(k) : k[j] = text[i + j - 1]
  <2>1. SubSeq(k, 1, Len(k)) = k
    BY <1>1, SubSeqFull
  <2>2. /\ SubSeq(rest, 1, Len(k)) \in Seq(S) /\ Len(SubSeq(rest, 1, Len(k))) = Len(k)
        /\ \A j \in 1..Len(k) : SubSeq(rest, 1, Len(k))[j] = rest[j]
    BY <1>1, <1>2, <1>4, SubSeqProperties
  <2>3. \A j \in 1..Len(k) : rest[j] = text[i + j - 1]
    BY <1>1, <1>2, <1>4
  <2> QED BY <2>1, <2>2, <2>3, SeqEqual
<1> QED BY <1>1, <1>3, <1>4 DEF IsPrefix, Stands, rest

\* Of the keys that match one is the longest.
LEMMA LongestMatches ==
    ASSUME NEW S, NEW text \in Seq(S), NEW entry, EntryOver(S, entry),
           NEW i \in 1..Len(text), KeysAt(text, i, entry) # {}
    PROVE  /\ Longest(text, i, entry) \in KeysAt(text, i, entry)
           /\ Longest(text, i, entry) \in Seq(S) \ {<<>>}
           /\ Longest(text, i, entry) \in DOMAIN entry
           /\ i + Len(Longest(text, i, entry)) \in (i + 1)..(Len(text) + 1)
<1> DEFINE keys == KeysAt(text, i, entry)
           lengths == {Len(k) : k \in keys}
<1>1. \A k \in keys : /\ k \in DOMAIN entry /\ k \in Seq(S) \ {<<>>}
                      /\ Len(k) \in Nat \ {0} /\ i + Len(k) <= Len(text) + 1
  <2> TAKE k \in keys
  <2>1. k \in DOMAIN entry /\ IsPrefix(k, SubSeq(text, i, Len(text)))
    BY DEF KeysAt
  <2>2. k \in Seq(S) \ {<<>>}
    BY <2>1 DEF EntryOver
  <2>3. Len(k) \in Nat \ {0} /\ Stands(k, text, i)
    BY <2>1, <2>2, KeyFits
  <2> QED BY <2>1, <2>2, <2>3 DEF Stands
<1>2. Len(text) \in Nat /\ i \in Nat
  BY LenProperties
<1>3. lengths \in SUBSET (0..Len(text)) /\ lengths # {}
  <2>1. keys # {}
    OBVIOUS
  <2>2. \A k \in keys : Len(k) \in 0..Len(text)
    BY <1>1, <1>2
  <2> HIDE DEF keys
  <2> QED BY <2>1, <2>2
<1>4. PICK n \in lengths : \A m \in lengths : m <= n
  <2> HIDE DEF lengths
  <2> QED BY <1>2, <1>3, GreatestExists
<1>5. \E k \in keys : \A j \in keys : Len(j) <= Len(k)
  BY <1>4
<1>6. Longest(text, i, entry) \in keys
  BY <1>5 DEF Longest
<1> HIDE DEF keys
<1>7. /\ Len(Longest(text, i, entry)) \in Nat \ {0}
      /\ i + Len(Longest(text, i, entry)) <= Len(text) + 1
  BY <1>1, <1>6
<1> QED BY <1>1, <1>2, <1>6, <1>7 DEF keys

\* Where the pass goes on from place i.
LEMMA GoesOn ==
    ASSUME NEW S, NEW text \in Seq(S), NEW entry, EntryOver(S, entry),
           NEW n \in 1..Len(text), NEW f, NEW g,
           \A j \in (n + 1)..(Len(text) + 1) : f[j] = g[j]
    PROVE  Piece(text, entry, f, n) = Piece(text, entry, g, n)
<1>1. Len(text) \in Nat /\ n \in Nat /\ n + 1 \in (n + 1)..(Len(text) + 1)
  BY LenProperties
<1>2. CASE KeysAt(text, n, entry) = {}
  BY <1>1, <1>2 DEF Piece
<1>3. CASE KeysAt(text, n, entry) # {}
  <2>1. n + Len(Longest(text, n, entry)) \in (n + 1)..(Len(text) + 1)
    BY <1>3, LongestMatches
  <2> QED BY <1>1, <1>3, <2>1 DEF Piece
<1> QED BY <1>2, <1>3

\* The pass yields something at every place.
LEMMA ReplacedExists ==
    ASSUME NEW S, NEW text \in Seq(S), NEW entry, EntryOver(S, entry)
    PROVE  \E f : ReplacedFrom(text, entry, f, 1)
<1> DEFINE end == Len(text) + 1
           Bad == {n \in 1..end : ~\E f : ReplacedFrom(text, entry, f, n)}
<1>1. Len(text) \in Nat /\ end \in Nat
  BY LenProperties
<1>2. SUFFICES ASSUME Bad # {} PROVE FALSE
  <2>1. 1 \in 1..end
    BY <1>1
  <2> QED BY <2>1
<1>3. PICK n \in Bad : \A k \in Bad : k <= n
  <2>1. Bad \in SUBSET (0..end)
    BY <1>1
  <2> HIDE DEF Bad, end
  <2> QED BY <1>1, <1>2, <2>1, GreatestExists
<1>4. n \in 1..end /\ ~\E f : ReplacedFrom(text, entry, f, n)
  BY <1>3
<1>5. CASE n = end
  <2>1. ReplacedFrom(text, entry, [i \in end..end |-> <<>>], end)
    <3>1. \A i \in end..end : i = end /\ i > Len(text)
      BY <1>1
    <3>2. \A i \in end..end : Piece(text, entry, [j \in end..end |-> <<>>], i) = <<>>
      BY <3>1 DEF Piece
    <3> QED BY <3>2 DEF ReplacedFrom
  <2> QED BY <1>4, <1>5, <2>1
<1>6. CASE n # end
  <2>1. n \in 1..Len(text) /\ n + 1 \in 1..end /\ n \in Nat
    BY <1>1, <1>4, <1>6
  <2>2. PICK f : ReplacedFrom(text, entry, f, n + 1)
    <3>1. n + 1 \notin Bad
      <4> HIDE DEF Bad
      <4>1. ~(n + 1 <= n)
        BY <2>1
      <4> QED BY <1>3, <4>1
    <3> QED BY <2>1, <3>1
  <2> DEFINE top == Piece(text, entry, f, n)
             g == [i \in n..end |-> IF i = n THEN top ELSE f[i]]
  <2>3. \A i \in (n + 1)..end : i \in n..end /\ i # n /\ g[i] = f[i]
    BY <1>1, <2>1
  <2>4. \A i \in (n + 1)..end : f[i] = Piece(text, entry, f, i)
    BY <2>2 DEF ReplacedFrom
  <2>5. \A i \in n..end : g[i] = Piece(text, entry, g, i)
    <3> TAKE i \in n..end
    <3> HIDE DEF g
    <3>1. CASE i = n
      <4>1. g[n] = top
        BY <1>1, <2>1 DEF g
      <4>2. Piece(text, entry, f, n) = Piece(text, entry, g, n)
        BY <2>1, <2>3, GoesOn
      <4> QED BY <3>1, <4>1, <4>2
    <3>2. CASE i # n
      <4>1. i \in (n + 1)..end /\ g[i] = f[i]
        BY <1>1, <2>1, <2>3, <3>2
      <4>2. Piece(text, entry, f, i) = Piece(text, entry, g, i)
        <5>1. CASE i = end
          BY <1>1, <5>1 DEF Piece
        <5>2. CASE i # end
          <6>1. i \in 1..Len(text) /\ \A j \in (i + 1)..end : f[j] = g[j]
            BY <1>1, <2>1, <2>3, <4>1, <5>2
          <6> QED BY <6>1, GoesOn
        <5> QED BY <5>1, <5>2
      <4> QED BY <2>4, <4>1, <4>2
    <3> QED BY <3>1, <3>2
  <2>6. g = [i \in n..end |-> Piece(text, entry, g, i)]
    <3> DEFINE h == [i \in n..end |-> Piece(text, entry, g, i)]
    <3>1. \A i \in n..end : g[i] = h[i]
      BY <2>5
    <3>2. g = [i \in n..end |-> g[i]] /\ h = [i \in n..end |-> h[i]]
      OBVIOUS
    <3> HIDE DEF g, h
    <3> QED BY <3>1, <3>2 DEF h
  <2> HIDE DEF g
  <2>7. ReplacedFrom(text, entry, g, n)
    BY <2>6 DEF ReplacedFrom
  <2> QED BY <1>4, <2>7
<1> QED BY <1>5, <1>6

\* Replace is the pass from the first place on.
LEMMA ReplaceUnfolds ==
    ASSUME NEW S, NEW text \in Seq(S), NEW entry, EntryOver(S, entry)
    PROVE  \E f : /\ Replace(text, entry) = f[1]
                  /\ \A i \in 1..(Len(text) + 1) : f[i] = Piece(text, entry, f, i) /\ f[i] \in Seq(S)
<1> DEFINE F == CHOOSE f : ReplacedFrom(text, entry, f, 1)
           end == Len(text) + 1
<1>1. ReplacedFrom(text, entry, F, 1)
  BY ReplacedExists
<1>2. Replace(text, entry) = F[1]
  BY DEF Replace, ReplacedFrom, Piece, Longest
<1> HIDE DEF F
<1>3. \A i \in 1..end : F[i] = Piece(text, entry, F, i)
  BY <1>1 DEF ReplacedFrom
<1>4. Len(text) \in Nat /\ end \in Nat /\ \A i \in 1..Len(text) : text[i] \in S
  BY LenProperties, ElementOfSeq
<1> DEFINE Bad == {n \in 1..end : F[n] \notin Seq(S)}
<1>5. Bad = {}
  <2>1. SUFFICES ASSUME Bad # {} PROVE FALSE
    OBVIOUS
  <2>2. PICK n \in Bad : \A k \in Bad : k <= n
    <3>1. Bad \in SUBSET (0..end)
      BY <1>4
    <3> HIDE DEF Bad, end
    <3> QED BY <1>4, <2>1, <3>1, GreatestExists
  <2>3. n \in 1..end /\ F[n] \notin Seq(S)
    BY <2>2
  <2>4. \A k \in 1..end : k > n => F[k] \in Seq(S)
    BY <1>4, <2>2
  <2> HIDE DEF Bad
  <2>5. CASE n = end
    <3>1. n > Len(text)
      BY <1>4, <2>5
    <3>2. Piece(text, entry, F, n) = <<>>
      BY <3>1 DEF Piece
    <3> QED BY <1>3, <2>3, <3>2, EmptySeq
  <2>6. CASE n # end
    <3>1. n \in 1..Len(text) /\ ~(n > Len(text))
      BY <1>4, <2>3, <2>6
    <3>2. CASE KeysAt(text, n, entry) = {}
      <4>1. F[n] = <<text[n]>> \o F[n + 1]
        BY <1>3, <2>3, <3>1, <3>2 DEF Piece
      <4>2. F[n + 1] \in Seq(S) /\ <<text[n]>> \in Seq(S)
        BY <1>4, <2>4, <3>1
      <4> QED BY <2>3, <4>1, <4>2, ConcatProperties
    <3>3. CASE KeysAt(text, n, entry) # {}
      <4> DEFINE k == Longest(text, n, entry)
      <4>1. F[n] = entry[k] \o F[n + Len(k)]
        BY <1>3, <2>3, <3>1, <3>3 DEF Piece
      <4>2. k \in DOMAIN entry /\ n + Len(k) \in (n + 1)..end
        BY <3>1, <3>3, LongestMatches
      <4> HIDE DEF k
      <4>3. F[n + Len(k)] \in Seq(S) /\ entry[k] \in Seq(S)
        BY <1>4, <2>4, <3>1, <4>2 DEF EntryOver
      <4> QED BY <2>3, <4>1, <4>3, ConcatProperties
    <3> QED BY <3>2, <3>3
  <2> QED BY <2>5, <2>6
<1> QED BY <1>2, <1>3, <1>5

-----------------------------------------------------------------------------
(* A cut that ends in no torn surrogate restores to a prefix.                *)

LEMMA PrefixBehind ==
    ASSUME NEW S, NEW x \in Seq(S), NEW a \in Seq(S), NEW b \in Seq(S), IsPrefix(a, b)
    PROVE  IsPrefix(x \o a, x \o b)
<1>1. /\ Len(x) \in Nat /\ Len(a) \in Nat /\ Len(b) \in Nat /\ Len(a) <= Len(b)
      /\ SubSeq(a, 1, Len(a)) = SubSeq(b, 1, Len(a))
  BY LenProperties DEF IsPrefix
<1>2. \A j \in 1..Len(a) : a[j] = b[j]
  <2>1. SubSeq(a, 1, Len(a)) = a
    BY <1>1, SubSeqFull
  <2>2. \A j \in 1..Len(a) : SubSeq(b, 1, Len(a))[j] = b[j]
    BY <1>1, SubSeqProperties
  <2> QED BY <1>1, <2>1, <2>2
<1> DEFINE u == x \o a
           v == x \o b
           n == Len(x) + Len(a)
<1>3. /\ u \in Seq(S) /\ v \in Seq(S) /\ Len(u) = n /\ Len(v) = Len(x) + Len(b)
      /\ \A j \in 1..n : u[j] = IF j <= Len(x) THEN x[j] ELSE a[j - Len(x)]
      /\ \A j \in 1..(Len(x) + Len(b)) : v[j] = IF j <= Len(x) THEN x[j] ELSE b[j - Len(x)]
  BY ConcatProperties
<1> HIDE DEF u, v
<1>4. ASSUME NEW j \in 1..n PROVE u[j] = v[j]
  <2>1. j \in 1..(Len(x) + Len(b)) /\ j \in Nat
    BY <1>1
  <2>2. ~(j <= Len(x)) => j - Len(x) \in 1..Len(a)
    BY <1>1, <2>1
  <2> QED BY <1>2, <1>3, <2>1, <2>2
<1>5. SubSeq(u, 1, n) = u
  BY <1>1, <1>3, SubSeqFull
<1>6. /\ SubSeq(v, 1, n) \in Seq(S) /\ Len(SubSeq(v, 1, n)) = n
      /\ \A j \in 1..n : SubSeq(v, 1, n)[j] = v[j]
  BY <1>1, <1>3, SubSeqProperties
<1>7. u = SubSeq(v, 1, n)
  BY <1>3, <1>4, <1>6, SeqEqual
<1> QED BY <1>1, <1>3, <1>5, <1>7 DEF IsPrefix, u, v

LEMMA PrefixOfAll ==
    ASSUME NEW S, NEW t \in Seq(S)
    PROVE  IsPrefix(<<>>, t) /\ IsPrefix(t, t)
<1>1. Len(t) \in Nat /\ Len(<<>>) = 0
  BY LenProperties
<1>2. SubSeq(<<>>, 1, 0) = SubSeq(t, 1, 0)
  OBVIOUS
<1> QED BY <1>1, <1>2 DEF IsPrefix

\* An opaque surrogate: a bracket, then the charset up to its last symbol.
OpaqueKeys(entry) ==
    \A k \in DOMAIN entry : k[1] = "[" /\ \A j \in 2..(Len(k) - 1) : k[j] \in Charset

LEMMA CutProperties ==
    ASSUME NEW S, NEW t \in Seq(S), NEW n \in 0..Len(t)
    PROVE  /\ SubSeq(t, 1, n) \in Seq(S)
           /\ Len(SubSeq(t, 1, n)) = n
           /\ Len(t) \in Nat
           /\ \A j \in 1..n : SubSeq(t, 1, n)[j] = t[j]
<1>1. Len(t) \in Nat
  BY LenProperties
<1> QED BY <1>1, SubSeqProperties

\* A surrogate that begins before the cut is whole on both sides or on none.
LEMMA KeysAgree ==
    ASSUME NEW S, NEW t \in Seq(S), NEW entry, EntryOver(S, entry), OpaqueKeys(entry),
           NEW n \in 0..Len(t), ~HasPartialSuffix(SubSeq(t, 1, n)), NEW i \in 1..n
    PROVE  KeysAt(SubSeq(t, 1, n), i, entry) = KeysAt(t, i, entry)
<1> DEFINE p == SubSeq(t, 1, n)
<1>1. p \in Seq(S) /\ Len(p) = n /\ Len(t) \in Nat /\ \A j \in 1..n : p[j] = t[j]
  BY CutProperties
<1> HIDE DEF p
<1>2. ASSUME NEW k \in DOMAIN entry
      PROVE  IsPrefix(k, SubSeq(p, i, Len(p))) <=> IsPrefix(k, SubSeq(t, i, Len(t)))
  <2>1. k \in Seq(S) \ {<<>>}
    BY DEF EntryOver
  <2>2. i \in 1..Len(p) /\ i \in 1..Len(t) /\ i \in Nat /\ n \in Nat
    BY <1>1
  <2>3. /\ Len(k) \in Nat \ {0}
        /\ IsPrefix(k, SubSeq(p, i, Len(p))) <=> /\ i + Len(k) <= n + 1
                                                 /\ \A j \in 1..Len(k) : k[j] = p[i + j - 1]
        /\ IsPrefix(k, SubSeq(t, i, Len(t))) <=> /\ i + Len(k) <= Len(t) + 1
                                                 /\ \A j \in 1..Len(k) : k[j] = t[i + j - 1]
    <3>1. Len(k) \in Nat \ {0} /\ (IsPrefix(k, SubSeq(p, i, Len(p))) <=> Stands(k, p, i))
      <4>1. p \in Seq(S) /\ i \in 1..Len(p)
        BY <1>1, <2>2
      <4> QED BY <2>1, <4>1, KeyFits
    <3>2. IsPrefix(k, SubSeq(t, i, Len(t))) <=> Stands(k, t, i)
      BY <2>1, <2>2, KeyFits
    <3> QED BY <1>1, <3>1, <3>2 DEF Stands
  <2>4. CASE i + Len(k) <= n + 1
    <3>1. i + Len(k) <= Len(t) + 1
      BY <1>1, <2>2, <2>3, <2>4
    <3>2. \A j \in 1..Len(k) : p[i + j - 1] = t[i + j - 1]
      BY <1>1, <2>2, <2>3, <2>4
    <3> QED BY <2>3, <2>4, <3>1, <3>2
  <2>5. CASE ~(i + Len(k) <= n + 1)
    <3>1. SUFFICES ASSUME IsPrefix(k, SubSeq(t, i, Len(t))) PROVE FALSE
      BY <2>3, <2>5
    <3>2. \A j \in 1..Len(k) : k[j] = t[i + j - 1]
      BY <2>3, <3>1
    <3>3. p[i] = "["
      <4>1. 1 \in 1..Len(k) /\ i + 1 - 1 = i
        BY <2>2, <2>3
      <4>2. k[1] = t[i]
        BY <3>2, <4>1
      <4> QED BY <1>1, <4>2 DEF OpaqueKeys
    <3>4. ASSUME NEW j \in (i + 1)..n PROVE p[j] \in Charset
      <4> DEFINE m == j - i + 1
      <4>1. m \in 2..(Len(k) - 1) /\ m \in 1..Len(k) /\ i + m - 1 = j /\ j \in 1..n
        BY <2>2, <2>3, <2>5
      <4> HIDE DEF m
      <4>2. k[m] = t[j] /\ p[j] = t[j]
        BY <1>1, <3>2, <4>1
      <4> QED BY <4>1, <4>2 DEF OpaqueKeys
    <3>5. HasPartialSuffix(p)
      BY <1>1, <2>2, <3>3, <3>4 DEF HasPartialSuffix
    <3> QED BY <3>5 DEF p
  <2> QED BY <2>4, <2>5
<1> QED BY <1>2 DEF KeysAt, p

LEMMA RestoresToPrefix ==
    ASSUME NEW S, NEW t \in Seq(S), NEW entry, EntryOver(S, entry), OpaqueKeys(entry),
           NEW n \in 0..Len(t), ~HasPartialSuffix(SubSeq(t, 1, n))
    PROVE  IsPrefix(Replace(SubSeq(t, 1, n), entry), Replace(t, entry))
<1> DEFINE p == SubSeq(t, 1, n)
<1>1. /\ p \in Seq(S) /\ Len(p) = n /\ Len(t) \in Nat /\ n \in Nat /\ n <= Len(t)
      /\ \A j \in 1..n : p[j] = t[j]
  BY CutProperties
<1>2. \A i \in 1..n : KeysAt(p, i, entry) = KeysAt(t, i, entry)
  BY KeysAgree
<1> HIDE DEF p
<1>3. PICK f : /\ Replace(p, entry) = f[1]
               /\ \A i \in 1..(n + 1) : f[i] = Piece(p, entry, f, i) /\ f[i] \in Seq(S)
  BY <1>1, ReplaceUnfolds
<1>4. PICK g : /\ Replace(t, entry) = g[1]
               /\ \A i \in 1..(Len(t) + 1) : g[i] = Piece(t, entry, g, i) /\ g[i] \in Seq(S)
  BY ReplaceUnfolds
<1>5. \A i \in 1..Len(t) : t[i] \in S
  BY ElementOfSeq
<1> DEFINE Bad == {i \in 1..(n + 1) : ~IsPrefix(f[i], g[i])}
<1>6. Bad = {}
  <2>1. SUFFICES ASSUME Bad # {} PROVE FALSE
    OBVIOUS
  <2>2. PICK i \in Bad : \A k \in Bad : k <= i
    <3>1. Bad \in SUBSET (0..(n + 1)) /\ n + 1 \in Nat
      BY <1>1
    <3> HIDE DEF Bad
    <3> QED BY <2>1, <3>1, GreatestExists
  <2>3. i \in 1..(n + 1) /\ i \in 1..(Len(t) + 1) /\ i \in Nat /\ ~IsPrefix(f[i], g[i])
    BY <1>1, <2>2
  <2>4. \A k \in (i + 1)..(n + 1) : IsPrefix(f[k], g[k]) /\ f[k] \in Seq(S) /\ g[k] \in Seq(S)
    BY <1>1, <1>3, <1>4, <2>2, <2>3
  <2> HIDE DEF Bad
  <2>5. f[i] = Piece(p, entry, f, i) /\ g[i] = Piece(t, entry, g, i) /\ g[i] \in Seq(S)
    BY <1>3, <1>4, <2>3
  <2>6. CASE i = n + 1
    <3>1. i > Len(p)
      BY <1>1, <2>6
    <3>2. Piece(p, entry, f, i) = <<>>
      BY <3>1 DEF Piece
    <3> QED BY <2>3, <2>5, <3>2, PrefixOfAll
  <2>7. CASE i # n + 1
    <3>1. /\ i \in 1..n /\ ~(i > Len(p)) /\ ~(i > Len(t)) /\ i + 1 \in (i + 1)..(n + 1)
          /\ i \in 1..Len(p) /\ i \in 1..Len(t)
      BY <1>1, <2>3, <2>7
    <3>2. KeysAt(p, i, entry) = KeysAt(t, i, entry) /\ p[i] = t[i]
      BY <1>1, <1>2, <3>1
    <3>3. CASE KeysAt(p, i, entry) = {}
      <4>1. f[i] = <<p[i]>> \o f[i + 1] /\ g[i] = <<p[i]>> \o g[i + 1]
        BY <2>5, <3>1, <3>2, <3>3 DEF Piece
      <4>2. /\ IsPrefix(f[i + 1], g[i + 1]) /\ f[i + 1] \in Seq(S) /\ g[i + 1] \in Seq(S)
            /\ <<p[i]>> \in Seq(S)
        BY <1>5, <2>4, <3>1, <3>2
      <4> QED BY <2>3, <4>1, <4>2, PrefixBehind
    <3>4. CASE KeysAt(p, i, entry) # {}
      <4> DEFINE k == Longest(p, i, entry)
      <4>1. k = Longest(t, i, entry)
        BY <3>2 DEF Longest
      <4>2. f[i] = entry[k] \o f[i + Len(k)] /\ g[i] = entry[k] \o g[i + Len(k)]
        BY <2>5, <3>1, <3>2, <3>4, <4>1 DEF Piece
      <4>3. k \in DOMAIN entry /\ i + Len(k) \in (i + 1)..(n + 1)
        BY <1>1, <3>1, <3>4, LongestMatches
      <4> HIDE DEF k
      <4>4. /\ IsPrefix(f[i + Len(k)], g[i + Len(k)])
            /\ f[i + Len(k)] \in Seq(S) /\ g[i + Len(k)] \in Seq(S) /\ entry[k] \in Seq(S)
        BY <2>4, <4>3 DEF EntryOver
      <4> QED BY <2>3, <4>2, <4>4, PrefixBehind
    <3> QED BY <3>3, <3>4
  <2> QED BY <2>6, <2>7
<1>7. IsPrefix(f[1], g[1])
  <2>1. 1 \in 1..(n + 1)
    BY <1>1
  <2> QED BY <1>6, <2>1
<1> QED BY <1>3, <1>4, <1>7 DEF p

-----------------------------------------------------------------------------
(* The protocol.                                                             *)

Buffered(d) == d.use_faker /\ d.buffer
Cut(c, n) == SubSeq(script[c], 1, n)
Restored(text) == IF deployment.substitute THEN Replace(text, deployment.entry) ELSE text

\* Replies, surrogates and originals are texts over S; the surrogates of a
\* deployment that neither buffers nor only redacts are opaque.
OpaqueOrBuffered(S) ==
    /\ Reply \subseteq Seq(S)
    /\ \A d \in Deployments :
         /\ EntryOver(S, d.entry)
         /\ Buffered(d) \/ ~d.substitute \/ OpaqueKeys(d.entry)

\* What the client has is the restoration of a cut that tore no surrogate.
ShownCut(c) ==
    \/ delivered[c] = <<>>
    \/ /\ ~Buffered(deployment)
       /\ \E n \in 0..arrived[c] : /\ ~HasPartialSuffix(Cut(c, n))
                                   /\ delivered[c] = Restored(Cut(c, n))
StreamInv(S) ==
    /\ TypeOK
    /\ delivered \in [Choice -> Seq(S)]
    /\ (vault = "stored" /\ phase = "open") => \A c \in Choice : ShownCut(c)
    /\ (vault = "stored" /\ phase = "closed") => \A c \in Choice : delivered[c] = Restored(script[c])
    /\ phase # "closed" => warmed = {}
    /\ \A t \in warmed : \E c \in Choice : delivered[c] = t

LEMMA RestoredTyped ==
    ASSUME NEW S, OpaqueOrBuffered(S), deployment \in Deployments, NEW t \in Seq(S)
    PROVE  Restored(t) \in Seq(S)
<1>1. EntryOver(S, deployment.entry)
  BY DEF OpaqueOrBuffered
<1>2. Replace(t, deployment.entry) \in Seq(S)
  <2>1. PICK f : /\ Replace(t, deployment.entry) = f[1]
                 /\ \A i \in 1..(Len(t) + 1) : f[i] \in Seq(S)
    BY <1>1, ReplaceUnfolds
  <2>2. 1 \in 1..(Len(t) + 1)
    BY LenProperties
  <2> QED BY <2>1, <2>2
<1> QED BY <1>2 DEF Restored

\* What was shown is a prefix of the restoration of any longer cut.
LEMMA ShownIsPrefix ==
    ASSUME NEW S, OpaqueOrBuffered(S), StreamInv(S), vault = "stored", phase = "open",
           NEW c \in Choice, NEW n \in 0..Len(script[c]), arrived[c] <= n
    PROVE  IsPrefix(delivered[c], Restored(Cut(c, n)))
<1>1. /\ deployment \in Deployments /\ script[c] \in Seq(S) /\ ShownCut(c)
      /\ arrived[c] \in 0..Len(script[c])
  BY DEF StreamInv, TypeOK, OpaqueOrBuffered
<1>2. Len(script[c]) \in Nat /\ n \in Nat /\ Cut(c, n) \in Seq(S) /\ Len(Cut(c, n)) = n
  BY <1>1, CutProperties DEF Cut
<1>3. CASE delivered[c] = <<>>
  <2>1. Restored(Cut(c, n)) \in Seq(S)
    BY <1>1, <1>2, RestoredTyped
  <2> QED BY <1>3, <2>1, PrefixOfAll
<1>4. CASE delivered[c] # <<>>
  <2>1. PICK m \in 0..arrived[c] : /\ ~HasPartialSuffix(Cut(c, m))
                                   /\ delivered[c] = Restored(Cut(c, m))
    BY <1>1, <1>4 DEF ShownCut
  <2>2. m \in 0..n /\ m \in Nat /\ m \in 0..Len(script[c])
    BY <1>1, <1>2
  <2>3. SubSeq(Cut(c, n), 1, m) = Cut(c, m)
    <3>1. /\ SubSeq(Cut(c, n), 1, m) \in Seq(S) /\ Len(SubSeq(Cut(c, n), 1, m)) = m
          /\ \A j \in 1..m : SubSeq(Cut(c, n), 1, m)[j] = Cut(c, n)[j]
      BY <1>2, <2>2, CutProperties
    <3>2. \A j \in 1..n : Cut(c, n)[j] = script[c][j]
      BY <1>1, CutProperties DEF Cut
    <3>3. /\ Cut(c, m) \in Seq(S) /\ Len(Cut(c, m)) = m
          /\ \A j \in 1..m : Cut(c, m)[j] = script[c][j]
      BY <1>1, <2>2, CutProperties DEF Cut
    <3>4. \A j \in 1..m : j \in 1..n
      BY <1>2, <2>2
    <3> QED BY <3>1, <3>2, <3>3, <3>4, SeqEqual
  <2>4. CASE deployment.substitute
    <3>1. EntryOver(S, deployment.entry) /\ OpaqueKeys(deployment.entry)
      BY <1>1, <1>4, <2>4 DEF OpaqueOrBuffered, ShownCut
    <3>2. IsPrefix(Replace(Cut(c, m), deployment.entry), Replace(Cut(c, n), deployment.entry))
      BY <1>2, <2>1, <2>2, <2>3, <3>1, RestoresToPrefix
    <3> QED BY <2>1, <2>4, <3>2 DEF Restored
  <2>5. CASE ~deployment.substitute
    <3>1. IsPrefix(Cut(c, m), Cut(c, n))
      <4>1. Cut(c, m) \in Seq(S) /\ Len(Cut(c, m)) = m
        BY <1>1, <2>2, CutProperties DEF Cut
      <4>2. SubSeq(Cut(c, m), 1, m) = Cut(c, m)
        BY <2>2, <4>1, SubSeqFull
      <4> QED BY <1>2, <2>2, <2>3, <4>1, <4>2 DEF IsPrefix
    <3> QED BY <2>1, <2>5, <3>1 DEF Restored
  <2> QED BY <2>4, <2>5
<1> QED BY <1>3, <1>4

LEMMA WholeCut ==
    ASSUME NEW S, NEW c, script[c] \in Seq(S)
    PROVE  Cut(c, Len(script[c])) = script[c] /\ Len(script[c]) \in Nat
BY LenProperties, SubSeqFull DEF Cut

LEMMA InvInitial ==
    ASSUME NEW S, OpaqueOrBuffered(S), Init
    PROVE  StreamInv(S)
<1>1. TypeOK
  <2>1. \A c \in Choice : script[c] \in Seq(S) /\ Len(script[c]) \in Nat
    BY LenProperties DEF Init, OpaqueOrBuffered
  <2> QED BY <2>1 DEF Init, TypeOK, Actions
<1>2. delivered \in [Choice -> Seq(S)] /\ \A c \in Choice : delivered[c] = <<>>
  BY DEF Init
<1> QED BY <1>1, <1>2 DEF Init, StreamInv, ShownCut

\* What a sample or the last call does, by what stays and what comes.
LEMMA Answered ==
    ASSUME NEW S, OpaqueOrBuffered(S), StreamInv(S), NEW texts,
           \A c \in Choice : texts[c] \in Seq(S), Restore(texts)
    PROVE  /\ action' \in Actions
           /\ delivered' \in [Choice -> Seq(S)]
           /\ vault = "stored" => \A c \in Choice : delivered'[c] = Restored(texts[c])
           /\ delivered' = Outbound(texts)
<1>1. deployment \in Deployments
  BY DEF StreamInv, TypeOK
<1>2. \A c \in Choice : Restored(texts[c]) \in Seq(S)
  BY <1>1, RestoredTyped
<1>3. \A c \in Choice : /\ Outbound(texts)[c] \in {Restored(texts[c]), texts[c]}
                        /\ vault = "stored" => Outbound(texts)[c] = Restored(texts[c])
  BY DEF Outbound, Restored
<1>4. Outbound(texts) \in [Choice -> Seq(S)]
  <2>1. Outbound(texts) = [c \in Choice |-> Outbound(texts)[c]]
    BY DEF Outbound
  <2>2. \A c \in Choice : Outbound(texts)[c] \in Seq(S)
    BY <1>2, <1>3
  <2> HIDE DEF Outbound
  <2> QED BY <2>1, <2>2
<1>5. delivered' = Outbound(texts) /\ action' \in Actions
  BY DEF Restore, Actions
<1> QED BY <1>2, <1>3, <1>4, <1>5

LEMMA GrowthTyped ==
    ASSUME NEW S, OpaqueOrBuffered(S), StreamInv(S), NEW upto \in Growth, NEW c \in Choice
    PROVE  /\ upto[c] \in 0..Len(script[c]) /\ arrived[c] <= upto[c]
           /\ script[c] \in Seq(S) /\ Cut(c, upto[c]) \in Seq(S)
<1>1. script[c] \in Seq(S) /\ Len(script[c]) \in Nat
  BY LenProperties DEF StreamInv, TypeOK, OpaqueOrBuffered
<1>2. upto[c] \in Nat /\ arrived[c] <= upto[c] /\ upto[c] <= Len(script[c])
  <2> DEFINE top == Max({Len(r) : r \in Reply})
  <2>1. upto \in [Choice -> 0..top] /\ arrived[c] <= upto[c] /\ upto[c] <= Len(script[c])
    BY DEF Growth
  <2> HIDE DEF top
  <2> QED BY <2>1
<1>3. upto[c] \in 0..Len(script[c])
  BY <1>1, <1>2
<1> QED BY <1>1, <1>2, <1>3, CutProperties DEF Cut

LEMMA InvKept ==
    ASSUME NEW S, OpaqueOrBuffered(S), StreamInv(S), [Next]_vars
    PROVE  StreamInv(S)'
<1> USE DEF StreamInv
<1>1. ASSUME NEW upto \in Growth, Sample(upto) PROVE StreamInv(S)'
  <2> DEFINE texts == [c \in Choice |-> SubSeq(script[c], 1, upto[c])]
  <2>1. \A c \in Choice : /\ upto[c] \in 0..Len(script[c]) /\ texts[c] = Cut(c, upto[c])
                          /\ texts[c] \in Seq(S)
    BY GrowthTyped DEF Cut
  <2>2. /\ phase = "open" /\ arrived' = upto
        /\ IF Defers(texts) THEN action' = "WAIT" /\ UNCHANGED delivered ELSE Restore(texts)
        /\ UNCHANGED <<deployment, script, vault, phase, warmed>>
    BY <1>1 DEF Sample
  <2> HIDE DEF texts
  <2>3. warmed' = {} /\ phase' = "open"
    BY <2>2
  <2>4. /\ action' \in Actions
        /\ delivered' \in [Choice -> Seq(S)]
    <3>1. CASE Defers(texts)
      BY <2>2, <3>1 DEF TypeOK, Actions
    <3>2. CASE ~Defers(texts)
      BY <2>1, <2>2, <3>2, Answered
    <3> QED BY <3>1, <3>2
  <2>5. TypeOK'
    BY <2>1, <2>2, <2>4 DEF TypeOK
  <2>6. ASSUME vault = "stored", NEW c \in Choice PROVE ShownCut(c)'
    <3>1. CASE Defers(texts)
      <4>1. ShownCut(c)
        BY <2>2, <2>6
      <4>2. 0..arrived[c] \subseteq 0..arrived'[c]
        <5>1. arrived[c] <= upto[c] /\ arrived[c] \in Nat /\ upto[c] \in Nat
          BY <2>1, GrowthTyped DEF TypeOK
        <5> QED BY <2>2, <5>1
      <4> QED BY <2>2, <3>1, <4>1, <4>2 DEF ShownCut, Cut, Restored, Buffered
    <3>2. CASE ~Defers(texts)
      <4>1. delivered'[c] = Restored(texts[c])
        BY <2>1, <2>2, <2>6, <3>2, Answered
      <4>2. ~Buffered(deployment) /\ ~HasPartialSuffix(texts[c])
        BY <3>2 DEF Defers, Buffered
      <4>3. upto[c] \in 0..arrived'[c]
        BY <2>1, <2>2
      <4>4. delivered'[c] = IF deployment'.substitute
                            THEN Replace(SubSeq(script'[c], 1, upto[c]), deployment'.entry)
                            ELSE SubSeq(script'[c], 1, upto[c])
        BY <2>1, <2>2, <4>1 DEF Cut, Restored
      <4> QED BY <2>1, <2>2, <4>2, <4>3, <4>4 DEF ShownCut, Cut, Restored, Buffered
    <3> QED BY <3>1, <3>2
  <2> QED BY <2>2, <2>3, <2>4, <2>5, <2>6
<1>2. CASE Final
  <2>1. \A c \in Choice : script[c] \in Seq(S) /\ Len(script[c]) \in Nat
    BY LenProperties DEF TypeOK, OpaqueOrBuffered
  <2>2. /\ phase' = "closed" /\ arrived' = [c \in Choice |-> Len(script[c])]
        /\ Restore(script) /\ UNCHANGED <<deployment, script, vault>>
        /\ warmed' = IF vault = "stored" THEN {Outbound(script)[c] : c \in Choice} ELSE {}
    BY <1>2 DEF Final
  <2>3. /\ action' \in Actions
        /\ delivered' \in [Choice -> Seq(S)]
        /\ vault = "stored" => \A c \in Choice : delivered'[c] = Restored(script[c])
        /\ delivered' = Outbound(script)
    BY <2>1, <2>2, Answered
  <2>4. TypeOK'
    BY <2>1, <2>2, <2>3 DEF TypeOK
  <2>5. \A c \in Choice : Restored(script[c])' = Restored(script[c])
    BY <2>2 DEF Restored
  <2>6. \A t \in warmed' : \E c \in Choice : delivered'[c] = t
    BY <2>2, <2>3
  <2> QED BY <2>2, <2>3, <2>4, <2>5, <2>6
<1>3. CASE PeekFails
  <2>1. TypeOK'
    BY <1>3 DEF PeekFails, TypeOK, Actions
  <2> QED BY <1>3, <2>1 DEF PeekFails
<1>4. CASE Forget
  <2>1. TypeOK'
    BY <1>4 DEF Forget, TypeOK
  <2> QED BY <1>4, <2>1 DEF Forget
<1>5. CASE UNCHANGED vars
  <2>1. TypeOK'
    BY <1>5 DEF vars, TypeOK
  <2>2. \A c \in Choice : (ShownCut(c)' <=> ShownCut(c)) /\ Restored(script[c])' = Restored(script[c])
    BY <1>5 DEF vars, ShownCut, Cut, Restored
  <2> QED BY <1>5, <2>1, <2>2 DEF vars
<1> QED BY <1>1, <1>2, <1>3, <1>4, <1>5 DEF Next

\* In every deployment whose surrogates are opaque or whose samples are held
\* back: all that the client has comes from cuts that tore no surrogate.
THEOREM Invariant ==
    ASSUME NEW S, OpaqueOrBuffered(S)
    PROVE  Spec => []StreamInv(S)
<1>1. Init => StreamInv(S)
  BY InvInitial
<1>2. StreamInv(S) /\ [Next]_vars => StreamInv(S)'
  BY InvKept
<1> QED BY <1>1, <1>2, PTL DEF Spec

THEOREM TypeCorrect ==
    ASSUME NEW S, OpaqueOrBuffered(S)
    PROVE  Spec => []TypeOK
<1>1. StreamInv(S) => TypeOK
  BY DEF StreamInv
<1> QED BY <1>1, Invariant, PTL

\* A step shows the client more or nothing new.
LEMMA StepExtends ==
    ASSUME NEW S, OpaqueOrBuffered(S), StreamInv(S), [Next]_vars
    PROVE  Extends
<1>1. SUFFICES ASSUME vault = "stored", NEW c \in Choice
               PROVE  IsPrefix(delivered[c], delivered'[c])
  BY DEF Extends
<1>2. CASE delivered' = delivered
  <2>1. delivered[c] \in Seq(S)
    BY DEF StreamInv
  <2> QED BY <1>2, <2>1, PrefixOfAll
<1>3. CASE delivered' # delivered
  <2>1. CASE \E upto \in Growth : Sample(upto)
    <3>1. PICK upto \in Growth : Sample(upto)
      BY <2>1
    <3> DEFINE texts == [d \in Choice |-> SubSeq(script[d], 1, upto[d])]
    <3>2. phase = "open" /\ Restore(texts)
      BY <1>3, <3>1 DEF Sample
    <3>3. \A d \in Choice : texts[d] = Cut(d, upto[d]) /\ texts[d] \in Seq(S)
      BY GrowthTyped DEF Cut
    <3> HIDE DEF texts
    <3>4. delivered'[c] = Restored(Cut(c, upto[c]))
      BY <1>1, <3>2, <3>3, Answered
    <3>5. upto[c] \in 0..Len(script[c]) /\ arrived[c] <= upto[c]
      BY GrowthTyped
    <3> QED BY <1>1, <3>2, <3>4, <3>5, ShownIsPrefix
  <2>2. CASE Final
    <3>1. \A d \in Choice : script[d] \in Seq(S)
      BY DEF StreamInv, TypeOK, OpaqueOrBuffered
    <3>2. phase = "open" /\ Restore(script)
      BY <2>2 DEF Final
    <3>3. delivered'[c] = Restored(script[c])
      BY <1>1, <3>1, <3>2, Answered
    <3>4. Cut(c, Len(script[c])) = script[c] /\ Len(script[c]) \in Nat
      BY <3>1, WholeCut
    <3>5. Len(script[c]) \in 0..Len(script[c]) /\ arrived[c] <= Len(script[c])
      BY <3>4 DEF StreamInv, TypeOK
    <3> QED BY <1>1, <3>2, <3>3, <3>4, <3>5, ShownIsPrefix
  <2> QED BY <1>3, <2>1, <2>2 DEF Next, PeekFails, Forget, vars
<1> QED BY <1>2, <1>3

\* LiteLLM's cursor never goes back: wherever the reply is cut, and however
\* often, each answer extends the last, for every entry of opaque surrogates.
THEOREM CursorNeverBack ==
    ASSUME NEW S, OpaqueOrBuffered(S)
    PROVE  Spec => CursorMonotonic
<1>1. StreamInv(S) /\ [Next]_vars => Extends
  BY StepExtends
<1>2. StreamInv(S) /\ [Next]_vars => [Extends]_vars
  BY <1>1
<1> QED BY <1>2, Invariant, PTL DEF Spec, CursorMonotonic

\* Once the reply is complete the client has the restoration of the whole.
THEOREM WholeInTheEnd ==
    ASSUME NEW S, OpaqueOrBuffered(S)
    PROVE  Spec => []StreamedEqualsWhole
<1>1. StreamInv(S) => StreamedEqualsWhole
  <2> SUFFICES ASSUME StreamInv(S), phase = "closed", vault = "stored"
               PROVE  delivered = [c \in Choice |-> Restored(script[c])]
    BY DEF StreamedEqualsWhole, Restored
  <2> QED BY DEF StreamInv, TypeOK
<1> QED BY <1>1, Invariant, PTL

\* A text is prewarmed only when it is what the client ends up with.
THEOREM WarmedOnlyFinal ==
    ASSUME NEW S, OpaqueOrBuffered(S)
    PROVE  Spec => []WarmedIsFinal
<1>1. StreamInv(S) => WarmedIsFinal
  BY DEF StreamInv, WarmedIsFinal
<1> QED BY <1>1, Invariant, PTL

-----------------------------------------------------------------------------
(* What the pass leaves of the surrogates.                                   *)


\* An original is not empty, does not begin with a symbol from inside a
\* surrogate and holds none that a surrogate begins with.
Apart(entry) ==
    \A k, l \in DOMAIN entry :
        /\ entry[l] # <<>>
        /\ \A r \in 2..Len(k) : entry[l][1] # k[r]
        /\ \A m \in 1..Len(entry[l]) : entry[l][m] # k[1]

\* The symbols of k from the r-th on stand in u from the place i on.
TailStands(k, r, u, i) ==
    /\ i + (Len(k) - r) <= Len(u)
    /\ \A j \in 0..(Len(k) - r) : k[r + j] = u[i + j]

\* f is what the pass yields from each place on.
Pass(S, text, entry, f) ==
    \A i \in 1..(Len(text) + 1) : f[i] = Piece(text, entry, f, i) /\ f[i] \in Seq(S)

\* w is u with v before it.
Behind(u, v, w) ==
    /\ Len(u) \in Nat /\ Len(v) \in Nat /\ Len(w) = Len(u) + Len(v)
    /\ \A m \in 1..Len(u) : w[m] = u[m]
    /\ \A m \in 1..Len(v) : w[m + Len(u)] = v[m]

LEMMA Joined ==
    ASSUME NEW S, NEW u \in Seq(S), NEW v \in Seq(S)
    PROVE  Behind(u, v, u \o v)
<1> DEFINE w == u \o v
<1>1. Len(u) \in Nat /\ Len(v) \in Nat
  BY LenProperties
<1>2. /\ Len(w) = Len(u) + Len(v)
      /\ \A m \in 1..(Len(u) + Len(v)) : w[m] = IF m <= Len(u) THEN u[m] ELSE v[m - Len(u)]
  BY ConcatProperties
<1> HIDE DEF w
<1>3. \A m \in 1..Len(u) : w[m] = u[m]
  BY <1>1, <1>2
<1>4. ASSUME NEW m \in 1..Len(v) PROVE w[m + Len(u)] = v[m]
  <2>1. m + Len(u) \in 1..(Len(u) + Len(v)) /\ ~(m + Len(u) <= Len(u)) /\ (m + Len(u)) - Len(u) = m
    BY <1>1
  <2> QED BY <1>2, <2>1
<1> QED BY <1>1, <1>2, <1>3, <1>4 DEF Behind, w

LEMMA AtTheEnd ==
    ASSUME NEW S, NEW text \in Seq(S), NEW entry, EntryOver(S, entry), NEW f, Pass(S, text, entry, f),
           NEW i, i = Len(text) + 1
    PROVE  f[i] = <<>>
<1>1. Len(text) \in Nat /\ i \in 1..(Len(text) + 1) /\ i > Len(text)
  BY LenProperties
<1> QED BY <1>1 DEF Pass, Piece

LEMMA AtNoKey ==
    ASSUME NEW S, NEW text \in Seq(S), NEW entry, EntryOver(S, entry), NEW f, Pass(S, text, entry, f),
           NEW i \in 1..Len(text), KeysAt(text, i, entry) = {}
    PROVE  /\ i + 1 \in 1..(Len(text) + 1)
           /\ Behind(<<text[i]>>, f[i + 1], f[i]) /\ Len(<<text[i]>>) = 1 /\ f[i][1] = text[i]
<1>1. /\ Len(text) \in Nat /\ i \in 1..(Len(text) + 1) /\ ~(i > Len(text))
      /\ i + 1 \in 1..(Len(text) + 1)
  BY LenProperties
<1>2. f[i] = <<text[i]>> \o f[i + 1]
  BY <1>1 DEF Pass, Piece
<1>3. f[i + 1] \in Seq(S) /\ <<text[i]>> \in Seq(S) /\ Len(<<text[i]>>) = 1 /\ <<text[i]>>[1] = text[i]
  BY <1>1, ElementOfSeq DEF Pass
<1>4. Behind(<<text[i]>>, f[i + 1], f[i])
  BY <1>2, <1>3, Joined
<1>5. f[i][1] = text[i]
  <2>1. 1 \in 1..Len(<<text[i]>>)
    BY <1>3
  <2> QED BY <1>3, <1>4, <2>1 DEF Behind
<1> QED BY <1>1, <1>3, <1>4, <1>5

LEMMA AtKey ==
    ASSUME NEW S, NEW text \in Seq(S), NEW entry, EntryOver(S, entry), NEW f, Pass(S, text, entry, f),
           NEW i \in 1..Len(text), KeysAt(text, i, entry) # {}
    PROVE  \E k \in DOMAIN entry : /\ i + Len(k) \in (i + 1)..(Len(text) + 1)
                                   /\ entry[k] \in Seq(S)
                                   /\ Behind(entry[k], f[i + Len(k)], f[i])
<1> DEFINE k == Longest(text, i, entry)
<1>1. /\ Len(text) \in Nat /\ i \in 1..(Len(text) + 1) /\ ~(i > Len(text))
  BY LenProperties
<1>2. f[i] = entry[k] \o f[i + Len(k)]
  BY <1>1 DEF Pass, Piece
<1>3. k \in DOMAIN entry /\ i + Len(k) \in (i + 1)..(Len(text) + 1)
  BY LongestMatches
<1> HIDE DEF k
<1>4. i + Len(k) \in 1..(Len(text) + 1)
  BY <1>1, <1>3
<1>5. entry[k] \in Seq(S) /\ f[i + Len(k)] \in Seq(S)
  BY <1>3, <1>4 DEF EntryOver, Pass
<1> QED BY <1>2, <1>3, <1>5, Joined

\* What the pass yields begins with the rest of a surrogate only where the text
\* does.
LEMMA TailsAreOld ==
    ASSUME NEW S, NEW text \in Seq(S), NEW entry, EntryOver(S, entry), Apart(entry), NEW f,
           Pass(S, text, entry, f),
           NEW k \in DOMAIN entry, NEW i \in 1..(Len(text) + 1), NEW r \in 2..(Len(k) + 1),
           TailStands(k, r, f[i], 1)
    PROVE  TailStands(k, r, text, i)
<1> DEFINE end == Len(text) + 1
           Wrong(n) == \E q \in 2..(Len(k) + 1) : /\ TailStands(k, q, f[n], 1)
                                                  /\ ~TailStands(k, q, text, n)
           Bad == {n \in 1..end : Wrong(n)}
<1>1. Len(text) \in Nat /\ end \in Nat /\ Len(k) \in Nat
  BY LenProperties DEF EntryOver
<1>2. SUFFICES ASSUME Bad # {} PROVE FALSE
  <2>1. i \notin Bad
    BY <1>2
  <2> QED BY <2>1
<1>3. PICK n \in Bad : \A m \in Bad : m <= n
  <2>1. Bad \in SUBSET (0..end)
    BY <1>1
  <2> HIDE DEF Bad, end
  <2> QED BY <1>1, <1>2, <2>1, GreatestExists
<1>4. n \in 1..end /\ n \in Nat /\ Wrong(n)
  BY <1>3
<1>5. \A m \in 1..end : m > n => ~Wrong(m)
  BY <1>1, <1>3, <1>4
<1>6. PICK q \in 2..(Len(k) + 1) : TailStands(k, q, f[n], 1) /\ ~TailStands(k, q, text, n)
  BY <1>4
<1> HIDE DEF Bad
<1>7. q \in Nat /\ q >= 2 /\ q <= Len(k) + 1
  BY <1>1
<1>8. q # Len(k) + 1
  <2>1. SUFFICES ASSUME q = Len(k) + 1 PROVE TailStands(k, q, text, n)
    BY <1>6
  <2>2. Len(k) - q = -1 /\ 0..(-1) = {} /\ n + (-1) <= Len(text)
    BY <1>1, <1>4, <2>1
  <2> QED BY <2>2 DEF TailStands
<1>9. /\ Len(k) - q \in Nat /\ 1 + (Len(k) - q) <= Len(f[n]) /\ 0 \in 0..(Len(k) - q)
      /\ q \in 2..Len(k) /\ q + 0 = q /\ 1 + 0 = 1
  <2>1. 1 + (Len(k) - q) <= Len(f[n])
    BY <1>6 DEF TailStands
  <2>2. Len(k) - q \in Nat /\ q \in 2..Len(k)
    BY <1>1, <1>7, <1>8
  <2> QED BY <1>7, <2>1, <2>2
<1>10. k[q] = f[n][1]
  <2>1. k[q + 0] = f[n][1 + 0]
    BY <1>6, <1>9 DEF TailStands
  <2> QED BY <1>9, <2>1
<1>11. n # end
  <2>1. SUFFICES ASSUME n = end PROVE FALSE
    OBVIOUS
  <2>2. f[n] = <<>>
    BY <2>1, AtTheEnd
  <2>3. Len(f[n]) = 0
    BY <2>2
  <2> QED BY <1>9, <2>3
<1>12. CASE KeysAt(text, n, entry) = {}
  <2>1. /\ n \in 1..Len(text) /\ n + 1 \in 1..end
        /\ Len(f[n + 1]) \in Nat /\ Len(f[n]) = 1 + Len(f[n + 1])
        /\ f[n][1] = text[n]
        /\ \A m \in 1..Len(f[n + 1]) : f[n][m + 1] = f[n + 1][m]
    <3>1. n \in 1..Len(text)
      BY <1>1, <1>4, <1>11
    <3>2. /\ n + 1 \in 1..end /\ Len(<<text[n]>>) = 1 /\ f[n][1] = text[n]
          /\ Behind(<<text[n]>>, f[n + 1], f[n])
      BY <1>12, <3>1, AtNoKey
    <3> QED BY <3>1, <3>2 DEF Behind
  <2>2. q + 1 \in 2..(Len(k) + 1)
    BY <1>1, <1>7, <1>9
  <2>3. TailStands(k, q + 1, f[n + 1], 1)
    <3>1. 1 + (Len(k) - (q + 1)) <= Len(f[n + 1])
      <4> DEFINE a == Len(f[n])
                 b == Len(f[n + 1])
                 m == Len(k)
      <4>1. b \in Nat /\ m \in Nat /\ q \in Nat /\ a = 1 + b /\ 1 + (m - q) <= a
        BY <1>1, <1>7, <1>9, <2>1
      <4> HIDE DEF a, b, m
      <4>2. 1 + (m - (q + 1)) <= b
        BY <4>1
      <4> QED BY <4>2 DEF a, b, m
    <3>2. ASSUME NEW j \in 0..(Len(k) - (q + 1)) PROVE k[(q + 1) + j] = f[n + 1][1 + j]
      <4>1. j \in Nat /\ j + 1 \in 0..(Len(k) - q) /\ (q + 1) + j = q + (j + 1)
        BY <1>1, <1>7
      <4>2. 1 + j \in 1..Len(f[n + 1])
        BY <1>1, <1>7, <2>1, <3>1, <4>1
      <4>3. k[q + (j + 1)] = f[n][1 + (j + 1)]
        BY <1>6, <4>1 DEF TailStands
      <4>4. f[n][(1 + j) + 1] = f[n + 1][1 + j] /\ (1 + j) + 1 = 1 + (j + 1)
        BY <2>1, <4>1, <4>2
      <4> QED BY <4>1, <4>3, <4>4
    <3> QED BY <3>1, <3>2 DEF TailStands
  <2>4. TailStands(k, q + 1, text, n + 1)
    <3>1. n + 1 > n
      BY <1>4
    <3>2. ~Wrong(n + 1)
      BY <1>5, <2>1, <3>1
    <3> QED BY <2>2, <2>3, <3>2
  <2>5. TailStands(k, q, text, n)
    <3>1. n + (Len(k) - q) <= Len(text)
      BY <1>1, <1>4, <1>7, <2>4 DEF TailStands
    <3>2. ASSUME NEW j \in 0..(Len(k) - q) PROVE k[q + j] = text[n + j]
      <4>1. CASE j = 0
        <5>1. q + j = q /\ n + j = n
          BY <1>4, <1>7, <4>1
        <5> QED BY <1>10, <2>1, <5>1
      <4>2. CASE j # 0
        <5>1. /\ j - 1 \in 0..(Len(k) - (q + 1)) /\ (q + 1) + (j - 1) = q + j
              /\ (n + 1) + (j - 1) = n + j
          BY <1>1, <1>4, <1>7, <4>2
        <5>2. k[(q + 1) + (j - 1)] = text[(n + 1) + (j - 1)]
          BY <2>4, <5>1 DEF TailStands
        <5> QED BY <5>1, <5>2
      <4> QED BY <4>1, <4>2
    <3> QED BY <3>1, <3>2 DEF TailStands
  <2> QED BY <1>6, <2>5
<1>13. CASE KeysAt(text, n, entry) # {}
  <2>1. PICK l \in DOMAIN entry : entry[l] \in Seq(S) /\ Behind(entry[l], f[n + Len(l)], f[n])
    <3>1. n \in 1..Len(text)
      BY <1>1, <1>4, <1>11
    <3> QED BY <1>13, <3>1, AtKey
  <2>2. entry[l] # <<>> /\ entry[l][1] # k[q]
    BY <1>9 DEF Apart
  <2>3. 1 \in 1..Len(entry[l])
    BY <2>1, <2>2, EmptySeq, LenProperties
  <2> QED BY <1>10, <2>1, <2>2, <2>3 DEF Behind
<1> QED BY <1>12, <1>13

\* What stands at the front of a text stands, but for its head, behind it.
LEMMA Shifted ==
    ASSUME NEW k, Len(k) \in Nat, NEW u, NEW w, Len(u) \in Nat, Len(w) = 1 + Len(u),
           \A j \in 1..Len(u) : w[j + 1] = u[j], TailStands(k, 1, w, 1)
    PROVE  TailStands(k, 2, u, 1)
<1>1. 1 + (Len(k) - 2) <= Len(u)
  BY DEF TailStands
<1>2. ASSUME NEW j \in 0..(Len(k) - 2) PROVE k[2 + j] = u[1 + j]
  <2>1. /\ j + 1 \in 0..(Len(k) - 1) /\ 1 + (j + 1) = 2 + j
        /\ 1 + j \in 1..Len(u) /\ (1 + j) + 1 = 2 + j
    BY <1>1
  <2>2. k[1 + (j + 1)] = w[1 + (j + 1)]
    BY <2>1 DEF TailStands
  <2>3. w[(1 + j) + 1] = u[1 + j]
    BY <2>1
  <2> QED BY <2>1, <2>2, <2>3
<1> QED BY <1>1, <1>2 DEF TailStands

\* The pass leaves no surrogate: what it keeps of the text holds none, and an
\* original neither begins one nor goes on inside one.
LEMMA NoKeyLeft ==
    ASSUME NEW S, NEW text \in Seq(S), NEW entry, EntryOver(S, entry), Apart(entry),
           NEW k \in DOMAIN entry
    PROVE  ~Occurs(k, Replace(text, entry))
<1>1. PICK f : Replace(text, entry) = f[1] /\ Pass(S, text, entry, f)
  BY ReplaceUnfolds DEF Pass
<1> DEFINE end == Len(text) + 1
           Wrong(n) == \E m \in 1..Len(f[n]) : TailStands(k, 1, f[n], m)
           Bad == {n \in 1..end : Wrong(n)}
<1>2. /\ Len(text) \in Nat /\ end \in Nat /\ 1 \in 1..end
      /\ k \in Seq(S) \ {<<>>} /\ Len(k) \in Nat /\ Len(k) # 0
  BY LenProperties, EmptySeq DEF EntryOver
<1>3. Bad = {}
  <2>1. SUFFICES ASSUME Bad # {} PROVE FALSE
    OBVIOUS
  <2>2. PICK n \in Bad : \A m \in Bad : m <= n
    <3>1. Bad \in SUBSET (0..end)
      BY <1>2
    <3> HIDE DEF Bad, end
    <3> QED BY <1>2, <2>1, <3>1, GreatestExists
  <2>3. n \in 1..end /\ n \in Nat /\ Wrong(n)
    BY <2>2
  <2>4. \A m \in 1..end : m > n => ~Wrong(m)
    BY <1>2, <2>2, <2>3
  <2>5. PICK m \in 1..Len(f[n]) : TailStands(k, 1, f[n], m)
    BY <2>3
  <2> HIDE DEF Bad
  <2>6. f[n] \in Seq(S) /\ Len(f[n]) \in Nat
    BY <1>1, <2>3, LenProperties DEF Pass
  <2>7. n # end
    <3>1. SUFFICES ASSUME n = end PROVE FALSE
      OBVIOUS
    <3>2. f[n] = <<>>
      BY <1>1, <3>1, AtTheEnd
    <3> QED BY <2>5, <3>2
  <2>8. n \in 1..Len(text) /\ n + 1 > n
    BY <1>2, <2>3, <2>7
  <2>9. f[n][m] = k[1]
    <3>1. 0 \in 0..(Len(k) - 1) /\ 1 + 0 = 1 /\ m + 0 = m
      BY <1>2, <2>5
    <3>2. k[1 + 0] = f[n][m + 0]
      BY <2>5, <3>1 DEF TailStands
    <3> QED BY <3>1, <3>2
  <2>10. CASE KeysAt(text, n, entry) = {}
    <3>1. /\ n + 1 \in 1..end /\ Len(<<text[n]>>) = 1 /\ f[n][1] = text[n]
          /\ Behind(<<text[n]>>, f[n + 1], f[n])
      BY <1>1, <2>8, <2>10, AtNoKey
    <3>2. /\ Len(f[n + 1]) \in Nat /\ Len(f[n]) = 1 + Len(f[n + 1])
          /\ \A j \in 1..Len(f[n + 1]) : f[n][j + 1] = f[n + 1][j]
      BY <3>1 DEF Behind
    <3>3. CASE m = 1
      <4>1. TailStands(k, 2, f[n + 1], 1)
        BY <2>5, <3>2, <3>3, <1>2, Shifted
      <4>2. TailStands(k, 2, text, n + 1)
        <5>1. 2 \in 2..(Len(k) + 1)
          BY <1>2
        <5> QED BY <1>1, <3>1, <4>1, <5>1, TailsAreOld
      <4>3. Stands(k, text, n)
        <5>1. n + Len(k) <= Len(text) + 1
          BY <1>2, <2>3, <4>2 DEF TailStands
        <5>2. ASSUME NEW j \in 1..Len(k) PROVE k[j] = text[n + j - 1]
          <6>1. CASE j = 1
            <7>1. n + j - 1 = n
              BY <2>3, <6>1
            <7> QED BY <2>9, <3>1, <3>3, <6>1, <7>1
          <6>2. CASE j # 1
            <7>1. j - 2 \in 0..(Len(k) - 2) /\ 2 + (j - 2) = j /\ (n + 1) + (j - 2) = n + j - 1
              BY <1>2, <2>3, <6>2
            <7>2. k[2 + (j - 2)] = text[(n + 1) + (j - 2)]
              BY <4>2, <7>1 DEF TailStands
            <7> QED BY <7>1, <7>2
          <6> QED BY <6>1, <6>2
        <5> QED BY <5>1, <5>2 DEF Stands
      <4>4. IsPrefix(k, SubSeq(text, n, Len(text)))
        BY <1>2, <2>8, <4>3, KeyFits
      <4> QED BY <2>10, <4>4 DEF KeysAt
    <3>4. CASE m # 1
      <4>1. m - 1 \in 1..Len(f[n + 1]) /\ m \in Nat /\ (m - 1) + 1 = m
        BY <2>5, <2>6, <3>2, <3>4
      <4>2. TailStands(k, 1, f[n + 1], m - 1)
        <5>1. (m - 1) + (Len(k) - 1) <= Len(f[n + 1])
          BY <1>2, <2>5, <3>2, <4>1 DEF TailStands
        <5>2. ASSUME NEW j \in 0..(Len(k) - 1) PROVE k[1 + j] = f[n + 1][(m - 1) + j]
          <6>1. (m - 1) + j \in 1..Len(f[n + 1]) /\ ((m - 1) + j) + 1 = m + j
            BY <1>2, <3>2, <4>1, <5>1
          <6>2. k[1 + j] = f[n][m + j]
            BY <2>5 DEF TailStands
          <6>3. f[n][((m - 1) + j) + 1] = f[n + 1][(m - 1) + j]
            BY <3>2, <6>1
          <6> QED BY <6>1, <6>2, <6>3
        <5> QED BY <5>1, <5>2 DEF TailStands
      <4>3. ~Wrong(n + 1)
        BY <2>4, <2>8, <3>1
      <4> QED BY <4>1, <4>2, <4>3
    <3> QED BY <3>3, <3>4
  <2>11. CASE KeysAt(text, n, entry) # {}
    <3>1. PICK l \in DOMAIN entry : /\ n + Len(l) \in (n + 1)..end
                                   /\ entry[l] \in Seq(S)
                                   /\ Behind(entry[l], f[n + Len(l)], f[n])
      BY <1>1, <2>8, <2>11, AtKey
    <3> DEFINE v == entry[l]
               g == f[n + Len(l)]
    <3>2. /\ Len(v) \in Nat /\ Len(g) \in Nat /\ Len(f[n]) = Len(v) + Len(g)
          /\ \A j \in 1..Len(v) : f[n][j] = v[j]
          /\ \A j \in 1..Len(g) : f[n][j + Len(v)] = g[j]
      BY <3>1 DEF Behind
    <3>3. n + Len(l) \in 1..end /\ n + Len(l) > n
      BY <2>3, <3>1
    <3>4. ~Wrong(n + Len(l))
      BY <2>4, <3>3
    <3>5. \A j \in 1..Len(v) : v[j] # k[1]
      BY DEF Apart
    <3>6. ~\E j \in 1..Len(g) : TailStands(k, 1, g, j)
      BY <3>4
    <3> HIDE DEF v, g
    <3>7. ~(m <= Len(v))
      <4>1. SUFFICES ASSUME m <= Len(v) PROVE FALSE
        OBVIOUS
      <4>2. m \in 1..Len(v)
        BY <2>5, <3>2, <4>1
      <4> QED BY <2>9, <3>2, <3>5, <4>2
    <3>8. m - Len(v) \in 1..Len(g) /\ m \in Nat
      BY <2>5, <2>6, <3>2, <3>7
    <3>9. TailStands(k, 1, g, m - Len(v))
      <4>1. (m - Len(v)) + (Len(k) - 1) <= Len(g)
        BY <1>2, <2>5, <3>2, <3>8 DEF TailStands
      <4>2. ASSUME NEW j \in 0..(Len(k) - 1) PROVE k[1 + j] = g[(m - Len(v)) + j]
        <5>1. /\ (m - Len(v)) + j \in 1..Len(g)
              /\ ((m - Len(v)) + j) + Len(v) = m + j
          BY <1>2, <3>2, <3>8, <4>1
        <5>2. k[1 + j] = f[n][m + j]
          BY <2>5 DEF TailStands
        <5>3. f[n][((m - Len(v)) + j) + Len(v)] = g[(m - Len(v)) + j]
          BY <3>2, <5>1
        <5> QED BY <5>1, <5>2, <5>3
      <4> QED BY <4>1, <4>2 DEF TailStands
    <3> QED BY <3>6, <3>8, <3>9
  <2> QED BY <2>10, <2>11
<1>4. SUFFICES ASSUME Occurs(k, Replace(text, entry)) PROVE FALSE
  OBVIOUS
<1>5. PICK m \in 1..Len(f[1]) : IsPrefix(k, SubSeq(f[1], m, Len(f[1])))
  BY <1>1, <1>4 DEF Occurs
<1>6. f[1] \in Seq(S) /\ Len(f[1]) \in Nat
  BY <1>1, <1>2, LenProperties DEF Pass
<1>7. Stands(k, f[1], m)
  BY <1>2, <1>5, <1>6, KeyFits
<1>8. TailStands(k, 1, f[1], m)
  <2>1. m + (Len(k) - 1) <= Len(f[1])
    BY <1>2, <1>5, <1>6, <1>7 DEF Stands
  <2>2. ASSUME NEW j \in 0..(Len(k) - 1) PROVE k[1 + j] = f[1][m + j]
    <3>1. 1 + j \in 1..Len(k) /\ m + (1 + j) - 1 = m + j
      BY <1>2, <1>5
    <3>2. k[1 + j] = f[1][m + (1 + j) - 1]
      BY <1>7, <3>1 DEF Stands
    <3> QED BY <3>1, <3>2
  <2> QED BY <2>1, <2>2 DEF TailStands
<1>9. 1 \in Bad
  BY <1>2, <1>5, <1>8
<1> QED BY <1>3, <1>9

-----------------------------------------------------------------------------
(* What the client sees holds no surrogate.                                  *)

\* Replies, surrogates and originals are texts over S; originals keep apart from
\* surrogates.
ApartTexts(S) ==
    /\ Reply \subseteq Seq(S)
    /\ \A d \in Deployments : EntryOver(S, d.entry) /\ Apart(d.entry)

\* While the entry lives, what was shown is nothing or some text restored.
CleanInv(S) ==
    /\ deployment \in Deployments
    /\ script \in [Choice -> Reply]
    /\ deployment.substitute /\ vault = "stored" =>
         \A c \in Choice : \/ delivered[c] = <<>>
                           \/ \E t \in Seq(S) : delivered[c] = Replace(t, deployment.entry)

LEMMA CleanKept ==
    ASSUME NEW S, ApartTexts(S), CleanInv(S), [Next]_vars
    PROVE  CleanInv(S)'
<1> USE DEF CleanInv
<1>1. ASSUME NEW texts, \A c \in Choice : texts[c] \in Seq(S), Restore(texts),
             UNCHANGED <<deployment, script, vault>>
      PROVE  CleanInv(S)'
  <2>1. ASSUME deployment.substitute, vault = "stored", NEW c \in Choice
        PROVE  delivered'[c] = Replace(texts[c], deployment.entry)
    BY <1>1, <2>1 DEF Restore, Outbound
  <2> QED BY <1>1, <2>1
<1>2. ASSUME NEW upto \in Growth, Sample(upto) PROVE CleanInv(S)'
  <2> DEFINE texts == [c \in Choice |-> SubSeq(script[c], 1, upto[c])]
  <2>1. ASSUME NEW c \in Choice PROVE texts[c] \in Seq(S)
    <3>1. script[c] \in Seq(S) /\ Len(script[c]) \in Nat
      BY LenProperties DEF ApartTexts
    <3>2. upto[c] \in Nat /\ upto[c] <= Len(script[c])
      <4> DEFINE top == Max({Len(r) : r \in Reply})
      <4>1. upto \in [Choice -> 0..top] /\ upto[c] <= Len(script[c])
        BY DEF Growth
      <4> HIDE DEF top
      <4> QED BY <4>1
    <3>3. upto[c] \in 0..Len(script[c])
      BY <3>1, <3>2
    <3> QED BY <3>1, <3>3, CutProperties
  <2>2. /\ IF Defers(texts) THEN UNCHANGED delivered ELSE Restore(texts)
        /\ UNCHANGED <<deployment, script, vault>>
    BY <1>2 DEF Sample
  <2> HIDE DEF texts
  <2>3. CASE Defers(texts)
    BY <2>2, <2>3
  <2>4. CASE ~Defers(texts)
    BY <1>1, <2>1, <2>2, <2>4
  <2> QED BY <2>3, <2>4
<1>3. CASE Final
  <2>1. \A c \in Choice : script[c] \in Seq(S)
    BY DEF ApartTexts
  <2> QED BY <1>1, <1>3, <2>1 DEF Final
<1>4. CASE PeekFails
  BY <1>4 DEF PeekFails
<1>5. CASE Forget
  BY <1>5 DEF Forget
<1>6. CASE UNCHANGED vars
  BY <1>6 DEF vars
<1> QED BY <1>2, <1>3, <1>4, <1>5, <1>6 DEF Next

LEMMA CleanMeansNoneShown ==
    ASSUME NEW S, ApartTexts(S), CleanInv(S)
    PROVE  NoSurrogateShown
<1>1. SUFFICES ASSUME deployment.substitute, vault = "stored", NEW c \in Choice,
                      NEW k \in DOMAIN deployment.entry, Occurs(k, delivered[c])
               PROVE  FALSE
  BY DEF NoSurrogateShown, SurrogateShown
<1>2. CASE delivered[c] = <<>>
  BY <1>1, <1>2 DEF Occurs
<1>3. CASE \E t \in Seq(S) : delivered[c] = Replace(t, deployment.entry)
  <2>1. EntryOver(S, deployment.entry) /\ Apart(deployment.entry)
    BY DEF ApartTexts, CleanInv
  <2> QED BY <1>1, <1>3, <2>1, NoKeyLeft
<1> QED BY <1>1, <1>2, <1>3 DEF CleanInv

\* At no moment does the client see a whole surrogate of the call, in any mode
\* that substitutes, buffered or not, wherever the reply is cut: if no original
\* holds what a surrogate begins with or begins with what is inside one.
THEOREM NoneShown ==
    ASSUME NEW S, ApartTexts(S)
    PROVE  Spec => []NoSurrogateShown
<1>1. Init => CleanInv(S)
  BY DEF Init, CleanInv
<1>2. CleanInv(S) /\ [Next]_vars => CleanInv(S)'
  BY CleanKept
<1>3. CleanInv(S) => NoSurrogateShown
  BY CleanMeansNoneShown
<1> QED BY <1>1, <1>2, <1>3, PTL DEF Spec
=============================================================================
