------------------------- MODULE Surrogates_proofs -------------------------
(***************************************************************************)
(* Theorems of Surrogates for every cache size, number of attempts, set of *)
(* texts, types and locales, and every function the generators may be.     *)
(***************************************************************************)
EXTENDS Surrogates, SequenceTheorems, WellFoundedInduction, TLAPS

LEMMA CapPositive == Cap \in Nat /\ Cap >= 1
BY SurrogatesAssumption DEF Cap

\* RemoveAt, pointwise.
LEMMA RemoveAtProperties ==
    ASSUME NEW S, NEW s \in Seq(S), NEW p \in 1..Len(s)
    PROVE  /\ RemoveAt(s, p) \in Seq(S)
           /\ Len(RemoveAt(s, p)) = Len(s) - 1
           /\ \A i \in 1..(Len(s) - 1) :
                 RemoveAt(s, p)[i] = s[IF i < p THEN i ELSE i + 1]
<1> DEFINE a == SubSeq(s, 1, p - 1)
           b == SubSeq(s, p + 1, Len(s))
<1>1. Len(s) \in Nat /\ p \in Nat /\ p >= 1 /\ p <= Len(s)
  BY LenProperties
<1>2. \A i \in 1..Len(s) : s[i] \in S
  BY ElementOfSeq
<1>3. a \in Seq(S) /\ Len(a) = p - 1 /\ \A i \in 1..(p - 1) : a[i] = s[i]
  <2>1. 1 \in Int /\ p - 1 \in Int /\ \A i \in 1..(p - 1) : s[i] \in S
    BY <1>1, <1>2
  <2>2. /\ a \in Seq(S)
        /\ Len(a) = IF 1 <= p - 1 THEN (p - 1) - 1 + 1 ELSE 0
        /\ \A i \in 1..((p - 1) - 1 + 1) : a[i] = s[1 + i - 1]
    BY <2>1, SubSeqProperties
  <2> QED BY <1>1, <2>2
<1>4. b \in Seq(S) /\ Len(b) = Len(s) - p /\ \A i \in 1..(Len(s) - p) : b[i] = s[p + i]
  <2>1. p + 1 \in Int /\ Len(s) \in Int /\ \A i \in (p + 1)..Len(s) : s[i] \in S
    BY <1>1, <1>2
  <2>2. /\ b \in Seq(S)
        /\ Len(b) = IF p + 1 <= Len(s) THEN Len(s) - (p + 1) + 1 ELSE 0
        /\ \A i \in 1..(Len(s) - (p + 1) + 1) : b[i] = s[(p + 1) + i - 1]
    BY <2>1, SubSeqProperties
  <2> QED BY <1>1, <2>2
<1>5. RemoveAt(s, p) = a \o b
  BY DEF RemoveAt
<1> HIDE DEF a, b
<1>6. /\ a \o b \in Seq(S) /\ Len(a \o b) = Len(a) + Len(b)
      /\ \A i \in 1..(Len(a) + Len(b)) :
            (a \o b)[i] = IF i <= Len(a) THEN a[i] ELSE b[i - Len(a)]
  BY <1>3, <1>4, ConcatProperties
<1> QED BY <1>1, <1>3, <1>4, <1>5, <1>6

\* move_to_end: the record goes last, the others close up.
LEMMA MoveToEnd ==
    ASSUME NEW S, NEW s \in Seq(S), NEW p \in 1..Len(s)
    PROVE  LET u == Append(RemoveAt(s, p), s[p])
           IN /\ u \in Seq(S)
              /\ Len(u) = Len(s)
              /\ u[Len(s)] = s[p]
              /\ \A i \in 1..(Len(s) - 1) : u[i] = s[IF i < p THEN i ELSE i + 1]
<1> DEFINE u == Append(RemoveAt(s, p), s[p])
<1>1. Len(s) \in Nat /\ s[p] \in S
  BY LenProperties, ElementOfSeq
<1>2. /\ RemoveAt(s, p) \in Seq(S) /\ Len(RemoveAt(s, p)) = Len(s) - 1
      /\ \A i \in 1..(Len(s) - 1) :
            RemoveAt(s, p)[i] = s[IF i < p THEN i ELSE i + 1]
  BY RemoveAtProperties
<1>3. /\ u \in Seq(S) /\ Len(u) = Len(s) - 1 + 1
      /\ \A i \in 1..(Len(s) - 1) : u[i] = RemoveAt(s, p)[i]
      /\ u[Len(s) - 1 + 1] = s[p]
  BY <1>1, <1>2, AppendProperties
<1>4. \A i \in 1..(Len(s) - 1) : u[i] = s[IF i < p THEN i ELSE i + 1]
  BY <1>2, <1>3
<1> HIDE DEF u
<1>5. u \in Seq(S) /\ Len(u) = Len(s) /\ u[Len(s)] = s[p]
  BY <1>1, <1>3
<1> QED BY <1>4, <1>5 DEF u

-----------------------------------------------------------------------------
\* What relates the cache s to the set u of surrogates in use.  Only two
\* fallbacks may be equal: without this the eviction of one record could free a
\* surrogate that another one still holds and UsedTracked is not inductive.
CacheInv(s, u) ==
    /\ \A i, j \in 1..Len(s) : s[i].key = s[j].key => i = j
    /\ \A i \in 1..Len(s) : s[i].sur \in Value \/ IsFallback(s[i])
    /\ \A i \in 1..Len(s) : s[i].sur # s[i].key.text
    /\ \A i \in 1..Len(s) : IsFallback(s[i]) \/ s[i].sur \in u
    /\ \A i, j \in 1..Len(s) : s[i].sur = s[j].sur =>
                                i = j \/ (IsFallback(s[i]) /\ IsFallback(s[j]))
    /\ u \subseteq Surrogates(s)

LEMMA RecordFields ==
    ASSUME NEW r \in Record
    PROVE  /\ r.key \in Key /\ r.key.etype \in EType /\ r.key.text \in Text
           /\ r.sur \in Value \cup Token
           /\ IsFallback(r) => r.sur \in Token /\ r.sur \notin Value /\ r.sur # r.key.text
<1>1. r.key \in Key /\ r.sur \in Value \cup Token
  BY DEF Record
<1>2. r.key.etype \in EType /\ r.key.text \in Text
  BY <1>1 DEF Key
<1>3. IsFallback(r) => r.sur \in Token /\ r.sur # r.key.text
  BY <1>2, FallbackAssumption DEF IsFallback, Token
<1> QED BY <1>1, <1>2, <1>3, FallbackAssumption

LEMMA FallbackInjective ==
    ASSUME NEW e1 \in EType, NEW e2 \in EType, NEW t1 \in Text, NEW t2 \in Text,
           Fallback(e1, t1) = Fallback(e2, t2)
    PROVE  e1 = e2 /\ t1 = t2
BY FallbackAssumption

\* Moving a record does not disturb the cache.
LEMMA MovedKeeps ==
    ASSUME NEW s \in Seq(Record), NEW u, CacheInv(s, u), NEW p \in 1..Len(s),
           NEW v, v = Append(RemoveAt(s, p), s[p])
    PROVE  /\ v \in Seq(Record) /\ Len(v) = Len(s) /\ v[Len(s)] = s[p]
           /\ \A i \in 1..(Len(s) - 1) : v[i] = s[IF i < p THEN i ELSE i + 1]
           /\ CacheInv(v, u)
<1>1. /\ v \in Seq(Record) /\ Len(v) = Len(s) /\ v[Len(s)] = s[p]
      /\ \A i \in 1..(Len(s) - 1) : v[i] = s[IF i < p THEN i ELSE i + 1]
  BY MoveToEnd, Zenon
<1>2. Len(s) \in Nat /\ p \in 1..Len(s)
  BY LenProperties
<1> DEFINE n == Len(s)
           g(i) == IF i = n THEN p ELSE IF i < p THEN i ELSE i + 1
           h(j) == IF j = p THEN n ELSE IF j < p THEN j ELSE j - 1
<1>3. \A i \in 1..n : g(i) \in 1..n /\ v[i] = s[g(i)]
  BY <1>1, <1>2
<1>4. \A i, j \in 1..n : g(i) = g(j) => i = j
  BY <1>2
<1>5. \A j \in 1..n : h(j) \in 1..n /\ g(h(j)) = j
  BY <1>2
<1> HIDE DEF g, h
<1>6. Surrogates(s) \subseteq Surrogates(v)
  <2> SUFFICES ASSUME NEW j \in 1..n PROVE s[j].sur \in Surrogates(v)
    BY DEF Surrogates, n
  <2>1. h(j) \in 1..n /\ v[h(j)] = s[j]
    BY <1>3, <1>5
  <2> QED BY <1>1, <2>1 DEF Surrogates
<1>7. CacheInv(v, u)
  <2>0. Len(v) = n /\ \A i \in 1..n : g(i) \in 1..Len(s)
    BY <1>1, <1>3 DEF n
  <2>1. \A i, j \in 1..Len(v) : v[i].key = v[j].key => i = j
    <3> SUFFICES ASSUME NEW i \in 1..n, NEW j \in 1..n, v[i].key = v[j].key
                 PROVE  i = j
      BY <2>0
    <3>1. s[g(i)].key = s[g(j)].key
      BY <1>3
    <3>2. g(i) = g(j)
      BY <2>0, <3>1 DEF CacheInv
    <3> QED BY <1>4, <3>2
  <2>2. \A i \in 1..Len(v) : /\ v[i].sur \in Value \/ IsFallback(v[i])
                             /\ v[i].sur # v[i].key.text
                             /\ IsFallback(v[i]) \/ v[i].sur \in u
    BY <1>1, <1>3 DEF CacheInv, n
  <2>3. \A i, j \in 1..Len(v) : v[i].sur = v[j].sur =>
                                i = j \/ (IsFallback(v[i]) /\ IsFallback(v[j]))
    <3> SUFFICES ASSUME NEW i \in 1..n, NEW j \in 1..n, v[i].sur = v[j].sur
                 PROVE  i = j \/ (IsFallback(v[i]) /\ IsFallback(v[j]))
      BY <2>0
    <3>1. v[i] = s[g(i)] /\ v[j] = s[g(j)] /\ s[g(i)].sur = s[g(j)].sur
      BY <1>3
    <3>2. g(i) = g(j) \/ (IsFallback(s[g(i)]) /\ IsFallback(s[g(j)]))
      BY <2>0, <3>1 DEF CacheInv
    <3> QED BY <1>4, <3>1, <3>2
  <2>4. u \subseteq Surrogates(v)
    BY <1>6 DEF CacheInv
  <2> QED BY <2>1, <2>2, <2>3, <2>4 DEF CacheInv
<1> QED BY <1>1, <1>7

\* Adding a record with a new key and either a value not in use or a fallback.
LEMMA AddedKeeps ==
    ASSUME NEW s \in Seq(Record), NEW u, CacheInv(s, u), NEW r \in Record,
           \A i \in 1..Len(s) : s[i].key # r.key,
           r.sur \in Value \ u \/ IsFallback(r),
           r.sur # r.key.text,
           NEW v, v = Append(s, r)
    PROVE  v \in Seq(Record) /\ Len(v) = Len(s) + 1 /\ CacheInv(v, u \cup {r.sur})
<1> DEFINE n == Len(s)
<1>1. /\ v \in Seq(Record) /\ Len(v) = n + 1 /\ n \in Nat
      /\ \A i \in 1..n : v[i] = s[i]
      /\ v[n + 1] = r
  BY AppendProperties, LenProperties
<1>2. \A i \in 1..n : s[i] \in Record
  BY ElementOfSeq
<1>3. \A i \in 1..n : s[i].sur = r.sur => IsFallback(s[i]) /\ IsFallback(r)
  <2> SUFFICES ASSUME NEW i \in 1..n, s[i].sur = r.sur
               PROVE  IsFallback(s[i]) /\ IsFallback(r)
    OBVIOUS
  <2>1. s[i] \in Record
    BY <1>2
  <2>2. IsFallback(s[i]) => s[i].sur \notin Value
    BY <2>1, RecordFields
  <2>3. IsFallback(r) => r.sur \notin Value
    BY RecordFields
  <2>4. /\ s[i].sur \in Value \/ IsFallback(s[i])
        /\ IsFallback(s[i]) \/ s[i].sur \in u
    BY DEF CacheInv
  <2> QED BY <2>2, <2>3, <2>4
<1> HIDE DEF n
<1>4. \A i \in 1..Len(v) : (i \in 1..n /\ v[i] = s[i]) \/ (i = n + 1 /\ v[i] = r)
  BY <1>1
<1>5. \A i, j \in 1..Len(v) : v[i].key = v[j].key => i = j
  BY <1>4 DEF CacheInv, n
<1>6. \A i \in 1..Len(v) : /\ v[i].sur \in Value \/ IsFallback(v[i])
                           /\ v[i].sur # v[i].key.text
                           /\ IsFallback(v[i]) \/ v[i].sur \in u \cup {r.sur}
  BY <1>4 DEF CacheInv, n
<1>7. \A i, j \in 1..Len(v) : v[i].sur = v[j].sur =>
                              i = j \/ (IsFallback(v[i]) /\ IsFallback(v[j]))
  BY <1>3, <1>4 DEF CacheInv, n
<1>8. u \cup {r.sur} \subseteq Surrogates(v)
  <2>1. \A i \in 1..n : i \in 1..Len(v) /\ v[i] = s[i]
    BY <1>1
  <2>2. n + 1 \in 1..Len(v) /\ v[n + 1] = r
    BY <1>1
  <2> QED BY <2>1, <2>2 DEF CacheInv, Surrogates, n
<1> QED BY <1>1, <1>5, <1>6, <1>7, <1>8 DEF CacheInv, n

\* Dropping the oldest record and freeing its surrogate.
LEMMA EvictedKeeps ==
    ASSUME NEW s \in Seq(Record), s # <<>>, NEW u, CacheInv(s, u)
    PROVE  /\ Tail(s) \in Seq(Record) /\ Len(Tail(s)) = Len(s) - 1
           /\ CacheInv(Tail(s), u \ {Head(s).sur})
<1> DEFINE t == Tail(s)
<1>1. /\ t \in Seq(Record) /\ Len(t) = Len(s) - 1
      /\ \A i \in 1..Len(t) : t[i] = s[i + 1]
  BY HeadTailProperties
<1>2. Len(s) \in Nat /\ Len(s) >= 1 /\ Head(s) = s[1]
  BY LenProperties, EmptySeq
<1> HIDE DEF t
<1>3. \A i \in 1..Len(t) : i + 1 \in 1..Len(s) /\ i + 1 # 1 /\ t[i] = s[i + 1]
  BY <1>1, <1>2
<1>4. \A i, j \in 1..Len(t) : i + 1 = j + 1 => i = j
  BY <1>1, <1>2
<1>5. \A i, j \in 1..Len(t) : t[i].key = t[j].key => i = j
  BY <1>3, <1>4 DEF CacheInv
<1>6. \A i \in 1..Len(t) : /\ t[i].sur \in Value \/ IsFallback(t[i])
                           /\ t[i].sur # t[i].key.text
  BY <1>3 DEF CacheInv
<1>7. \A i, j \in 1..Len(t) : t[i].sur = t[j].sur =>
                              i = j \/ (IsFallback(t[i]) /\ IsFallback(t[j]))
  BY <1>3, <1>4 DEF CacheInv
<1>8. \A i \in 1..Len(t) : IsFallback(t[i]) \/ t[i].sur \in u \ {Head(s).sur}
  <2> TAKE i \in 1..Len(t)
  <2>1. 1 \in 1..Len(s) /\ i + 1 \in 1..Len(s) /\ i + 1 # 1 /\ t[i] = s[i + 1]
    BY <1>2, <1>3
  <2>2. IsFallback(s[i + 1]) \/ s[i + 1].sur # s[1].sur
    BY <2>1 DEF CacheInv
  <2>3. IsFallback(s[i + 1]) \/ s[i + 1].sur \in u
    BY <2>1 DEF CacheInv
  <2> QED BY <1>2, <2>1, <2>2, <2>3
<1>9. u \ {Head(s).sur} \subseteq Surrogates(t)
  <2> SUFFICES ASSUME NEW x \in u, x # s[1].sur PROVE x \in Surrogates(t)
    BY <1>2
  <2>1. PICK i \in 1..Len(s) : x = s[i].sur
    BY DEF CacheInv, Surrogates
  <2>2. i - 1 \in 1..Len(t) /\ t[i - 1] = s[i]
    BY <1>1, <1>2, <2>1
  <2> QED BY <2>1, <2>2 DEF Surrogates
<1>10. CacheInv(t, u \ {Head(s).sur})
  BY <1>5, <1>6, <1>7, <1>8, <1>9 DEF CacheInv
<1> QED BY <1>1, <1>10 DEF t

-----------------------------------------------------------------------------
\* While the request fits, what it has mapped is the most recent end of the
\* cache, in order: this is why nothing of it can have been evicted.
MappingIsTail ==
    Len(mapping) <= Cap =>
        /\ Len(mapping) <= Len(cache)
        /\ \A i \in 1..Len(mapping) : mapping[i] = cache[Len(cache) - Len(mapping) + i]

IInv == /\ TypeOK
        /\ CacheInv(cache, used)
        /\ Len(cache) <= Cap
        /\ Len(fakers) <= FakerLruMax
        /\ MappingIsTail
        /\ RequestInjective

LEMMA IInvImplies ==
    ASSUME IInv
    PROVE  /\ CacheSound /\ UsedTracked /\ CacheInjective
           /\ RequestInjective /\ NeverIdentity
<1>1. CacheInjective
  <2> SUFFICES ASSUME NEW i \in 1..Len(cache), NEW j \in 1..Len(cache),
                      cache[i].sur = cache[j].sur, i # j
               PROVE  /\ cache[i].key.etype = cache[j].key.etype
                      /\ cache[i].key.text = cache[j].key.text
    BY DEF CacheInjective
  <2>1. IsFallback(cache[i]) /\ IsFallback(cache[j])
    BY DEF IInv, CacheInv
  <2>2. cache[i] \in Record /\ cache[j] \in Record
    BY ElementOfSeq DEF IInv, TypeOK
  <2>3. /\ cache[i].key.etype \in EType /\ cache[i].key.text \in Text
        /\ cache[j].key.etype \in EType /\ cache[j].key.text \in Text
    BY <2>2, RecordFields
  <2>4. Fallback(cache[i].key.etype, cache[i].key.text)
          = Fallback(cache[j].key.etype, cache[j].key.text)
    BY <2>1 DEF IsFallback
  <2> QED BY <2>3, <2>4, FallbackInjective
<1>2. CacheSound /\ UsedTracked /\ NeverIdentity
  BY DEF IInv, CacheInv, CacheSound, UsedTracked, NeverIdentity
<1> QED BY <1>1, <1>2 DEF IInv

\* If an attempt is accepted there is a first one.
LEMMA FirstAcceptedIs ==
    ASSUME NEW k, \E n \in Attempt : Accepted(k, n)
    PROVE  FirstAccepted(k) \in Attempt /\ Accepted(k, FirstAccepted(k))
<1> DEFINE T == {n \in Attempt : Accepted(k, n)}
<1>1. T \subseteq Nat /\ T # {}
  BY SurrogatesAssumption DEF Attempt
<1>2. PICK n \in T : \A m \in T : ~(<<m, n>> \in OpToRel(<, Nat))
  <2> HIDE DEF T
  <2> QED BY <1>1, NatLessThanWellFounded, WFMin
<1>3. \A m \in T : ~(m < n)
  BY <1>1, <1>2 DEF OpToRel
<1>4. n \in Attempt /\ Accepted(k, n) /\ \A m \in 0..(n - 1) : ~Accepted(k, m)
  <2> SUFFICES ASSUME NEW m \in 0..(n - 1) PROVE m \in Attempt /\ m < n
    BY <1>3
  <2> QED BY SurrogatesAssumption DEF Attempt
<1> QED BY <1>4 DEF FirstAccepted

\* for_match's answer is a value nobody uses, or the entity's fallback; it is
\* never the original.
LEMMA SurrogateIsFresh ==
    ASSUME IInv, NEW k \in Key, ~Raises(k)
    PROVE  LET r == [key |-> k, sur |-> Surrogate(k)]
           IN /\ r \in Record
              /\ r.sur \in Value \ used \/ IsFallback(r)
              /\ r.sur # r.key.text
<1> DEFINE r == [key |-> k, sur |-> Surrogate(k)]
<1>1. k.etype \in EType /\ k.text \in Text
  BY DEF Key
<1>2. CASE \E n \in Attempt : Accepted(k, n)
  <2> DEFINE n == FirstAccepted(k)
             src == IF Realistic(k) THEN FakerFor(k) ELSE Hash
  <2>1. n \in Attempt /\ Accepted(k, n) /\ r.sur = Candidate(k, n)
    BY <1>2, FirstAcceptedIs DEF Surrogate
  <2>2. src \in Source
    BY DEF IInv, TypeOK, Raises, Realistic, FakerFor, Source
  <2>3. gen \in [EType \X Text \X Source \X Attempt -> Value]
    BY SurrogatesAssumption DEF IInv, TypeOK
  <2>4. Candidate(k, n) = gen[<<k.etype, k.text, src, n>>]
    BY DEF Candidate
  <2> HIDE DEF n, src
  <2>5. <<k.etype, k.text, src, n>> \in EType \X Text \X Source \X Attempt
    BY <1>1, <2>1, <2>2
  <2>6. Candidate(k, n) \in Value
    BY <2>3, <2>4, <2>5
  <2> QED BY <2>1, <2>6 DEF Accepted, Record
<1>3. CASE ~ \E n \in Attempt : Accepted(k, n)
  <2>1. Surrogate(k) = Fallback(k.etype, k.text)
    BY <1>3 DEF Surrogate
  <2>2. Surrogate(k) \in Token
    BY <1>1, <2>1 DEF Token
  <2>3. Surrogate(k) # k.text
    BY <1>1, <2>1, FallbackAssumption
  <2> QED BY <2>1, <2>2, <2>3 DEF IsFallback, Record
<1> QED BY <1>2, <1>3

LEMMA KeyOfType ==
    ASSUME TypeOK, NEW e \in EType, NEW t \in Text
    PROVE  KeyOf(e, t) \in Key /\ KeyOf(e, t).etype = e /\ KeyOf(e, t).text = t
BY DEF TypeOK, KeyOf, Key

\* The LRU of Faker instances keeps its cap.
LEMMA FakersBounded ==
    ASSUME fakers \in Seq(ValidLocale), Len(fakers) <= FakerLruMax, NEW k
    PROVE  FakersAfter(k) \in Seq(ValidLocale) /\ Len(FakersAfter(k)) <= FakerLruMax
<1> DEFINE at == CHOOSE i \in 1..Len(fakers) : fakers[i] = k.locale
           grown == Append(fakers, k.locale)
<1>1. CASE ~k.faker \/ k.locale \notin ValidLocale
  BY <1>1 DEF FakersAfter
<1>2. CASE /\ ~(~k.faker \/ k.locale \notin ValidLocale)
           /\ \E i \in 1..Len(fakers) : fakers[i] = k.locale
  <2>1. at \in 1..Len(fakers) /\ fakers[at] = k.locale
    BY <1>2
  <2>2. FakersAfter(k) = Append(RemoveAt(fakers, at), fakers[at])
    BY <1>2, <2>1 DEF FakersAfter
  <2> HIDE DEF at
  <2> QED BY <2>1, <2>2, MoveToEnd
<1>3. CASE /\ ~(~k.faker \/ k.locale \notin ValidLocale)
           /\ ~ \E i \in 1..Len(fakers) : fakers[i] = k.locale
  <2>1. grown \in Seq(ValidLocale) /\ grown # <<>> /\ Len(grown) = Len(fakers) + 1
    BY <1>3, AppendProperties
  <2>2. FakersAfter(k) = IF Len(grown) > FakerLruMax THEN Tail(grown) ELSE grown
    BY <1>3 DEF FakersAfter
  <2> HIDE DEF grown
  <2>3. Tail(grown) \in Seq(ValidLocale) /\ Len(Tail(grown)) = Len(grown) - 1
    BY <2>1, HeadTailProperties
  <2> QED BY <2>1, <2>2, <2>3, SurrogatesAssumption, LenProperties
<1> QED BY <1>1, <1>2, <1>3

\* Finding a key: the record moves to the end of the cache and is appended to
\* the mapping; its text is new to the mapping, so the tail stays the tail.
LEMMA HitStep ==
    ASSUME IInv, NEW e \in EType, NEW t \in Text, Hit(e, t)
    PROVE  IInv'
<1> DEFINE k == KeyOf(e, t)
           p == Slot(k)
           r == cache[p]
           n == Len(cache)
           m == Len(mapping)
<1>1. /\ cache \in Seq(Record) /\ mapping \in Seq(Record) /\ n \in Nat /\ m \in Nat
      /\ CacheInv(cache, used) /\ n <= Cap /\ k.text = t
  BY KeyOfType, LenProperties DEF IInv, TypeOK
<1>2. p \in 1..n /\ cache[p].key = k
  BY DEF Hit, Keys, Slot
<1>3. /\ cache' = Append(RemoveAt(cache, p), cache[p])
      /\ mapping' = Append(mapping, r)
      /\ UNCHANGED <<gen, fake, used, fakers, req>>
      /\ t \notin Texts(mapping)
  BY DEF Hit, Unmapped
<1> HIDE DEF k, p
<1>4. r \in Record
  BY <1>1, <1>2, ElementOfSeq
<1>5. /\ cache' \in Seq(Record) /\ Len(cache') = n /\ cache'[n] = r
      /\ \A i \in 1..(n - 1) : cache'[i] = cache[IF i < p THEN i ELSE i + 1]
      /\ CacheInv(cache', used)
  <2>1. cache \in Seq(Record) /\ CacheInv(cache, used) /\ p \in 1..Len(cache)
    BY <1>1, <1>2
  <2>2. cache' = Append(RemoveAt(cache, p), cache[p])
    BY <1>3
  <2>3. \A v : v = Append(RemoveAt(cache, p), cache[p]) =>
          /\ v \in Seq(Record) /\ Len(v) = Len(cache) /\ v[Len(cache)] = cache[p]
          /\ \A i \in 1..(Len(cache) - 1) : v[i] = cache[IF i < p THEN i ELSE i + 1]
          /\ CacheInv(v, used)
    BY <2>1, MovedKeeps, Zenon
  <2> QED BY <2>2, <2>3, Zenon
<1>6. /\ mapping' \in Seq(Record) /\ Len(mapping') = m + 1
      /\ \A i \in 1..m : mapping'[i] = mapping[i]
      /\ mapping'[m + 1] = r
  BY <1>1, <1>3, <1>4, AppendProperties
<1>7. r.key.text = t /\ \A i \in 1..m : mapping[i].key.text # t
  BY <1>1, <1>2, <1>3 DEF Texts
<1>8. TypeOK'
  BY <1>3, <1>5, <1>6 DEF IInv, TypeOK
<1>9. MappingIsTail'
  <2> SUFFICES ASSUME m + 1 <= Cap
               PROVE  /\ m + 1 <= n
                      /\ \A i \in 1..(m + 1) : mapping'[i] = cache'[n - (m + 1) + i]
    BY <1>5, <1>6 DEF MappingIsTail, Cap
  <2>1. m <= n /\ \A i \in 1..m : mapping[i] = cache[n - m + i]
    BY <1>1, CapPositive DEF IInv, MappingIsTail
  <2>2. p <= n - m
    <3> SUFFICES ASSUME p > n - m PROVE FALSE
      BY <1>1, <1>2
    <3>1. p - (n - m) \in 1..m /\ n - m + (p - (n - m)) = p
      BY <1>1, <1>2, <2>1
    <3>2. mapping[p - (n - m)] = cache[p]
      BY <2>1, <3>1
    <3> QED BY <1>7, <3>1, <3>2
  <2>3. m + 1 <= n
    BY <1>1, <1>2, <2>2
  <2>4. ASSUME NEW i \in 1..m PROVE mapping'[i] = cache'[n - (m + 1) + i]
    <3>1. /\ n - (m + 1) + i \in 1..(n - 1)
          /\ ~(n - (m + 1) + i < p)
          /\ n - (m + 1) + i + 1 = n - m + i
      BY <1>1, <1>2, <2>2, <2>3
    <3>2. cache'[n - (m + 1) + i] = cache[n - m + i]
      BY <1>5, <3>1
    <3> QED BY <1>6, <2>1, <3>2
  <2>5. mapping'[m + 1] = cache'[n - (m + 1) + (m + 1)]
    BY <1>1, <1>5, <1>6
  <2>6. \A i \in 1..(m + 1) : i \in 1..m \/ i = m + 1
    BY <1>1
  <2> QED BY <2>3, <2>4, <2>5, <2>6
<1>10. RequestInjective'
  <2> SUFFICES ASSUME m + 1 <= Cap + 1 PROVE Injective(mapping')
    BY <1>6 DEF RequestInjective, Cap
  <2>1. m <= Cap
    BY <1>1, CapPositive
  <2>2. m <= n /\ \A i \in 1..m : mapping[i] = cache[n - m + i]
    BY <2>1 DEF IInv, MappingIsTail
  <2>3. Injective(mapping)
    BY <1>1, <2>1, CapPositive DEF IInv, RequestInjective
  <2>4. CacheInjective
    BY IInvImplies
  <2>5. ASSUME NEW i \in 1..m, mapping[i].sur = r.sur
        PROVE  mapping[i].key.text = r.key.text
    <3>1. n - m + i \in 1..n /\ mapping[i] = cache[n - m + i]
      BY <1>1, <2>2
    <3> QED BY <1>2, <2>4, <2>5, <3>1 DEF CacheInjective
  <2>6. \A i \in 1..Len(mapping') : \/ i \in 1..m /\ mapping'[i] = mapping[i]
                                    \/ i = m + 1 /\ mapping'[i] = r
    BY <1>1, <1>6
  <2> QED BY <2>3, <2>5, <2>6 DEF Injective
<1> QED BY <1>1, <1>3, <1>5, <1>8, <1>9, <1>10 DEF IInv, Cap

\* Issuing: the record is added, the oldest one may go.  The new surrogate is
\* fresh against the whole cache, of which the mapping is the most recent end.
LEMMA IssueStep ==
    ASSUME IInv, NEW e \in EType, NEW t \in Text, Issue(e, t)
    PROVE  IInv'
<1> DEFINE k == KeyOf(e, t)
           r == [key |-> k, sur |-> Surrogate(k)]
           grown == Append(cache, r)
           n == Len(cache)
           m == Len(mapping)
<1>1. /\ cache \in Seq(Record) /\ mapping \in Seq(Record) /\ n \in Nat /\ m \in Nat
      /\ CacheInv(cache, used) /\ n <= Cap /\ used \subseteq Value \cup Token
      /\ Cap \in Nat /\ Cap >= 1
  BY LenProperties, CapPositive DEF IInv, TypeOK
<1>2. k \in Key /\ k.text = t /\ k \notin Keys /\ ~Raises(k)
  BY KeyOfType DEF IInv, Issue
<1>3. /\ r \in Record
      /\ r.sur \in Value \ used \/ IsFallback(r)
      /\ r.sur # r.key.text
  BY <1>2, SurrogateIsFresh
<1>4. /\ mapping' = Append(mapping, r)
      /\ fakers' = FakersAfter(k)
      /\ UNCHANGED <<gen, fake, req, outcome>>
      /\ IF Len(grown) > Cap
         THEN cache' = Tail(grown) /\ used' = (used \cup {r.sur}) \ {Head(grown).sur}
         ELSE cache' = grown /\ used' = used \cup {r.sur}
  BY DEF Issue
<1>5. r.key = k /\ \A i \in 1..n : cache[i].key # r.key
  BY <1>2 DEF Keys
<1> HIDE DEF k, r
<1>6. grown \in Seq(Record) /\ Len(grown) = n + 1 /\ CacheInv(grown, used \cup {r.sur})
  <2>1. \A v : v = Append(cache, r) =>
               /\ v \in Seq(Record) /\ Len(v) = Len(cache) + 1
               /\ CacheInv(v, used \cup {r.sur})
    BY <1>1, <1>3, <1>5, AddedKeeps, Zenon
  <2> QED BY <2>1
<1>7. /\ \A i \in 1..n : grown[i] = cache[i]
      /\ grown[n + 1] = r
  BY <1>1, <1>3, AppendProperties
<1> HIDE DEF grown
<1>8. /\ mapping' \in Seq(Record) /\ Len(mapping') = m + 1
      /\ \A i \in 1..m : mapping'[i] = mapping[i]
      /\ mapping'[m + 1] = r
  BY <1>1, <1>3, <1>4, AppendProperties
<1>9. fakers' \in Seq(ValidLocale) /\ Len(fakers') <= FakerLruMax
  BY <1>4, FakersBounded DEF IInv, TypeOK
<1>10. used' \subseteq Value \cup Token
  BY <1>1, <1>3, <1>4, RecordFields
<1>11. /\ cache' \in Seq(Record) /\ Len(cache') <= Cap
       /\ CacheInv(cache', used') /\ MappingIsTail'
  <2> DEFINE Tailed(c) == m + 1 <= Cap =>
                /\ m + 1 <= Len(c)
                /\ \A i \in 1..(m + 1) : mapping'[i] = c[Len(c) - (m + 1) + i]
  <2>1. MappingIsTail' <=> Tailed(cache')
    BY <1>8 DEF MappingIsTail, Cap
  <2>2. m + 1 <= Cap => m <= n /\ \A i \in 1..m : mapping[i] = cache[n - m + i]
    BY <1>1 DEF IInv, MappingIsTail
  <2>3. CASE Len(grown) > Cap
    <3>1. /\ cache' = Tail(grown) /\ used' = (used \cup {r.sur}) \ {Head(grown).sur}
          /\ n = Cap /\ grown # <<>>
      BY <1>1, <1>4, <1>6, <2>3, EmptySeq
    <3>2. /\ cache' \in Seq(Record) /\ Len(cache') = n
          /\ CacheInv(cache', used')
      BY <1>1, <1>6, <3>1, EvictedKeeps
    <3>3. \A i \in 1..n : cache'[i] = grown[i + 1]
      BY <1>1, <1>6, <3>1, HeadTailProperties
    <3>4. Tailed(cache')
      <4> SUFFICES ASSUME m + 1 <= Cap, NEW i \in 1..(m + 1)
                   PROVE  mapping'[i] = cache'[n - (m + 1) + i]
        BY <1>1, <3>1, <3>2
      <4>1. /\ n - (m + 1) + i \in 1..n /\ (n - (m + 1) + i) + 1 = n - m + i
        BY <1>1, <3>1
      <4>2. cache'[n - (m + 1) + i] = grown[n - m + i]
        BY <3>3, <4>1
      <4>3. CASE i = m + 1
        BY <1>1, <1>7, <1>8, <4>2, <4>3
      <4>4. CASE i \in 1..m
        <5>1. n - m + i \in 1..n
          BY <1>1, <3>1, <4>4
        <5> QED BY <1>7, <1>8, <2>2, <4>2, <4>4, <5>1
      <4> QED BY <1>1, <4>3, <4>4
    <3> QED BY <1>1, <2>1, <3>1, <3>2, <3>4
  <2>4. CASE ~(Len(grown) > Cap)
    <3>1. cache' = grown /\ used' = used \cup {r.sur} /\ Len(cache') = n + 1
      BY <1>4, <1>6, <2>4
    <3>2. Tailed(cache')
      <4> SUFFICES ASSUME m + 1 <= Cap, NEW i \in 1..(m + 1)
                   PROVE  mapping'[i] = grown[n + 1 - (m + 1) + i]
        BY <1>1, <2>2, <3>1
      <4>1. n + 1 - (m + 1) + i = n - m + i
        BY <1>1
      <4>2. CASE i = m + 1
        BY <1>1, <1>7, <1>8, <4>1, <4>2
      <4>3. CASE i \in 1..m
        <5>1. n - m + i \in 1..n
          BY <1>1, <2>2, <4>3
        <5> QED BY <1>7, <1>8, <2>2, <4>1, <4>3, <5>1
      <4> QED BY <1>1, <4>2, <4>3
    <3> QED BY <1>1, <1>6, <2>1, <2>4, <3>1, <3>2
  <2> QED BY <2>3, <2>4
<1>12. RequestInjective'
  <2> SUFFICES ASSUME m <= Cap PROVE Injective(mapping')
    BY <1>1, <1>8 DEF RequestInjective, Cap
  <2>1. m <= n /\ \A i \in 1..m : mapping[i] = cache[n - m + i]
    BY DEF IInv, MappingIsTail
  <2>2. Injective(mapping)
    BY <1>1 DEF IInv, RequestInjective
  <2>3. ASSUME NEW i \in 1..m, mapping[i].sur = r.sur
        PROVE  mapping[i].key.text = r.key.text
    <3>1. n - m + i \in 1..(n + 1) /\ n - m + i # n + 1 /\ n + 1 \in 1..(n + 1)
      BY <1>1, <2>1
    <3>2. grown[n - m + i] = mapping[i] /\ grown[n + 1] = r
      BY <1>1, <1>7, <2>1, <3>1
    <3>3. IsFallback(mapping[i]) /\ IsFallback(r)
      BY <1>6, <2>3, <3>1, <3>2 DEF CacheInv
    <3>4. mapping[i] \in Record
      BY <1>1, ElementOfSeq
    <3>5. /\ mapping[i].key.etype \in EType /\ mapping[i].key.text \in Text
          /\ r.key.etype \in EType /\ r.key.text \in Text
      BY <1>3, <3>4, RecordFields
    <3>6. Fallback(mapping[i].key.etype, mapping[i].key.text)
            = Fallback(r.key.etype, r.key.text)
      BY <2>3, <3>3 DEF IsFallback
    <3> QED BY <3>5, <3>6, FallbackInjective
  <2>4. \A i \in 1..Len(mapping') : \/ i \in 1..m /\ mapping'[i] = mapping[i]
                                    \/ i = m + 1 /\ mapping'[i] = r
    BY <1>1, <1>8
  <2> QED BY <2>2, <2>3, <2>4 DEF Injective
<1>13. TypeOK'
  BY <1>4, <1>8, <1>9, <1>10, <1>11 DEF IInv, TypeOK
<1> QED BY <1>9, <1>11, <1>12, <1>13 DEF IInv, Cap

\* The steps that leave the cache alone start or end a request.
LEMMA RequestStep ==
    ASSUME IInv, UNCHANGED <<gen, fake, cache, used, fakers>>, mapping' = <<>>,
           req' \in [open : BOOLEAN, faker : BOOLEAN, locale : Locale \cup {NoLocale}]
    PROVE  IInv'
<1>1. Len(mapping') = 0 /\ mapping' \in Seq(Record)
  OBVIOUS
<1>2. Len(cache) \in Nat
  BY LenProperties DEF IInv, TypeOK
<1>3. TypeOK'
  BY <1>1 DEF IInv, TypeOK
<1>4. CacheInv(cache, used)' /\ (Len(cache) <= Cap)' /\ (Len(fakers) <= FakerLruMax)'
  BY DEF IInv, CacheInv, IsFallback, Surrogates, Cap
<1>5. MappingIsTail' /\ RequestInjective'
  BY <1>1, <1>2 DEF MappingIsTail, RequestInjective, Injective
<1> QED BY <1>3, <1>4, <1>5 DEF IInv

LEMMA Invariance == Spec => []IInv
<1>1. ASSUME Init PROVE IInv
  <2>1. TypeOK
    BY <1>1 DEF Init, TypeOK, Idle
  <2>2. Len(cache) = 0 /\ Len(fakers) = 0 /\ Len(mapping) = 0 /\ used = {}
    BY <1>1 DEF Init
  <2>3. CacheInv(cache, used)
    BY <2>2 DEF CacheInv
  <2>4. MappingIsTail /\ RequestInjective
    BY <2>2 DEF MappingIsTail, RequestInjective, Injective
  <2> QED BY <2>1, <2>2, <2>3, <2>4, CapPositive, SurrogatesAssumption DEF IInv
<1>2. ASSUME IInv, [Next]_vars PROVE IInv'
  <2>1. CASE \E f \in BOOLEAN, l \in Locale \cup {NoLocale} : Begin(f, l)
    BY <1>2, <2>1, RequestStep DEF Begin
  <2>2. CASE \E e \in EType, t \in Text : Hit(e, t)
    BY <1>2, <2>2, HitStep
  <2>3. CASE \E e \in EType, t \in Text : Issue(e, t)
    BY <1>2, <2>3, IssueStep
  <2>4. CASE \E e \in EType, t \in Text : Fail(e, t)
    BY <1>2, <2>4, RequestStep DEF Fail, Idle
  <2>5. CASE Finish
    BY <1>2, <2>5, RequestStep DEF Finish, Idle
  <2>6. CASE UNCHANGED vars
    BY <1>2, <2>6 DEF vars, IInv, TypeOK, CacheInv, Cap, MappingIsTail,
                      RequestInjective, Injective, IsFallback, Surrogates
  <2> QED BY <1>2, <2>1, <2>2, <2>3, <2>4, <2>5, <2>6 DEF Next
<1> QED BY <1>1, <1>2, PTL DEF Spec

-----------------------------------------------------------------------------
\* The variables of SurrogateGenerator keep their types and both of its LRUs
\* their caps, one record per key.
THEOREM CacheIsSound == Spec => [](TypeOK /\ CacheSound)
<1>1. IInv => TypeOK /\ CacheSound
  BY IInvImplies DEF IInv
<1> QED BY <1>1, Invariance, PTL

\* Every generated surrogate in the cache is marked used and nothing else is:
\* the test `candidate not in self._used_surrogates` is against the truth.
THEOREM UsedIsTracked == Spec => []UsedTracked
BY Invariance, IInvImplies, PTL

\* Whatever the requests, overrides and evictions, two originals never share a
\* surrogate in the cache.
THEOREM CacheIsInjective == Spec => []CacheInjective
BY Invariance, IInvImplies, PTL

\* A request of at most one text more than SURROGATE_CACHE_MAX_SIZE maps
\* different originals to different surrogates, so its vault entry loses none.
THEOREM RequestIsInjective == Spec => []RequestInjective
BY Invariance, IInvImplies, PTL

\* No surrogate equals the original it replaces.
THEOREM NeverTheOriginal == Spec => []NeverIdentity
BY Invariance, IInvImplies, PTL
=============================================================================
