------------------------- MODULE MemoryVault_proofs -------------------------
(***************************************************************************)
(* Theorems of MemoryVault for every cap, TTL, set of calls and entries.   *)
(* Sweep, pop and cap each leave a subsequence of the store, in order;     *)
(* the shape of the store survives because a subsequence inherits it.      *)
(***************************************************************************)
EXTENDS MemoryVault, FiniteSetTheorems, SequenceTheorems, WellFoundedInduction, TLAPS

Distinct(s) == \A i, j \in 1..Len(s) : s[i].cid = s[j].cid => i = j
Ordered(s) == \A i, j \in 1..Len(s) : i <= j => s[i].ts <= s[j].ts

\* f embeds u into s without changing the order.
Embeds(f, u, s) ==
    /\ f \in [1..Len(u) -> 1..Len(s)]
    /\ \A i, j \in 1..Len(u) : i < j => f[i] < f[j]
    /\ \A i \in 1..Len(u) : u[i] = s[f[i]]
Sub(u, s) == \E f : Embeds(f, u, s)

\* A subsequence inherits distinct calls and the order of timestamps.
LEMMA SubInherits ==
    ASSUME NEW s \in Seq(Record), NEW u \in Seq(Record), Sub(u, s)
    PROVE  /\ Distinct(s) => Distinct(u)
           /\ Ordered(s) => Ordered(u)
           /\ \A i \in 1..Len(u) : \E j \in 1..Len(s) : u[i] = s[j]
<1>1. PICK f : Embeds(f, u, s)
  BY DEF Sub
<1>2. Len(u) \in Nat /\ Len(s) \in Nat
  BY LenProperties
<1>3. \A i, j \in 1..Len(u) : f[i] = f[j] => i = j
  BY <1>1, <1>2 DEF Embeds
<1>4. ASSUME Distinct(s) PROVE Distinct(u)
  BY <1>1, <1>3, <1>4 DEF Embeds, Distinct
<1>5. ASSUME Ordered(s) PROVE Ordered(u)
  <2>1. \A i, j \in 1..Len(u) : i <= j => f[i] <= f[j]
    BY <1>1, <1>2 DEF Embeds
  <2>2. QED BY <1>1, <1>5, <2>1 DEF Embeds, Ordered
<1>6. \A i \in 1..Len(u) : \E j \in 1..Len(s) : u[i] = s[j]
  BY <1>1 DEF Embeds
<1> QED BY <1>4, <1>5, <1>6

\* A suffix is a subsequence.
LEMMA SuffixIsSub ==
    ASSUME NEW s \in Seq(Record), NEW k \in 0..Len(s)
    PROVE  /\ SubSeq(s, k + 1, Len(s)) \in Seq(Record)
           /\ Len(SubSeq(s, k + 1, Len(s))) = Len(s) - k
           /\ \A i \in 1..(Len(s) - k) : SubSeq(s, k + 1, Len(s))[i] = s[k + i]
           /\ Sub(SubSeq(s, k + 1, Len(s)), s)
<1> DEFINE u == SubSeq(s, k + 1, Len(s))
<1>1. Len(s) \in Nat /\ k \in Nat /\ k <= Len(s)
  BY LenProperties
<1>2. \A i \in (k + 1)..Len(s) : s[i] \in Record
  BY <1>1, ElementOfSeq
<1>3. /\ u \in Seq(Record)
      /\ Len(u) = IF k + 1 <= Len(s) THEN Len(s) - (k + 1) + 1 ELSE 0
      /\ \A i \in 1..(Len(s) - (k + 1) + 1) : u[i] = s[(k + 1) + i - 1]
  BY <1>1, <1>2, SubSeqProperties
<1>4. Len(u) = Len(s) - k /\ \A i \in 1..(Len(s) - k) : u[i] = s[k + i]
  BY <1>1, <1>3
<1>5. Embeds([i \in 1..Len(u) |-> k + i], u, s)
  BY <1>1, <1>4 DEF Embeds
<1> QED BY <1>3, <1>4, <1>5 DEF Sub

\* The sweep's scan always stops somewhere: at the least index that is not
\* followed by an expired record.
LEMMA PrefixExists ==
    ASSUME NEW s \in Seq(Record), NEW t \in Nat
    PROVE  \E k \in 0..Len(s) : IsExpiredPrefix(s, t, k)
<1> DEFINE T == {k \in 0..Len(s) : k < Len(s) => ~Expired(s[k + 1], t)}
<1>1. T \subseteq Nat /\ Len(s) \in T
  BY LenProperties
<1>2. PICK k \in T : \A y \in T : ~(<<y, k>> \in OpToRel(<, Nat))
  <2> HIDE DEF T
  <2> QED BY <1>1, NatLessThanWellFounded, WFMin
<1>3. \A y \in T : ~(y < k)
  BY <1>1, <1>2 DEF OpToRel
<1>4. \A i \in 1..k : Expired(s[i], t)
  <2> SUFFICES ASSUME NEW i \in 1..k PROVE Expired(s[i], t)
    OBVIOUS
  <2>1. i - 1 \in 0..Len(s) /\ i - 1 < k /\ k \in 0..Len(s) /\ Len(s) \in Nat
    BY LenProperties
  <2>2. i - 1 \notin T
    BY <2>1, <1>3
  <2>3. QED BY <2>1, <2>2
<1> QED BY <1>4 DEF IsExpiredPrefix

\* What the sweep leaves of a store in order: a suffix without expired records.
LEMMA EvictProperties ==
    ASSUME NEW s \in Seq(Record), NEW t \in Nat
    PROVE  /\ EvictExpired(s, t) \in Seq(Record)
           /\ Sub(EvictExpired(s, t), s)
           /\ Len(EvictExpired(s, t)) <= Len(s)
           /\ Ordered(s) => \A i \in 1..Len(EvictExpired(s, t)) :
                                ~Expired(EvictExpired(s, t)[i], t)
           /\ \A j \in 1..Len(s) : ~Expired(s[j], t) =>
                \E i \in 1..Len(EvictExpired(s, t)) : EvictExpired(s, t)[i] = s[j]
<1> DEFINE k == CHOOSE k \in 0..Len(s) : IsExpiredPrefix(s, t, k)
           u == EvictExpired(s, t)
<1>1. k \in 0..Len(s) /\ IsExpiredPrefix(s, t, k)
  BY PrefixExists
<1>2. u = SubSeq(s, k + 1, Len(s))
  BY DEF EvictExpired
<1> HIDE DEF k
<1>3. /\ u \in Seq(Record) /\ Sub(u, s)
      /\ Len(u) = Len(s) - k
      /\ \A i \in 1..(Len(s) - k) : u[i] = s[k + i]
  BY <1>1, <1>2, SuffixIsSub
<1> HIDE DEF u
<1>4. Len(s) \in Nat /\ k \in Nat /\ k <= Len(s)
  BY <1>1, LenProperties
<1>5. ASSUME Ordered(s), NEW i \in 1..Len(u) PROVE ~Expired(u[i], t)
  <2>1. k + 1 \in 1..Len(s) /\ k + i \in 1..Len(s) /\ k + 1 <= k + i /\ k < Len(s)
    BY <1>3, <1>4
  <2>2. ~Expired(s[k + 1], t)
    BY <1>1, <2>1 DEF IsExpiredPrefix
  <2>3. s[k + 1] \in Record /\ s[k + i] \in Record
    BY <2>1, ElementOfSeq
  <2>4. s[k + 1].ts \in Nat /\ s[k + i].ts \in Nat
    BY <2>3 DEF Record
  <2>5. s[k + 1].ts <= s[k + i].ts
    BY <1>5, <2>1 DEF Ordered
  <2>6. u[i] = s[k + i]
    BY <1>3, <1>4
  <2> QED BY <2>2, <2>4, <2>5, <2>6, MemoryVaultAssumption DEF Expired
<1>6. ASSUME NEW j \in 1..Len(s), ~Expired(s[j], t)
      PROVE  \E i \in 1..Len(u) : u[i] = s[j]
  <2>1. k < j
    BY <1>1, <1>4, <1>6 DEF IsExpiredPrefix
  <2>2. j - k \in 1..Len(u) /\ u[j - k] = s[j]
    BY <1>3, <1>4, <2>1
  <2> QED BY <2>2
<1> QED BY <1>3, <1>4, <1>5, <1>6 DEF u

\* dict.pop leaves a subsequence, without the call when calls are distinct,
\* and keeps every other record.
LEMMA DropProperties ==
    ASSUME NEW s \in Seq(Record), NEW c
    PROVE  /\ Drop(s, c) \in Seq(Record)
           /\ Sub(Drop(s, c), s)
           /\ Len(Drop(s, c)) <= Len(s)
           /\ Distinct(s) => \A i \in 1..Len(Drop(s, c)) : Drop(s, c)[i].cid # c
           /\ \A j \in 1..Len(s) : s[j].cid # c =>
                \E i \in 1..Len(Drop(s, c)) : Drop(s, c)[i] = s[j]
<1>1. Len(s) \in Nat
  BY LenProperties
<1>2. CASE c \notin Ids(s)
  <2>1. Drop(s, c) = s /\ \A i \in 1..Len(s) : s[i].cid # c
    BY <1>2 DEF Drop, Ids
  <2>2. Embeds([i \in 1..Len(s) |-> i], s, s)
    BY <1>1 DEF Embeds
  <2> QED BY <1>1, <2>1, <2>2 DEF Sub
<1>3. CASE c \in Ids(s)
  <2> DEFINE p == Position(s, c)
             u == Drop(s, c)
             f == [i \in 1..(Len(s) - 1) |-> IF i < p THEN i ELSE i + 1]
  <2>1. p \in 1..Len(s) /\ s[p].cid = c
    BY <1>3 DEF Ids, Position
  <2>2. u = SubSeq(s, 1, p - 1) \o SubSeq(s, p + 1, Len(s))
    BY <1>3 DEF Drop, RemoveAt
  <2> HIDE DEF p, u
  <2>3. \A i \in 1..Len(s) : s[i] \in Record
    BY ElementOfSeq
  <2>4. /\ SubSeq(s, 1, p - 1) \in Seq(Record)
        /\ Len(SubSeq(s, 1, p - 1)) = p - 1
        /\ \A i \in 1..(p - 1) : SubSeq(s, 1, p - 1)[i] = s[i]
    <3>1. /\ SubSeq(s, 1, p - 1) \in Seq(Record)
          /\ Len(SubSeq(s, 1, p - 1)) = IF 1 <= p - 1 THEN (p - 1) - 1 + 1 ELSE 0
          /\ \A i \in 1..((p - 1) - 1 + 1) : SubSeq(s, 1, p - 1)[i] = s[1 + i - 1]
      <4>1. 1 \in Int /\ p - 1 \in Int /\ \A i \in 1..(p - 1) : s[i] \in Record
        BY <1>1, <2>1, <2>3
      <4> QED BY <4>1, SubSeqProperties
    <3> QED BY <1>1, <2>1, <3>1
  <2>5. /\ SubSeq(s, p + 1, Len(s)) \in Seq(Record)
        /\ Len(SubSeq(s, p + 1, Len(s))) = Len(s) - p
        /\ \A i \in 1..(Len(s) - p) : SubSeq(s, p + 1, Len(s))[i] = s[p + i]
    BY <1>1, <2>1, SuffixIsSub
  <2>6. /\ u \in Seq(Record)
        /\ Len(u) = (p - 1) + (Len(s) - p)
        /\ \A i \in 1..((p - 1) + (Len(s) - p)) :
              u[i] = IF i <= p - 1 THEN SubSeq(s, 1, p - 1)[i]
                                   ELSE SubSeq(s, p + 1, Len(s))[i - (p - 1)]
    BY <2>2, <2>4, <2>5, ConcatProperties
  <2>7. Len(u) = Len(s) - 1 /\ \A i \in 1..Len(u) : u[i] = s[f[i]]
    BY <1>1, <2>1, <2>4, <2>5, <2>6
  <2>8. Embeds(f, u, s)
    BY <1>1, <2>1, <2>7 DEF Embeds
  <2>9. Distinct(s) => \A i \in 1..Len(u) : u[i].cid # c
    <3>1. \A i \in 1..Len(u) : f[i] \in 1..Len(s) /\ f[i] # p
      BY <1>1, <2>1, <2>7
    <3> QED BY <2>1, <2>7, <3>1 DEF Distinct
  <2>10. ASSUME NEW j \in 1..Len(s), s[j].cid # c
         PROVE  \E i \in 1..Len(u) : u[i] = s[j]
    <3>1. j # p
      BY <2>1, <2>10
    <3>2. CASE j < p
      <4>1. j \in 1..Len(u) /\ f[j] = j
        BY <1>1, <2>1, <2>7, <3>2
      <4> QED BY <2>7, <4>1
    <3>3. CASE j > p
      <4>1. j - 1 \in 1..Len(u) /\ f[j - 1] = j
        BY <1>1, <2>1, <2>7, <3>3
      <4> QED BY <2>7, <4>1
    <3> QED BY <1>1, <2>1, <3>1, <3>2, <3>3
  <2> QED BY <1>1, <2>6, <2>7, <2>8, <2>9, <2>10 DEF Sub, u
<1> QED BY <1>2, <1>3

\* The cap is at least one whatever was configured.
LEMMA CapPositive == Cap \in Nat /\ Cap >= 1
BY MemoryVaultAssumption DEF Cap

\* The cap keeps the newest records, and never more than Cap.
LEMMA KeepNewestProperties ==
    ASSUME NEW s \in Seq(Record)
    PROVE  /\ KeepNewest(s) \in Seq(Record)
           /\ Sub(KeepNewest(s), s)
           /\ Len(KeepNewest(s)) <= Cap
           /\ s # <<>> => /\ Len(KeepNewest(s)) >= 1
                          /\ KeepNewest(s)[Len(KeepNewest(s))] = s[Len(s)]
<1>1. Len(s) \in Nat /\ (s # <<>> => Len(s) >= 1)
  BY LenProperties, EmptySeq
<1>2. CASE Len(s) > Cap
  <2> DEFINE k == Len(s) - Cap
  <2>1. k \in 0..Len(s) /\ KeepNewest(s) = SubSeq(s, k + 1, Len(s))
    BY <1>1, <1>2, CapPositive DEF KeepNewest
  <2> HIDE DEF k
  <2>2. /\ KeepNewest(s) \in Seq(Record) /\ Sub(KeepNewest(s), s)
        /\ Len(KeepNewest(s)) = Len(s) - k
        /\ \A i \in 1..(Len(s) - k) : KeepNewest(s)[i] = s[k + i]
    BY <2>1, SuffixIsSub
  <2> QED BY <1>1, <1>2, <2>2, CapPositive DEF k
<1>3. CASE ~(Len(s) > Cap)
  <2>1. KeepNewest(s) = s
    BY <1>3 DEF KeepNewest
  <2>2. Embeds([i \in 1..Len(s) |-> i], s, s)
    BY <1>1 DEF Embeds
  <2> QED BY <1>1, <1>3, <2>1, <2>2, CapPositive DEF Sub
<1> QED BY <1>2, <1>3

\* What put does to the store, from the sweep to the cap.
LEMMA PutProperties ==
    ASSUME NEW s \in Seq(Record), Distinct(s), Ordered(s),
           NEW n \in Nat, NEW d \in 0..1, NEW c \in CallId, NEW e \in Entry,
           \A i \in 1..Len(s) : s[i].ts <= n,
           NEW r, r = [cid |-> c, ts |-> n + d, entry |-> e],
           NEW u, u = KeepNewest(Append(Drop(EvictExpired(s, n), c), r))
    PROVE  /\ r \in Record
           /\ u \in Seq(Record) /\ Distinct(u) /\ Ordered(u) /\ Len(u) <= Cap
           /\ Len(u) >= 1 /\ u[Len(u)] = r
           /\ \A i \in 1..Len(u) : u[i] = r \/ ~Expired(u[i], n)
           /\ \A i \in 1..Len(u) : u[i] = r \/ \E j \in 1..Len(s) : u[i] = s[j]
           /\ \A i \in 1..Len(u) : u[i].ts <= n + d
<1> DEFINE v == EvictExpired(s, n)
           w == Drop(v, c)
           a == Append(w, r)
<1>0. u = KeepNewest(a)
  OBVIOUS
<1>1. r \in Record /\ r.cid = c /\ r.ts = n + d /\ n + d \in Nat
  BY DEF Record
<1>2. /\ v \in Seq(Record) /\ Distinct(v) /\ Ordered(v)
      /\ \A i \in 1..Len(v) : ~Expired(v[i], n) /\ \E j \in 1..Len(s) : v[i] = s[j]
  BY EvictProperties, SubInherits
<1> HIDE DEF v
<1>3. /\ w \in Seq(Record) /\ Distinct(w) /\ Ordered(w)
      /\ \A i \in 1..Len(w) : w[i].cid # c
      /\ \A i \in 1..Len(w) : ~Expired(w[i], n) /\ \E j \in 1..Len(s) : w[i] = s[j]
  <2>1. w \in Seq(Record) /\ Sub(w, v) /\ \A i \in 1..Len(w) : w[i].cid # c
    BY <1>2, DropProperties
  <2> HIDE DEF w
  <2>2. /\ Distinct(w) /\ Ordered(w)
        /\ \A i \in 1..Len(w) : \E j \in 1..Len(v) : w[i] = v[j]
    BY <1>2, <2>1, SubInherits
  <2> QED BY <1>2, <2>1, <2>2
<1> HIDE DEF w
<1>4. \A i \in 1..Len(w) : w[i].ts \in Nat /\ w[i].ts <= n
  <2> TAKE i \in 1..Len(w)
  <2>1. w[i] \in Record
    BY <1>3, ElementOfSeq
  <2> QED BY <1>3, <2>1 DEF Record
<1>5. /\ a \in Seq(Record) /\ Len(a) = Len(w) + 1 /\ a # <<>>
      /\ \A i \in 1..Len(w) : a[i] = w[i]
      /\ a[Len(a)] = r /\ Len(w) \in Nat
  BY <1>1, <1>3, AppendProperties, LenProperties
<1> HIDE DEF a
<1>5a. \A i \in 1..Len(a) : (i \in 1..Len(w) /\ a[i] = w[i]) \/ (i = Len(a) /\ a[i] = r)
  BY <1>5
<1>6. Distinct(a)
  <2> SUFFICES ASSUME NEW i \in 1..Len(a), NEW j \in 1..Len(a), a[i].cid = a[j].cid
               PROVE  i = j
    BY DEF Distinct
  <2>1. CASE i \in 1..Len(w) /\ j \in 1..Len(w)
    BY <1>3, <1>5, <2>1 DEF Distinct
  <2>2. CASE ~(i \in 1..Len(w) /\ j \in 1..Len(w))
    BY <1>1, <1>3, <1>5a, <2>2
  <2> QED BY <2>1, <2>2
<1>7. Ordered(a)
  <2> SUFFICES ASSUME NEW i \in 1..Len(a), NEW j \in 1..Len(a), i <= j
               PROVE  a[i].ts <= a[j].ts
    BY DEF Ordered
  <2>1. CASE j \in 1..Len(w)
    <3>1. i \in 1..Len(w)
      BY <1>5, <2>1
    <3> QED BY <1>3, <1>5, <2>1, <3>1 DEF Ordered
  <2>2. CASE j = Len(a)
    <3>1. a[j].ts = n + d
      BY <1>1, <1>5, <2>2
    <3>2. CASE i \in 1..Len(w)
      <4>1. a[i].ts \in Nat /\ a[i].ts <= n
        BY <1>4, <1>5, <3>2
      <4> QED BY <3>1, <4>1
    <3>3. CASE i = Len(a)
      BY <1>1, <2>2, <3>1, <3>3
    <3> QED BY <1>5a, <3>2, <3>3
  <2> QED BY <1>5a, <2>1, <2>2
<1>8. /\ u \in Seq(Record) /\ Sub(u, a) /\ Len(u) <= Cap
      /\ Len(u) >= 1 /\ u[Len(u)] = r
  BY <1>0, <1>5, KeepNewestProperties
<1>9. /\ Distinct(u) /\ Ordered(u)
      /\ \A i \in 1..Len(u) : \E j \in 1..Len(a) : u[i] = a[j]
  BY <1>5, <1>6, <1>7, <1>8, SubInherits
<1>10. \A i \in 1..Len(u) : u[i] = r \/ \E j \in 1..Len(w) : u[i] = w[j]
  BY <1>5, <1>9
<1>11. \A i \in 1..Len(u) : u[i].ts <= n + d
  BY <1>1, <1>4, <1>10
<1> QED BY <1>1, <1>3, <1>8, <1>9, <1>10, <1>11

StoreInv == TypeOK /\ StoreSound

LEMMA StoreSoundParts ==
    StoreSound <=> /\ Distinct(store) /\ Ordered(store) /\ Len(store) <= Cap
                   /\ \A i \in 1..Len(store) : store[i].ts <= now
BY DEF StoreSound, DistinctIds, Chronological, Bounded, Distinct, Ordered

LEMMA StoreInvInit == Init => StoreInv
<1> SUFFICES ASSUME Init PROVE StoreInv
  OBVIOUS
<1>1. store = <<>> /\ Len(store) = 0 /\ store \in Seq(Record)
  BY EmptySeq DEF Init
<1>2. TypeOK
  BY <1>1 DEF Init, TypeOK
<1>3. StoreSound
  BY <1>1, CapPositive DEF Init, StoreSound, DistinctIds, Chronological, Bounded
<1> QED BY <1>2, <1>3 DEF StoreInv

\* put, as an action: what it makes of the store, and that the state stays sound.
LEMMA PutStep ==
    ASSUME StoreInv, NEW c \in CallId, NEW e \in Entry, NEW d \in 0..1, Put(c, e, d)
    PROVE  /\ StoreInv'
           /\ \A i \in 1..Len(store') :
                  store'[i].cid = c \/ ~Expired(store'[i], now)
<1> DEFINE r == [cid |-> c, ts |-> now + d, entry |-> e]
<1>1. /\ now \in Nat /\ store \in Seq(Record) /\ Distinct(store) /\ Ordered(store)
      /\ \A i \in 1..Len(store) : store[i].ts <= now
  BY StoreSoundParts DEF StoreInv, TypeOK
<1>0. r = [cid |-> c, ts |-> now + d, entry |-> e] /\ r.cid = c
  OBVIOUS
<1>2. /\ store' = KeepNewest(Append(Drop(EvictExpired(store, now), c), r))
      /\ now' = now + d
  BY DEF Put
<1>2a. /\ last' = [last EXCEPT ![c] = r]
       /\ later' = [b \in CallId |-> IF b = c THEN {} ELSE later[b] \cup {c}]
  BY DEF Put
<1> HIDE DEF r
<1>3. /\ r \in Record /\ store' \in Seq(Record) /\ Distinct(store')
      /\ Ordered(store') /\ Len(store') <= Cap
  BY <1>0, <1>1, <1>2, PutProperties
<1>3a. \A i \in 1..Len(store') : store'[i] = r \/ ~Expired(store'[i], now)
  BY <1>0, <1>1, <1>2, PutProperties DEF Expired
<1>3b. \A i \in 1..Len(store') : store'[i].ts <= now + d
  BY <1>0, <1>1, <1>2, PutProperties
<1>4. TypeOK'
  BY <1>1, <1>2, <1>2a, <1>3 DEF TypeOK, StoreInv
<1>5. StoreSound'
  BY <1>2, <1>3, <1>3b DEF StoreSound, DistinctIds, Chronological, Bounded, Distinct, Ordered, Cap
<1> QED BY <1>3a, <1>0, <1>4, <1>5 DEF StoreInv

\* pop leaves the store sound.
LEMMA PopStep ==
    ASSUME StoreInv, NEW c \in CallId, Pop(c)
    PROVE  StoreInv'
<1>1. /\ store \in Seq(Record) /\ Distinct(store) /\ Ordered(store)
      /\ Len(store) <= Cap /\ \A i \in 1..Len(store) : store[i].ts <= now
  BY StoreSoundParts DEF StoreInv, TypeOK
<1>2. /\ store' = Drop(store, c)
      /\ last' = [last EXCEPT ![c] = NoRecord]
      /\ now' = now /\ later' = later
  BY DEF Pop
<1>3. store' \in Seq(Record) /\ Sub(store', store) /\ Len(store') <= Len(store)
  BY <1>1, <1>2, DropProperties
<1>4. /\ Distinct(store') /\ Ordered(store')
      /\ \A i \in 1..Len(store') : \E j \in 1..Len(store) : store'[i] = store[j]
  BY <1>1, <1>3, SubInherits
<1>5. Len(store') <= Cap
  BY <1>1, <1>3, CapPositive, LenProperties
<1>6. TypeOK'
  BY <1>2, <1>3 DEF StoreInv, TypeOK
<1>7. StoreSound'
  BY <1>1, <1>2, <1>4, <1>5
     DEF StoreSound, DistinctIds, Chronological, Bounded, Distinct, Ordered, Cap
<1> QED BY <1>6, <1>7 DEF StoreInv

\* The clock only moves forward.
LEMMA TickStep == ASSUME StoreInv, Tick PROVE StoreInv'
<1>1. /\ store \in Seq(Record) /\ now \in Nat
      /\ \A i \in 1..Len(store) : store[i].ts <= now
  BY StoreSoundParts DEF StoreInv, TypeOK
<1>2. \A i \in 1..Len(store) : store[i].ts \in Nat
  <2> TAKE i \in 1..Len(store)
  <2>1. store[i] \in Record
    BY <1>1, ElementOfSeq
  <2> QED BY <2>1 DEF Record
<1>3. now' = now + 1 /\ UNCHANGED <<store, last, later>>
  BY DEF Tick
<1>4. \A i \in 1..Len(store) : store[i].ts <= now'
  BY <1>1, <1>2, <1>3
<1>5. TypeOK'
  BY <1>1, <1>3 DEF StoreInv, TypeOK
<1>6. StoreSound'
  BY <1>3, <1>4 DEF StoreInv, StoreSound, DistinctIds, Chronological, Bounded, Cap
<1> QED BY <1>5, <1>6 DEF StoreInv

LEMMA RestartStep == ASSUME StoreInv, Restart PROVE StoreInv'
<1>1. store' = <<>> /\ Len(store') = 0 /\ store' \in Seq(Record) /\ now' = now
  BY EmptySeq DEF Restart
<1>2. TypeOK'
  BY <1>1 DEF StoreInv, TypeOK, Restart
<1>3. StoreSound'
  BY <1>1, CapPositive DEF StoreSound, DistinctIds, Chronological, Bounded, Cap
<1> QED BY <1>2, <1>3 DEF StoreInv

LEMMA StoreInvStep == StoreInv /\ [Next]_vars => StoreInv'
<1> SUFFICES ASSUME StoreInv, [Next]_vars PROVE StoreInv'
  OBVIOUS
<1>1. CASE \E c \in CallId, e \in Entry, d \in 0..1 : Put(c, e, d)
  BY <1>1, PutStep
<1>2. CASE \E c \in CallId : PutEmpty(c) \/ Peek(c)
  BY <1>2 DEF PutEmpty, Peek, StoreInv, TypeOK, StoreSound, DistinctIds,
              Chronological, Bounded, Cap
<1>3. CASE \E c \in CallId : Pop(c)
  BY <1>3, PopStep
<1>4. CASE Tick
  BY <1>4, TickStep
<1>5. CASE Restart
  BY <1>5, RestartStep
<1>6. CASE UNCHANGED vars
  BY <1>6 DEF vars, StoreInv, TypeOK, StoreSound, DistinctIds, Chronological,
              Bounded, Cap
<1> QED BY <1>1, <1>2, <1>3, <1>4, <1>5, <1>6 DEF Next

\* vault_memory.py keeps a well-typed store: at most one record per call, in
\* the order of their timestamps, none from the future, never more than the
\* cap, whatever the interleaving of put, peek, pop, restarts and time.
THEOREM StoreIsSound == Spec => [](TypeOK /\ StoreSound)
<1>1. Spec => []StoreInv
  BY StoreInvInit, StoreInvStep, PTL DEF Spec
<1> QED BY <1>1, PTL DEF StoreInv

\* _evict_expired_locked stops at the first live entry and still leaves nothing
\* expired behind it: every put sweeps all there is to sweep.
THEOREM SweepIsComplete == Spec => SweepComplete
<1>1. StoreInv /\ [Next]_vars => [PutSweepsAll]_vars
  BY PutStep DEF PutSweepsAll
<1>2. Spec => []StoreInv
  BY StoreInvInit, StoreInvStep, PTL DEF Spec
<1> QED BY <1>1, <1>2, PTL DEF Spec, SweepComplete

-----------------------------------------------------------------------------
\* The contract.  Visible(s, t) is what Vault calls visible.
Visible(s, t) == [c \in CallId |-> Lookup(s, c, t)]

\* Lookup finds the one record of the call.
LEMMA LookupFinds ==
    ASSUME NEW s, Distinct(s), NEW t, NEW i \in 1..Len(s)
    PROVE  Lookup(s, s[i].cid, t) = IF Expired(s[i], t) THEN NoEntry ELSE s[i].entry
<1> DEFINE p == Position(s, s[i].cid)
<1>1. s[i].cid \in Ids(s)
  BY DEF Ids
<1>2. p \in 1..Len(s) /\ s[p].cid = s[i].cid
  BY DEF Position
<1>3. p = i
  BY <1>2 DEF Distinct
<1> QED BY <1>1, <1>3 DEF Lookup

LEMMA LookupMisses ==
    ASSUME NEW s, NEW t, NEW c, c \notin Ids(s)
    PROVE  Lookup(s, c, t) = NoEntry
BY DEF Lookup

LEMMA LookupType ==
    ASSUME NEW s \in Seq(Record), Distinct(s), NEW t, NEW c \in CallId
    PROVE  Lookup(s, c, t) \in Entry \cup {NoEntry}
<1>1. CASE c \in Ids(s)
  <2>1. PICK i \in 1..Len(s) : s[i].cid = c
    BY <1>1 DEF Ids
  <2>2. s[i] \in Record
    BY ElementOfSeq
  <2>3. s[i].entry \in Entry
    BY <2>2 DEF Record
  <2> QED BY <2>1, <2>3, LookupFinds
<1>2. CASE c \notin Ids(s)
  BY <1>2, LookupMisses
<1> QED BY <1>1, <1>2

\* A store whose records all come from the old one, looked at no earlier, shows
\* of a call what the old one showed, or nothing.
LEMMA LookupFades ==
    ASSUME NEW s \in Seq(Record), NEW u \in Seq(Record), Distinct(s), Distinct(u),
           NEW t \in Nat, NEW t2 \in Nat, t <= t2, NEW c \in CallId,
           \A i \in 1..Len(u) : u[i].cid = c => \E j \in 1..Len(s) : u[i] = s[j]
    PROVE  Lookup(u, c, t2) \in {Lookup(s, c, t), NoEntry}
<1>1. CASE c \notin Ids(u)
  BY <1>1, LookupMisses
<1>2. CASE c \in Ids(u)
  <2>1. PICK i \in 1..Len(u) : u[i].cid = c
    BY <1>2 DEF Ids
  <2>2. PICK j \in 1..Len(s) : u[i] = s[j]
    BY <2>1
  <2>3. s[j] \in Record
    BY ElementOfSeq
  <2>4. Expired(s[j], t) => Expired(s[j], t2)
    BY <2>3, MemoryVaultAssumption DEF Expired, Record
  <2>5. Lookup(u, u[i].cid, t2) = IF Expired(u[i], t2) THEN NoEntry ELSE u[i].entry
    BY LookupFinds
  <2>6. Lookup(s, s[j].cid, t) = IF Expired(s[j], t) THEN NoEntry ELSE s[j].entry
    BY LookupFinds
  <2> QED BY <2>1, <2>2, <2>4, <2>5, <2>6
<1> QED BY <1>1, <1>2

\* The state facts each step of the refinement starts from.
LEMMA StoreFacts ==
    ASSUME StoreInv
    PROVE  /\ store \in Seq(Record) /\ now \in Nat /\ Distinct(store) /\ Ordered(store)
           /\ \A i \in 1..Len(store) : store[i].ts <= now
           /\ Visible(store, now) \in [CallId -> Entry \cup {NoEntry}]
BY StoreSoundParts, LookupType DEF StoreInv, TypeOK, Visible

\* put shows the new entry, and of every other call what it showed or nothing.
LEMMA PutShows ==
    ASSUME StoreInv, NEW c \in CallId, NEW e \in Entry, NEW d \in 0..1, Put(c, e, d)
    PROVE  /\ Lookup(store', c, now') = e
           /\ \A b \in CallId \ {c} :
                 Lookup(store', b, now') \in {Lookup(store, b, now), NoEntry}
<1> DEFINE r == [cid |-> c, ts |-> now + d, entry |-> e]
<1>1. /\ store \in Seq(Record) /\ now \in Nat /\ Distinct(store) /\ Ordered(store)
      /\ \A i \in 1..Len(store) : store[i].ts <= now
  BY StoreFacts
<1>2. /\ store' = KeepNewest(Append(Drop(EvictExpired(store, now), c), r))
      /\ now' = now + d
  BY DEF Put
<1>3. /\ store' \in Seq(Record) /\ Distinct(store')
      /\ Len(store') >= 1 /\ store'[Len(store')] = r
      /\ \A i \in 1..Len(store') :
            store'[i] = r \/ \E j \in 1..Len(store) : store'[i] = store[j]
  BY <1>1, <1>2, PutProperties
<1>4. r.cid = c /\ r.ts = now' /\ r.entry = e /\ now' \in Nat
  BY <1>1, <1>2
<1> HIDE DEF r
<1>5. Lookup(store', c, now') = e
  <2>1. Len(store') \in 1..Len(store')
    BY <1>3, LenProperties
  <2>2. Lookup(store', store'[Len(store')].cid, now')
          = IF Expired(store'[Len(store')], now') THEN NoEntry
            ELSE store'[Len(store')].entry
    BY <1>3, <2>1, LookupFinds
  <2>3. ~Expired(r, now')
    <3>1. (now + d) - (now + d) = 0 /\ ~(0 > TtlS)
      BY <1>1, MemoryVaultAssumption
    <3> QED BY <1>2, <3>1 DEF Expired, r
  <2> QED BY <1>3, <1>4, <2>2, <2>3
<1>6. ASSUME NEW b \in CallId \ {c}
      PROVE  Lookup(store', b, now') \in {Lookup(store, b, now), NoEntry}
  <2>1. \A i \in 1..Len(store') :
           store'[i].cid = b => \E j \in 1..Len(store) : store'[i] = store[j]
    BY <1>3, <1>4
  <2>2. now <= now' /\ now' \in Nat
    BY <1>1, <1>2
  <2> QED BY <1>1, <1>3, <2>1, <2>2, LookupFades
<1> QED BY <1>5, <1>6

\* pop hides its call and nothing else.
LEMMA PopShows ==
    ASSUME StoreInv, NEW c \in CallId, Pop(c), NEW b \in CallId
    PROVE  Lookup(store', b, now') = IF b = c THEN NoEntry ELSE Lookup(store, b, now)
<1>1. store \in Seq(Record) /\ Distinct(store)
  BY StoreFacts
<1>2. store' = Drop(store, c) /\ now' = now
  BY DEF Pop
<1>3. /\ store' \in Seq(Record) /\ Sub(store', store)
      /\ \A i \in 1..Len(store') : store'[i].cid # c
      /\ \A j \in 1..Len(store) : store[j].cid # c =>
            \E i \in 1..Len(store') : store'[i] = store[j]
  BY <1>1, <1>2, DropProperties
<1>4. /\ Distinct(store')
      /\ \A i \in 1..Len(store') : \E j \in 1..Len(store) : store'[i] = store[j]
  BY <1>1, <1>3, SubInherits
<1>5. CASE b = c
  <2>1. b \notin Ids(store')
    BY <1>3, <1>5 DEF Ids
  <2> QED BY <1>5, <2>1, LookupMisses
<1>6. CASE b # c /\ b \notin Ids(store)
  <2>1. b \notin Ids(store')
    BY <1>4, <1>6 DEF Ids
  <2> QED BY <1>6, <2>1, LookupMisses
<1>7. CASE b # c /\ b \in Ids(store)
  <2>1. PICK j \in 1..Len(store) : store[j].cid = b
    BY <1>7 DEF Ids
  <2>2. PICK i \in 1..Len(store') : store'[i] = store[j]
    BY <1>3, <1>7, <2>1
  <2>3. Lookup(store, store[j].cid, now)
          = IF Expired(store[j], now) THEN NoEntry ELSE store[j].entry
    BY <1>1, LookupFinds
  <2>4. Lookup(store', store'[i].cid, now)
          = IF Expired(store'[i], now) THEN NoEntry ELSE store'[i].entry
    BY <1>4, LookupFinds
  <2> QED BY <1>2, <1>7, <2>1, <2>2, <2>3, <2>4
<1> QED BY <1>5, <1>6, <1>7

\* Time and a restart only make entries fade.
LEMMA ForgetShows ==
    ASSUME StoreInv, Tick \/ Restart, NEW b \in CallId
    PROVE  Lookup(store', b, now') \in {Lookup(store, b, now), NoEntry}
<1>1. store \in Seq(Record) /\ Distinct(store) /\ now \in Nat
  BY StoreFacts
<1>2. CASE Tick
  <2>1. store' = store /\ now <= now' /\ now' \in Nat
    BY <1>1, <1>2 DEF Tick
  <2>2. \A i \in 1..Len(store) :
           store[i].cid = b => \E j \in 1..Len(store) : store[i] = store[j]
    OBVIOUS
  <2> QED BY <1>1, <2>1, <2>2, LookupFades
<1>3. CASE Restart
  <2>1. b \notin Ids(store')
    BY <1>3, EmptySeq DEF Restart, Ids
  <2> QED BY <2>1, LookupMisses
<1> QED BY <1>2, <1>3

LEMMA RefineInit == Init => Abstract!Init
<1> SUFFICES ASSUME Init PROVE Abstract!Init
  OBVIOUS
<1>1. \A c \in CallId : c \notin Ids(store)
  BY EmptySeq DEF Init, Ids
<1>2. \A c \in CallId : Lookup(store, c, now) = NoEntry
  BY <1>1, LookupMisses
<1> QED BY <1>2 DEF Init, Abstract!Init, Reply, Abstract!Reply

\* Every step of the store is a step of the contract, or leaves it alone.
LEMMA RefineStep ==
    ASSUME StoreInv, StoreInv', [Next]_vars
    PROVE  [Abstract!Next]_(Abstract!vars)
<1> DEFINE before == [c \in CallId |-> Lookup(store, c, now)]
           after == [c \in CallId |-> Lookup(store', c, now')]
<1>1. after \in [CallId -> Entry \cup {NoEntry}]
  <2>1. store' \in Seq(Record) /\ Distinct(store')
    BY StoreSoundParts DEF StoreInv, TypeOK, StoreSound, DistinctIds, Distinct
  <2> QED BY <2>1, LookupType
<1>2. ASSUME NEW c \in CallId, NEW e \in Entry, NEW d \in 0..1, Put(c, e, d)
      PROVE  Abstract!Put(c, e)
  <2>1. after[c] = e /\ \A b \in CallId \ {c} : after[b] \in {before[b], NoEntry}
    BY <1>2, PutShows
  <2>2. reply' = Reply("put", c, e)
    BY <1>2 DEF Put
  <2> QED BY <1>1, <2>1, <2>2
          DEF Abstract!Put, Abstract!KeptOrForgotten, Reply, Abstract!Reply
<1>3. ASSUME NEW c \in CallId, PutEmpty(c)
      PROVE  Abstract!Ignored("put", c, NoEntry)
  BY <1>3 DEF PutEmpty, Abstract!Ignored, Reply, Abstract!Reply
<1>4. ASSUME NEW c \in CallId, Peek(c)
      PROVE  Abstract!Peek(c)
  BY <1>4 DEF Peek, Abstract!Peek, Reply, Abstract!Reply
<1>5. ASSUME NEW c \in CallId, Pop(c)
      PROVE  Abstract!Pop(c)
  <2>1. after = [before EXCEPT ![c] = NoEntry]
    BY <1>5, PopShows
  <2>2. reply' = Reply("pop", c, before[c])
    BY <1>5 DEF Pop
  <2> QED BY <2>1, <2>2 DEF Abstract!Pop, Reply, Abstract!Reply
<1>6. ASSUME Tick \/ Restart
      PROVE  Abstract!Forget
  <2>1. \A b \in CallId : after[b] \in {before[b], NoEntry}
    BY <1>6, ForgetShows
  <2>2. reply' = reply
    BY <1>6 DEF Tick, Restart
  <2> QED BY <1>1, <2>1, <2>2 DEF Abstract!Forget, Abstract!KeptOrForgotten
<1>7. ASSUME UNCHANGED vars
      PROVE  UNCHANGED Abstract!vars
  BY <1>7 DEF vars, Abstract!vars
<1> QED BY <1>2, <1>3, <1>4, <1>5, <1>6, <1>7 DEF Next, Abstract!Next

\* The in-process backend keeps the promise of the VaultBackend protocol: what
\* was put is what every peek and pop of that call returns until the backend
\* forgets it, and what it forgot stays forgotten until the next put.
THEOREM VaultImplemented == Spec => ImplementsVault
<1>1. Spec => []StoreInv
  BY StoreInvInit, StoreInvStep, PTL DEF Spec
<1>2. StoreInv /\ StoreInv' /\ [Next]_vars => [Abstract!Next]_(Abstract!vars)
  BY RefineStep
<1> QED BY <1>1, <1>2, RefineInit, PTL DEF Spec, ImplementsVault, Abstract!Spec
-----------------------------------------------------------------------------
\* What the store has behind the record x belongs to the calls of L.
Behind(s, x, L) == \E i \in 1..Len(s) :
                       s[i] = x /\ \A j \in 1..Len(s) : i < j => s[j].cid \in L

\* The record of a call's last put, while it is neither expired nor pushed out,
\* is in the store with nothing behind it but calls put later: the invariant
\* that makes Retained inductive.
RetainedInv ==
    \A c \in CallId :
        /\ IsFiniteSet(later[c])
        /\ last[c] # NoRecord =>
              /\ last[c].cid = c /\ last[c].ts <= now
              /\ (~Expired(last[c], now) /\ Cardinality(later[c]) < Cap)
                    => Behind(store, last[c], later[c])

\* Sweeping and dropping keep what is behind a record that they leave.
LEMMA BehindInSub ==
    ASSUME NEW s \in Seq(Record), NEW u \in Seq(Record), Sub(u, s), Distinct(s),
           NEW x, NEW L, Behind(s, x, L), \E i \in 1..Len(u) : u[i] = x
    PROVE  Behind(u, x, L)
<1>1. PICK f : Embeds(f, u, s)
  BY DEF Sub
<1>2. PICK p \in 1..Len(s) : s[p] = x /\ \A j \in 1..Len(s) : p < j => s[j].cid \in L
  BY DEF Behind
<1>3. PICK i \in 1..Len(u) : u[i] = x
  OBVIOUS
<1>4. f[i] = p
  BY <1>1, <1>2, <1>3 DEF Embeds, Distinct
<1>5. ASSUME NEW j \in 1..Len(u), i < j PROVE u[j].cid \in L
  <2>1. f[j] \in 1..Len(s) /\ p < f[j] /\ u[j] = s[f[j]]
    BY <1>1, <1>4, <1>5 DEF Embeds
  <2> QED BY <1>2, <2>1
<1> QED BY <1>3, <1>5 DEF Behind

\* A new record goes behind all others.
LEMMA BehindAppend ==
    ASSUME NEW s \in Seq(Record), NEW r \in Record, NEW x, NEW L, Behind(s, x, L)
    PROVE  Behind(Append(s, r), x, L \cup {r.cid})
<1> DEFINE a == Append(s, r)
<1>1. Len(s) \in Nat /\ Len(a) = Len(s) + 1 /\ a[Len(s) + 1] = r
      /\ \A i \in 1..Len(s) : a[i] = s[i]
  BY AppendProperties, LenProperties
<1> HIDE DEF a
<1>2. PICK p \in 1..Len(s) : s[p] = x /\ \A j \in 1..Len(s) : p < j => s[j].cid \in L
  BY DEF Behind
<1>3. p \in 1..Len(a) /\ a[p] = x
  BY <1>1, <1>2
<1>4. ASSUME NEW j \in 1..Len(a), p < j PROVE a[j].cid \in L \cup {r.cid}
  <2>1. CASE j \in 1..Len(s)
    BY <1>1, <1>2, <1>4, <2>1
  <2>2. CASE j = Len(s) + 1
    BY <1>1, <2>2
  <2> QED BY <1>1, <2>1, <2>2
<1> QED BY <1>3, <1>4 DEF Behind, a

\* The cap does not reach a record that fewer other calls are behind of.
LEMMA BehindKept ==
    ASSUME NEW s \in Seq(Record), Distinct(s), NEW x, NEW L, Behind(s, x, L),
           IsFiniteSet(L), Cardinality(L) < Cap
    PROVE  Behind(KeepNewest(s), x, L)
<1>1. Len(s) \in Nat
  BY LenProperties
<1>2. CASE ~(Len(s) > Cap)
  BY <1>2 DEF KeepNewest
<1>3. CASE Len(s) > Cap
  <2> DEFINE k == Len(s) - Cap
             u == KeepNewest(s)
  <2>1. PICK p \in 1..Len(s) : s[p] = x /\ \A j \in 1..Len(s) : p < j => s[j].cid \in L
    BY DEF Behind
  <2>2. Len(s) - p <= Cardinality(L)
    <3> DEFINE S == (p + 1)..Len(s)
               f == [j \in S |-> s[j].cid]
    <3>1. IsFiniteSet(S) /\ Cardinality(S) = Len(s) - p
      <4>1. p + 1 \in Int /\ Len(s) \in Int
        BY <1>1
      <4>2. /\ IsFiniteSet(S)
            /\ Cardinality(S) = IF p + 1 > Len(s) THEN 0 ELSE Len(s) - (p + 1) + 1
        BY <4>1, FS_Interval
      <4> HIDE DEF S
      <4> QED BY <1>1, <4>2
    <3>2. f \in [S -> L]
      BY <1>1, <2>1
    <3>3. \A i, j \in S : i # j => f[i] # f[j]
      BY <1>1 DEF Distinct
    <3> HIDE DEF S, f
    <3>4. Cardinality(L) \in Nat
      BY FS_CardinalityType
    <3>5. ~(Cardinality(L) < Cardinality(S))
      BY <3>1, <3>2, <3>3, FS_PigeonHole
    <3> QED BY <1>1, <3>1, <3>4, <3>5
  <2>3. k < p /\ k \in 0..Len(s) /\ u = SubSeq(s, k + 1, Len(s))
    <3>1. Cardinality(L) \in Nat
      BY FS_CardinalityType
    <3>2. k < p
      BY <1>1, <2>2, <3>1, CapPositive
    <3> QED BY <1>1, <1>3, <3>2, CapPositive DEF KeepNewest
  <2> HIDE DEF k, u
  <2>4. Len(u) = Len(s) - k /\ \A i \in 1..(Len(s) - k) : u[i] = s[k + i]
    BY <2>3, SuffixIsSub
  <2>5. p - k \in 1..Len(u) /\ u[p - k] = x
    BY <1>1, <2>1, <2>3, <2>4
  <2>6. ASSUME NEW j \in 1..Len(u), p - k < j PROVE u[j].cid \in L
    <3>1. k + j \in 1..Len(s) /\ p < k + j /\ u[j] = s[k + j]
      BY <1>1, <2>3, <2>4, <2>6
    <3> QED BY <2>1, <3>1
  <2> QED BY <2>5, <2>6 DEF Behind, u
<1> QED BY <1>2, <1>3

\* A put of another call leaves a record that is not expired in the store, with
\* nothing new behind it but its own, as long as the cap is not reached.
LEMMA PutLeavesBehind ==
    ASSUME NEW s \in Seq(Record), Distinct(s), NEW n \in Nat, NEW r \in Record,
           NEW x, ~Expired(x, n), x.cid # r.cid,
           NEW L, Behind(s, x, L), IsFiniteSet(L), Cardinality(L \cup {r.cid}) < Cap
    PROVE  Behind(KeepNewest(Append(Drop(EvictExpired(s, n), r.cid), r)), x,
                  L \cup {r.cid})
<1> DEFINE v == EvictExpired(s, n)
           w == Drop(v, r.cid)
           a == Append(w, r)
<1>1. v \in Seq(Record) /\ Distinct(v) /\ Behind(v, x, L)
  <2>1. /\ v \in Seq(Record) /\ Sub(v, s)
        /\ \A j \in 1..Len(s) : ~Expired(s[j], n) => \E i \in 1..Len(v) : v[i] = s[j]
    BY EvictProperties
  <2> HIDE DEF v
  <2>2. \E i \in 1..Len(v) : v[i] = x
    BY <2>1 DEF Behind
  <2> QED BY <2>1, <2>2, BehindInSub, SubInherits
<1> HIDE DEF v
<1>2. /\ w \in Seq(Record) /\ Distinct(w) /\ Behind(w, x, L)
      /\ \A i \in 1..Len(w) : w[i].cid # r.cid
  <2>1. /\ w \in Seq(Record) /\ Sub(w, v)
        /\ \A i \in 1..Len(w) : w[i].cid # r.cid
        /\ \A j \in 1..Len(v) : v[j].cid # r.cid => \E i \in 1..Len(w) : w[i] = v[j]
    BY <1>1, DropProperties
  <2> HIDE DEF w
  <2>2. \E i \in 1..Len(w) : w[i] = x
    BY <1>1, <2>1 DEF Behind
  <2> QED BY <1>1, <2>1, <2>2, BehindInSub, SubInherits
<1> HIDE DEF w
<1>3. Behind(a, x, L \cup {r.cid})
  BY <1>2, BehindAppend
<1>4. a \in Seq(Record) /\ Distinct(a)
  <2>1. /\ a \in Seq(Record) /\ Len(a) = Len(w) + 1 /\ a[Len(w) + 1] = r
        /\ \A i \in 1..Len(w) : a[i] = w[i]
        /\ Len(w) \in Nat
    BY <1>2, AppendProperties, LenProperties
  <2> HIDE DEF a
  <2>2. \A i \in 1..Len(a) : i \in 1..Len(w) \/ i = Len(w) + 1
    BY <2>1
  <2> QED BY <1>2, <2>1, <2>2 DEF Distinct
<1> HIDE DEF a
<1>5. IsFiniteSet(L \cup {r.cid})
  BY FS_AddElement
<1> QED BY <1>3, <1>4, <1>5, BehindKept DEF a, w, v

\* Expiry only grows with time.
LEMMA ExpiryGrows ==
    ASSUME NEW x, x.ts \in Nat, NEW t \in Nat, NEW t2 \in Nat, t <= t2, ~Expired(x, t2)
    PROVE  ~Expired(x, t)
BY MemoryVaultAssumption DEF Expired

\* RetainedInv for one call.
RetainedFor(c) ==
    /\ IsFiniteSet(later[c])
    /\ last[c] # NoRecord =>
          /\ last[c].cid = c /\ last[c].ts <= now
          /\ (~Expired(last[c], now) /\ Cardinality(later[c]) < Cap)
                => Behind(store, last[c], later[c])

LEMMA LastType ==
    ASSUME TypeOK, NEW c \in CallId, last[c] # NoRecord
    PROVE  last[c] \in Record /\ last[c].ts \in Nat
BY DEF TypeOK, Record

LEMMA RetainedInit == Init => RetainedInv
BY FS_EmptySet DEF Init, RetainedInv

\* The record just put is the newest in the store.
LEMMA PutIsNewest ==
    ASSUME StoreInv, NEW c \in CallId, NEW e \in Entry, NEW d \in 0..1, Put(c, e, d)
    PROVE  /\ Len(store') \in Nat /\ Len(store') >= 1
           /\ store'[Len(store')] = [cid |-> c, ts |-> now + d, entry |-> e]
<1> DEFINE r == [cid |-> c, ts |-> now + d, entry |-> e]
<1>1. /\ store \in Seq(Record) /\ now \in Nat /\ Distinct(store) /\ Ordered(store)
      /\ \A i \in 1..Len(store) : store[i].ts <= now
  BY StoreFacts
<1>2. /\ store' = KeepNewest(Append(Drop(EvictExpired(store, now), c), r))
      /\ now' = now + d
  BY DEF Put
<1>3. /\ store' \in Seq(Record) /\ Distinct(store')
      /\ Len(store') >= 1 /\ store'[Len(store')] = r
      /\ \A i \in 1..Len(store') :
            store'[i] = r \/ \E j \in 1..Len(store) : store'[i] = store[j]
  BY <1>1, <1>2, PutProperties
<1> QED BY <1>3, LenProperties

\* put: its own record is the newest, another call's is covered by PutLeavesBehind.
LEMMA RetainedPut ==
    ASSUME StoreInv, StoreInv', RetainedInv,
           NEW b \in CallId, NEW e \in Entry, NEW d \in 0..1, Put(b, e, d),
           NEW c \in CallId
    PROVE  RetainedFor(c)'
<1> DEFINE r == [cid |-> b, ts |-> now + d, entry |-> e]
<1>1. /\ now \in Nat /\ store \in Seq(Record) /\ Distinct(store) /\ Ordered(store)
      /\ \A i \in 1..Len(store) : store[i].ts <= now
      /\ last \in [CallId -> Record \cup {NoRecord}]
      /\ later \in [CallId -> SUBSET CallId]
  BY StoreFacts DEF StoreInv, TypeOK
<1>2. /\ now' = now + d /\ now + d \in Nat /\ now <= now + d
      /\ store' = KeepNewest(Append(Drop(EvictExpired(store, now), b), r))
      /\ last' = [last EXCEPT ![b] = r]
      /\ later' = [a \in CallId |-> IF a = b THEN {} ELSE later[a] \cup {b}]
  BY <1>1 DEF Put
<1>3. r \in Record /\ r.cid = b /\ r.ts = now + d
  BY <1>1, <1>2 DEF Record
<1>4. CASE c = b
  <2>1. last'[c] = r /\ later'[c] = {}
    BY <1>1, <1>2, <1>4
  <2>2. Len(store') >= 1 /\ store'[Len(store')] = r /\ Len(store') \in Nat
    BY PutIsNewest
  <2> HIDE DEF r
  <2>3. Behind(store', r, {})
    BY <2>2 DEF Behind
  <2> QED BY <1>2, <1>3, <1>4, <2>1, <2>3, FS_EmptySet DEF RetainedFor
<1>5. CASE c # b
  <2>1. last'[c] = last[c] /\ later'[c] = later[c] \cup {b}
    BY <1>1, <1>2, <1>5
  <2>2. IsFiniteSet(later[c]) /\ IsFiniteSet(later'[c])
    <3>1. IsFiniteSet(later[c])
      BY DEF RetainedInv
    <3>2. IsFiniteSet(later[c] \cup {b})
      BY <3>1, FS_AddElement
    <3> QED BY <2>1, <3>1, <3>2
  <2>3. ASSUME last'[c] # NoRecord
        PROVE  last'[c].cid = c /\ last'[c].ts <= now'
    <3>1. last[c].cid = c /\ last[c].ts <= now /\ last[c].ts \in Nat
      BY <2>1, <2>3, LastType DEF RetainedInv, StoreInv
    <3> QED BY <1>1, <1>2, <2>1, <3>1
  <2>4. ASSUME last'[c] # NoRecord, ~Expired(last'[c], now'),
               Cardinality(later'[c]) < Cap
        PROVE  Behind(store', last'[c], later'[c])
    <3>1. last[c].ts \in Nat /\ last[c].cid = c
      BY <2>1, <2>4, LastType DEF RetainedInv, StoreInv
    <3>2. ~Expired(last[c], now)
      BY <1>1, <1>2, <2>1, <2>4, <3>1, ExpiryGrows
    <3>3. Cardinality(later[c]) < Cap
      <4>1. Cardinality(later[c]) \in Nat /\ Cardinality(later'[c]) \in Nat
        BY <2>2, FS_CardinalityType
      <4>2. Cardinality(later[c]) <= Cardinality(later'[c])
        BY <2>1, <2>2, FS_Subset
      <4> QED BY <2>4, <4>1, <4>2, CapPositive
    <3>4. Behind(store, last[c], later[c])
      BY <2>1, <2>4, <3>2, <3>3 DEF RetainedInv
    <3>5. last[c].cid # r.cid /\ Cardinality(later[c] \cup {r.cid}) < Cap
      BY <1>3, <1>5, <2>1, <2>4, <3>1
    <3> HIDE DEF r
    <3>6. Behind(KeepNewest(Append(Drop(EvictExpired(store, now), r.cid), r)),
                 last[c], later[c] \cup {r.cid})
      BY <1>1, <1>3, <2>2, <3>2, <3>4, <3>5, PutLeavesBehind
    <3> QED BY <1>2, <1>3, <2>1, <3>6
  <2> QED BY <2>2, <2>3, <2>4 DEF RetainedFor
<1> QED BY <1>4, <1>5

\* pop forgets its own call and leaves the others where they are.
LEMMA RetainedPop ==
    ASSUME StoreInv, RetainedInv, NEW b \in CallId, Pop(b), NEW c \in CallId
    PROVE  RetainedFor(c)'
<1>1. store \in Seq(Record) /\ Distinct(store)
  BY StoreFacts
<1>2. /\ last \in [CallId -> Record \cup {NoRecord}]
      /\ store' = Drop(store, b) /\ now' = now /\ later' = later
      /\ last' = [last EXCEPT ![b] = NoRecord]
  BY DEF Pop, StoreInv, TypeOK
<1>3. CASE c = b
  <2>1. last'[c] = NoRecord
    BY <1>2, <1>3
  <2> QED BY <1>2, <2>1 DEF RetainedFor, RetainedInv
<1>4. CASE c # b
  <2>1. last'[c] = last[c]
    BY <1>2, <1>4
  <2>2. ASSUME last[c] # NoRecord, Behind(store, last[c], later[c])
        PROVE  Behind(store', last[c], later[c])
    <3>1. last[c].cid # b
      BY <1>4, <2>2 DEF RetainedInv
    <3>2. /\ store' \in Seq(Record) /\ Sub(store', store)
          /\ \A j \in 1..Len(store) : store[j].cid # b =>
                \E i \in 1..Len(store') : store'[i] = store[j]
      BY <1>1, <1>2, DropProperties
    <3>3. \E i \in 1..Len(store') : store'[i] = last[c]
      BY <2>2, <3>1, <3>2 DEF Behind
    <3> QED BY <1>1, <2>2, <3>2, <3>3, BehindInSub
  <2> QED BY <1>2, <2>1, <2>2 DEF RetainedFor, RetainedInv
<1> QED BY <1>3, <1>4

LEMMA RetainedTick ==
    ASSUME StoreInv, RetainedInv, Tick, NEW c \in CallId
    PROVE  RetainedFor(c)'
<1>1. now \in Nat /\ now' \in Nat /\ now <= now'
      /\ store' = store /\ last' = last /\ later' = later
  BY DEF Tick, StoreInv, TypeOK
<1>2. CASE last[c] = NoRecord
  BY <1>1, <1>2 DEF RetainedFor, RetainedInv
<1>3. CASE last[c] # NoRecord
  <2>1. last[c].ts \in Nat
    BY <1>3, LastType DEF StoreInv
  <2>2. ~Expired(last[c], now') => ~Expired(last[c], now)
    BY <1>1, <2>1, ExpiryGrows
  <2>3. last[c].ts <= now /\ last[c].ts <= now'
    BY <1>1, <1>3, <2>1 DEF RetainedInv
  <2> QED BY <1>1, <1>3, <2>2, <2>3 DEF RetainedFor, RetainedInv
<1> QED BY <1>2, <1>3

LEMMA RetainedRestart ==
    ASSUME RetainedInv, Restart, NEW c \in CallId
    PROVE  RetainedFor(c)'
BY FS_EmptySet DEF Restart, RetainedFor

LEMMA RetainedStep == StoreInv /\ StoreInv' /\ RetainedInv /\ [Next]_vars => RetainedInv'
<1> SUFFICES ASSUME StoreInv, StoreInv', RetainedInv, [Next]_vars, NEW c \in CallId
             PROVE  RetainedFor(c)'
  BY DEF RetainedInv, RetainedFor
<1>1. CASE \E b \in CallId, e \in Entry, d \in 0..1 : Put(b, e, d)
  BY <1>1, RetainedPut
<1>2. CASE \E b \in CallId : PutEmpty(b) \/ Peek(b)
  BY <1>2 DEF PutEmpty, Peek, RetainedInv, RetainedFor, Behind
<1>3. CASE \E b \in CallId : Pop(b)
  BY <1>3, RetainedPop
<1>4. CASE Tick
  BY <1>4, RetainedTick
<1>5. CASE Restart
  BY <1>5, RetainedRestart
<1>6. CASE UNCHANGED vars
  BY <1>6 DEF vars, RetainedInv, RetainedFor, Behind
<1> QED BY <1>1, <1>2, <1>3, <1>4, <1>5, <1>6 DEF Next

\* A post_call that arrives within the TTL, before as many other calls as the
\* cap holds have been put, finds its entry unchanged: nothing else that put,
\* pop or the sweep do takes an entry away.
THEOREM EntriesRetained == Spec => []Retained
<1>1. Spec => []StoreInv
  BY StoreInvInit, StoreInvStep, PTL DEF Spec
<1>2. Spec => []RetainedInv
  BY <1>1, RetainedInit, RetainedStep, PTL DEF Spec
<1>3. RetainedInv => Retained
  BY DEF RetainedInv, Retained, Behind
<1> QED BY <1>2, <1>3, PTL
=============================================================================
