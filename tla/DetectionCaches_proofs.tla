----------------------- MODULE DetectionCaches_proofs -----------------------
(***************************************************************************)
(* Theorems of DetectionCaches for any sessions, texts, detectors and      *)
(* deployments whose detectors agree on types: no slot of either layer     *)
(* ever differs from what detection gives.                                 *)
(***************************************************************************)
EXTENDS DetectionCaches, SequenceTheorems, WellFoundedInduction, TLAPS

LEMMA LeastExists ==
    ASSUME NEW T \in SUBSET Nat, T # {}
    PROVE  \E n \in T : \A k \in T : n <= k
<1>1. PICK n \in T : \A k \in T : ~(<<k, n>> \in OpToRel(<, Nat))
  BY NatLessThanWellFounded, WFMin
<1>2. \A k \in T : ~(k < n)
  BY <1>1 DEF OpToRel
<1>3. n \in Nat /\ \A k \in T : k \in Nat
  OBVIOUS
<1> QED BY <1>2, <1>3

-----------------------------------------------------------------------------
\* The recursive function of Without, up to the place n.
KeptUpTo(m, out, f, n) ==
    f = [i \in 0..n |-> IF i = 0 THEN <<>>
                        ELSE IF m[i] \in out THEN f[i - 1] ELSE Append(f[i - 1], m[i])]

LEMMA KeptExists ==
    ASSUME NEW m, NEW out, NEW N \in Nat
    PROVE  \E f : KeptUpTo(m, out, f, N)
<1> DEFINE Bad == {n \in Nat : ~\E f : KeptUpTo(m, out, f, n)}
<1>1. SUFFICES ASSUME Bad # {} PROVE FALSE
  OBVIOUS
<1>2. PICK n \in Bad : \A k \in Bad : n <= k
  BY <1>1, LeastExists
<1>3. CASE n = 0
  <2>1. KeptUpTo(m, out, [i \in 0..0 |-> <<>>], 0)
    BY DEF KeptUpTo
  <2> QED BY <1>2, <1>3, <2>1
<1>4. CASE n # 0
  <2>1. n - 1 \in Nat /\ n \in Nat /\ n - 1 \notin Bad
    BY <1>2, <1>4
  <2>2. PICK f : KeptUpTo(m, out, f, n - 1)
    BY <2>1
  <2> DEFINE top == IF m[n] \in out THEN f[n - 1] ELSE Append(f[n - 1], m[n])
             g == [i \in 0..n |-> IF i = n THEN top ELSE f[i]]
  <2>3. \A i \in 0..(n - 1) : f[i] = IF i = 0 THEN <<>>
                        ELSE IF m[i] \in out THEN f[i - 1] ELSE Append(f[i - 1], m[i])
    BY <2>2 DEF KeptUpTo
  <2>4. \A i \in 0..n : g[i] = IF i = 0 THEN <<>>
                        ELSE IF m[i] \in out THEN g[i - 1] ELSE Append(g[i - 1], m[i])
    <3> TAKE i \in 0..n
    <3>1. CASE i = n
      <4>1. g[i] = top /\ g[i - 1] = f[i - 1] /\ i # 0
        BY <1>4, <2>1, <3>1
      <4> QED BY <3>1, <4>1
    <3>2. CASE i # n
      <4>1. i \in 0..(n - 1) /\ g[i] = f[i]
        BY <2>1, <3>2
      <4>2. i # 0 => g[i - 1] = f[i - 1]
        BY <2>1, <3>2
      <4> QED BY <2>3, <4>1, <4>2
    <3> QED BY <3>1, <3>2
  <2>5. g = [i \in 0..n |-> IF i = 0 THEN <<>>
                        ELSE IF m[i] \in out THEN g[i - 1] ELSE Append(g[i - 1], m[i])]
    <3> DEFINE h == [i \in 0..n |-> IF i = 0 THEN <<>>
                        ELSE IF m[i] \in out THEN g[i - 1] ELSE Append(g[i - 1], m[i])]
    <3>1. \A i \in 0..n : g[i] = h[i]
      BY <2>4
    <3>2. DOMAIN g = 0..n /\ DOMAIN h = 0..n
      OBVIOUS
    <3>3. g = [i \in 0..n |-> g[i]] /\ h = [i \in 0..n |-> h[i]]
      OBVIOUS
    <3> HIDE DEF g, h
    <3> QED BY <3>1, <3>3 DEF h
  <2> HIDE DEF g
  <2>6. KeptUpTo(m, out, g, n)
    BY <2>5 DEF KeptUpTo
  <2> QED BY <1>2, <2>6
<1> QED BY <1>3, <1>4

\* What Without leaves: the members of m that are not in out.
LEMMA WithoutProperties ==
    ASSUME NEW S, NEW m \in Seq(S), NEW out
    PROVE  /\ Without(m, out) \in Seq(S)
           /\ ToSet(Without(m, out)) = ToSet(m) \ out
<1>1. Len(m) \in Nat /\ DOMAIN m = 1..Len(m) /\ \A i \in 1..Len(m) : m[i] \in S
  BY LenProperties, ElementOfSeq
<1> DEFINE F == CHOOSE f : KeptUpTo(m, out, f, Len(m))
<1>2. KeptUpTo(m, out, F, Len(m))
  BY <1>1, KeptExists
<1>3. Without(m, out) = F[Len(m)]
  BY DEF Without, KeptUpTo
<1> HIDE DEF F
<1>4. \A i \in 0..Len(m) : F[i] = IF i = 0 THEN <<>>
                        ELSE IF m[i] \in out THEN F[i - 1] ELSE Append(F[i - 1], m[i])
  BY <1>2 DEF KeptUpTo
<1> DEFINE Good(i) == /\ F[i] \in Seq(S)
                      /\ ToSet(F[i]) = {m[j] : j \in 1..i} \ out
           Bad == {i \in 0..Len(m) : ~Good(i)}
<1>5. Bad = {}
  <2>1. SUFFICES ASSUME Bad # {} PROVE FALSE
    OBVIOUS
  <2>2. PICK i \in Bad : \A k \in Bad : i <= k
    <3>1. Bad \in SUBSET Nat
      BY <1>1
    <3> HIDE DEF Bad
    <3> QED BY <2>1, <3>1, LeastExists
  <2>3. i \in 0..Len(m) /\ ~Good(i)
    BY <2>2
  <2>4. i # 0
    <3>1. F[0] = <<>>
      BY <1>1, <1>4
    <3>2. F[0] \in Seq(S) /\ ToSet(F[0]) = {}
      BY <3>1, EmptySeq DEF ToSet
    <3>3. {m[j] : j \in 1..0} = {}
      OBVIOUS
    <3> QED BY <2>3, <3>2, <3>3
  <2>5. i - 1 \in 0..Len(m) /\ i \in 1..Len(m) /\ i \in Nat
    BY <1>1, <2>3, <2>4
  <2>6. Good(i - 1)
    <3>1. i - 1 \notin Bad
      <4> HIDE DEF Bad
      <4> QED BY <2>2, <2>5
    <3> QED BY <2>5, <3>1
  <2>7. {m[j] : j \in 1..i} = {m[j] : j \in 1..(i - 1)} \cup {m[i]}
    <3>1. \A j : j \in 1..i <=> j \in 1..(i - 1) \/ j = i
      BY <2>5
    <3> QED BY <3>1
  <2> DEFINE p == F[i - 1]
  <2>8. p \in Seq(S) /\ ToSet(p) = {m[j] : j \in 1..(i - 1)} \ out
    BY <2>6
  <2>9. F[i] = IF m[i] \in out THEN p ELSE Append(p, m[i])
    BY <1>4, <2>4, <2>5
  <2>10. m[i] \in S
    BY <1>1, <2>5
  <2> HIDE DEF p
  <2>11. CASE m[i] \in out
    BY <2>3, <2>7, <2>8, <2>9, <2>11
  <2>12. CASE m[i] \notin out
    <3>1. /\ Append(p, m[i]) \in Seq(S) /\ Len(p) \in Nat
          /\ Len(Append(p, m[i])) = Len(p) + 1
          /\ Append(p, m[i])[Len(p) + 1] = m[i]
          /\ \A j \in 1..Len(p) : Append(p, m[i])[j] = p[j]
      BY <2>8, <2>10, AppendProperties, LenProperties
    <3>2. /\ DOMAIN Append(p, m[i]) = 1..(Len(p) + 1) /\ DOMAIN p = 1..Len(p)
      BY <2>8, <3>1, LenProperties
    <3> DEFINE q == Append(p, m[i])
    <3>3. F[i] = q
      BY <2>9, <2>12
    <3> HIDE DEF q
    <3>4. ToSet(q) = ToSet(p) \cup {m[i]}
      <4>1. \A j : j \in 1..(Len(p) + 1) <=> j \in 1..Len(p) \/ j = Len(p) + 1
        BY <3>1
      <4>2. \A x : x \in ToSet(q) <=> \E j \in 1..(Len(p) + 1) : x = q[j]
        BY <3>2 DEF ToSet, q
      <4>3. \A x : x \in ToSet(p) <=> \E j \in 1..Len(p) : x = p[j]
        BY <3>2 DEF ToSet
      <4>4. q[Len(p) + 1] = m[i] /\ \A j \in 1..Len(p) : q[j] = p[j]
        BY <3>1 DEF q
      <4>5. \A x : x \in ToSet(q) <=> x \in ToSet(p) \/ x = m[i]
        BY <4>1, <4>2, <4>3, <4>4
      <4> QED BY <4>5
    <3>5. ToSet(q) = {m[j] : j \in 1..i} \ out
      BY <2>7, <2>8, <2>12, <3>4
    <3> QED BY <2>3, <3>1, <3>3, <3>5 DEF q
  <2> QED BY <2>11, <2>12
<1>6. Good(Len(m))
  <2>1. Len(m) \in 0..Len(m)
    BY <1>1
  <2> QED BY <1>5, <2>1
<1>7. {m[j] : j \in 1..Len(m)} = ToSet(m)
  BY <1>1 DEF ToSet
<1> QED BY <1>3, <1>6, <1>7
-----------------------------------------------------------------------------
\* Every detector that reports an entity reports it under the same type.
AgreeOnTypes ==
    \A d, b \in Detector, e \in Entity :
        Reports[d][e] # Absent /\ Reports[b][e] # Absent => Reports[d][e] = Reports[b][e]

\* In a deployment w the detector d never fails open, and the model repeats only
\* what the request held.
Exact(w, d) == d \notin w.fail_open /\ w.echo_only

Reporters(D, t, e) == {d \in D : Real(d, t)[e] # Absent}

\* v is, or at least does not go beyond, what d reports for the text t.
HonestAnswer(w, v, d, t) ==
    /\ v \in Verdict
    /\ \A e \in Entity : v[e] \in {Absent, Real(d, t)[e]}
    /\ Exact(w, d) => v = Real(d, t)

\* v is, or at least does not go beyond, what the detectors of D give for t.
HonestFor(v, D, t, e) ==
    /\ v[e].sources \subseteq Reporters(D, t, e)
    /\ v[e].type = Absent <=> v[e].sources = {}
    /\ \A d \in v[e].sources : v[e].type = Real(d, t)[e]
HonestFinding(w, v, D, t) ==
    /\ v \in Finding
    /\ \A e \in Entity : /\ HonestFor(v, D, t, e)
                         /\ \A d \in Reporters(D, t, e) : Exact(w, d) => d \in v[e].sources

LEMMA RealType ==
    ASSUME NEW d \in Detector, NEW t \in Text
    PROVE  /\ Real(d, t) \in Verdict
           /\ \A e \in Entity : Real(d, t)[e] = IF e \in Holds[t] THEN Reports[d][e] ELSE Absent
BY DetectionCachesAssumption DEF Real, Verdict

LEMMA FindingFields ==
    ASSUME NEW v \in Finding, NEW e \in Entity
    PROVE  /\ v[e] = [type |-> v[e].type, sources |-> v[e].sources]
           /\ v[e].type \in EType \cup {Absent} /\ v[e].sources \in SUBSET Detector
BY DEF Finding

LEMMA ToSetIn ==
    ASSUME NEW S, NEW m \in Seq(S)
    PROVE  /\ ToSet(m) \subseteq S
           /\ ToSet(m) = {m[i] : i \in 1..Len(m)}
<1>1. DOMAIN m = 1..Len(m) /\ \A i \in 1..Len(m) : m[i] \in S
  BY LenProperties, ElementOfSeq
<1> QED BY <1>1 DEF ToSet

\* Deduplication of honest answers is honest.
LEMMA DedupHonest ==
    ASSUME AgreeOnTypes, NEW w, NEW t \in Text, NEW ds \in Seq(Detector),
           NEW found \in [Detector -> Verdict],
           \A d \in Detector, e \in Entity : found[d][e] \in {Absent, Real(d, t)[e]},
           \A d \in ToSet(ds) : Exact(w, d) => found[d] = Real(d, t)
    PROVE  HonestFinding(w, Dedup(ds, found), ToSet(ds), t)
<1> DEFINE v == Dedup(ds, found)
<1>1. \A i \in 1..Len(ds) : ds[i] \in Detector /\ ds[i] \in ToSet(ds)
  BY ElementOfSeq, ToSetIn
<1>2. ASSUME NEW e \in Entity
      PROVE  /\ v[e] \in [type : EType \cup {Absent}, sources : SUBSET Detector]
             /\ HonestFor(v, ToSet(ds), t, e)
             /\ \A d \in Reporters(ToSet(ds), t, e) : Exact(w, d) => d \in v[e].sources
  <2> DEFINE by == By(ds, found, e)
             ty == IF by = {} THEN Absent ELSE found[ds[Min(by)]][e]
             so == {ds[i] : i \in by}
  <2>1. by \subseteq 1..Len(ds) /\ \A i \in 1..Len(ds) : i \in by <=> found[ds[i]][e] # Absent
    BY DEF By
  <2>2. by # {} => Min(by) \in by
    <3>1. by \in SUBSET Nat
      BY <2>1, LenProperties
    <3> HIDE DEF by
    <3>2. by # {} => \E n \in by : \A k \in by : n <= k
      BY <3>1, LeastExists
    <3> QED BY <3>2 DEF Min
  <2>3. v[e] = [type |-> ty, sources |-> so]
    BY DEF Dedup
  <2> HIDE DEF by
  <2>4. ty \in EType \cup {Absent} /\ so \in SUBSET Detector
    <3>1. by # {} => Min(by) \in 1..Len(ds) /\ found[ds[Min(by)]] \in Verdict
      BY <1>1, <2>1, <2>2
    <3>2. ty \in EType \cup {Absent}
      BY <3>1 DEF Verdict
    <3> QED BY <1>1, <2>1, <3>2
  <2>5. ASSUME NEW d \in so
        PROVE  d \in ToSet(ds) /\ d \in Detector /\ found[d][e] = Real(d, t)[e]
               /\ Real(d, t)[e] # Absent
    <3>1. PICK i \in by : d = ds[i]
      OBVIOUS
    <3>2. i \in 1..Len(ds) /\ found[d][e] # Absent
      BY <2>1, <3>1
    <3> QED BY <1>1, <3>1, <3>2
  <2>6. so = {} <=> by = {}
    OBVIOUS
  <2>7. by # {} => ds[Min(by)] \in so /\ ty = found[ds[Min(by)]][e]
    BY <2>2
  <2> HIDE DEF so, ty
  <2>8. ASSUME NEW d \in so PROVE ty = Real(d, t)[e]
    <3> DEFINE b == ds[Min(by)]
    <3>1. b \in so /\ ty = found[b][e]
      BY <2>6, <2>7, <2>8
    <3> HIDE DEF b
    <3>2. ty = Real(b, t)[e] /\ Real(b, t)[e] # Absent /\ b \in Detector
      BY <2>5, <3>1
    <3>3. Real(d, t)[e] # Absent /\ d \in Detector
      BY <2>5, <2>8
    <3> QED BY <3>2, <3>3, RealType DEF AgreeOnTypes
  <2>9. ty = Absent <=> so = {}
    <3>1. so = {} => ty = Absent
      BY <2>6 DEF ty
    <3>2. so # {} => ty # Absent
      BY <2>5, <2>8
    <3> QED BY <3>1, <3>2
  <2>10. \A d \in Reporters(ToSet(ds), t, e) : Exact(w, d) => d \in so
    <3>1. ASSUME NEW d \in ToSet(ds), Exact(w, d), Real(d, t)[e] # Absent PROVE d \in so
      <4>1. PICK i \in 1..Len(ds) : d = ds[i]
        BY ToSetIn
      <4>2. found[d] = Real(d, t)
        BY <3>1
      <4>3. i \in by
        BY <2>1, <3>1, <4>1, <4>2
      <4> QED BY <4>1, <4>3 DEF so
    <3> QED BY <3>1 DEF Reporters
  <2>11. v[e].type = ty /\ v[e].sources = so
    BY <2>3
  <2> HIDE DEF v
  <2>12. HonestFor(v, ToSet(ds), t, e)
    BY <2>5, <2>8, <2>9, <2>11 DEF HonestFor, Reporters
  <2> QED BY <2>3, <2>4, <2>10, <2>11, <2>12
<1>3. v \in Finding
  <2>1. v = [e \in Entity |-> v[e]]
    BY DEF Dedup
  <2> HIDE DEF v
  <2> QED BY <1>2, <2>1 DEF Finding
<1> QED BY <1>2, <1>3 DEF HonestFinding

LEMMA EmptyHonest ==
    ASSUME NEW w, NEW t \in Text
    PROVE  HonestFinding(w, Empty, {}, t)
BY DEF HonestFinding, HonestFor, Reporters, Empty, Finding

\* The union of what two groups of detectors gave is honest for both together.
LEMMA UnionHonest ==
    ASSUME AgreeOnTypes, NEW w, NEW t \in Text,
           NEW D \in SUBSET Detector, NEW M \in SUBSET Detector,
           NEW p, HonestFinding(w, p, D, t), NEW q, HonestFinding(w, q, M, t)
    PROVE  HonestFinding(w, Union(p, q), D \cup M, t)
<1> DEFINE v == Union(p, q)
<1>1. ASSUME NEW e \in Entity
      PROVE  /\ v[e] \in [type : EType \cup {Absent}, sources : SUBSET Detector]
             /\ HonestFor(v, D \cup M, t, e)
             /\ \A d \in Reporters(D \cup M, t, e) : Exact(w, d) => d \in v[e].sources
  <2>1. /\ p[e].type \in EType \cup {Absent} /\ p[e].sources \in SUBSET Detector
        /\ q[e].type \in EType \cup {Absent} /\ q[e].sources \in SUBSET Detector
    BY FindingFields DEF HonestFinding
  <2>2. /\ v[e].type = IF p[e].type # Absent THEN p[e].type ELSE q[e].type
        /\ v[e].sources = p[e].sources \cup q[e].sources
        /\ v[e] = [type |-> v[e].type, sources |-> v[e].sources]
    BY DEF Union
  <2> HIDE DEF v
  <2>3. HonestFor(p, D, t, e) /\ HonestFor(q, M, t, e)
    BY DEF HonestFinding
  <2>4. \A d \in p[e].sources \cup q[e].sources :
           d \in D \cup M /\ d \in Detector /\ Real(d, t)[e] # Absent
    BY <2>1, <2>3 DEF HonestFor, Reporters
  <2>5. \A d, b \in p[e].sources \cup q[e].sources : Real(d, t)[e] = Real(b, t)[e]
    <3> TAKE d, b \in p[e].sources \cup q[e].sources
    <3>1. /\ d \in Detector /\ Real(d, t)[e] # Absent
          /\ b \in Detector /\ Real(b, t)[e] # Absent
      BY <2>4
    <3> QED BY <3>1, RealType DEF AgreeOnTypes
  <2>6. \A d \in v[e].sources : v[e].type = Real(d, t)[e]
    <3> TAKE d \in v[e].sources
    <3>1. CASE p[e].type # Absent
      <4>1. PICK b \in p[e].sources : p[e].type = Real(b, t)[e]
        BY <2>3, <3>1 DEF HonestFor
      <4> QED BY <2>2, <2>5, <3>1, <4>1
    <3>2. CASE p[e].type = Absent
      <4>1. p[e].sources = {}
        BY <2>3, <3>2 DEF HonestFor
      <4> QED BY <2>2, <2>3, <3>2, <4>1 DEF HonestFor
    <3> QED BY <3>1, <3>2
  <2>7. v[e].type = Absent <=> v[e].sources = {}
    BY <2>2, <2>3 DEF HonestFor
  <2>8. HonestFor(v, D \cup M, t, e)
    BY <2>2, <2>4, <2>6, <2>7 DEF HonestFor, Reporters
  <2>9. \A d \in Reporters(D \cup M, t, e) : Exact(w, d) => d \in v[e].sources
    <3>1. /\ \A d \in Reporters(D, t, e) : Exact(w, d) => d \in p[e].sources
          /\ \A d \in Reporters(M, t, e) : Exact(w, d) => d \in q[e].sources
      BY DEF HonestFinding
    <3> QED BY <2>2, <3>1 DEF Reporters
  <2>10. v[e].type \in EType \cup {Absent} /\ v[e].sources \in SUBSET Detector
    BY <2>1, <2>2
  <2> QED BY <2>2, <2>8, <2>9, <2>10
<1>2. v \in Finding
  <2>1. v = [e \in Entity |-> v[e]]
    BY DEF Union
  <2> HIDE DEF v
  <2> QED BY <1>1, <2>1 DEF Finding
<1> QED BY <1>1, <1>2 DEF HonestFinding

\* An exact finding is the one of real detection, types included.
LEMMA ExactIsReal ==
    ASSUME AgreeOnTypes, NEW w, \A d \in Detector : Exact(w, d),
           NEW t \in Text, NEW ds \in Seq(Detector),
           NEW v, HonestFinding(w, v, ToSet(ds), t)
    PROVE  v = RealDedup(t, ds)
<1> DEFINE f == [d \in Detector |-> Real(d, t)]
           u == Dedup(ds, f)
<1>1. f \in [Detector -> Verdict] /\ \A d \in Detector : f[d] = Real(d, t)
  BY RealType
<1>2. HonestFinding(w, u, ToSet(ds), t)
  <2>1. \A d \in ToSet(ds) : f[d] = Real(d, t)
    BY <1>1, ToSetIn
  <2> HIDE DEF f
  <2> QED BY <1>1, <2>1, DedupHonest
<1>3. u = RealDedup(t, ds)
  BY DEF RealDedup
<1> HIDE DEF u
<1>4. ASSUME NEW e \in Entity PROVE v[e] = u[e]
  <2>1. /\ v[e] = [type |-> v[e].type, sources |-> v[e].sources]
        /\ u[e] = [type |-> u[e].type, sources |-> u[e].sources]
    BY <1>2, FindingFields DEF HonestFinding
  <2>2. v[e].sources = u[e].sources
    <3>1. ToSet(ds) \subseteq Detector
      BY ToSetIn
    <3>2. /\ v[e].sources = Reporters(ToSet(ds), t, e)
          /\ u[e].sources = Reporters(ToSet(ds), t, e)
      BY <1>2, <3>1 DEF HonestFinding, HonestFor, Reporters
    <3> QED BY <3>2
  <2>3. v[e].type = u[e].type
    BY <1>2, <2>2 DEF HonestFinding, HonestFor
  <2> QED BY <2>1, <2>2, <2>3
<1>5. v = [e \in Entity |-> v[e]] /\ u = [e \in Entity |-> u[e]]
  BY <1>2 DEF HonestFinding, Finding
<1> QED BY <1>3, <1>4, <1>5
-----------------------------------------------------------------------------
\* The model's text t holds nothing a detector reports that the request did not.
Echoes(w, r, t) ==
    w.echo_only => \A e \in Holds[t] :
        (\E d \in ToSet(r.mode) : Reports[d][e] # Absent) => e \in Holds[r.text]

\* What prewarm writes into the pipeline slot is honest for the restored text.
LEMMA SynthHonest ==
    ASSUME NEW w, NEW r \in SessionState, r.text \in Text, r.out \in Text,
           HonestFinding(w, r.entry, ToSet(r.mode), r.text), Echoes(w, r, r.out)
    PROVE  HonestFinding(w, Synth(r), ToSet(r.mode), r.out)
<1> DEFINE v == Synth(r)
<1>1. r.mode \in Seq(Detector)
  BY DEF SessionState
<1>2. ToSet(r.mode) \subseteq Detector
  BY <1>1, ToSetIn
<1>3. ASSUME NEW e \in Entity
      PROVE  /\ v[e] \in [type : EType \cup {Absent}, sources : SUBSET Detector]
             /\ HonestFor(v, ToSet(r.mode), r.out, e)
             /\ \A d \in Reporters(ToSet(r.mode), r.out, e) : Exact(w, d) => d \in v[e].sources
  <2>1. CASE e \notin Holds[r.out]
    <3>1. v[e] = [type |-> Absent, sources |-> {}]
      BY <2>1 DEF Synth, Empty
    <3>2. \A d \in Detector : Real(d, r.out)[e] = Absent
      BY <2>1, RealType
    <3> HIDE DEF v
    <3>3. Reporters(ToSet(r.mode), r.out, e) = {}
      BY <1>2, <3>2 DEF Reporters
    <3> QED BY <3>1, <3>3 DEF HonestFor
  <2>2. CASE e \in Holds[r.out]
    <3>1. v[e] = r.entry[e]
      BY <2>2 DEF Synth
    <3>2. /\ r.entry[e] \in [type : EType \cup {Absent}, sources : SUBSET Detector]
          /\ HonestFor(r.entry, ToSet(r.mode), r.text, e)
          /\ \A d \in Reporters(ToSet(r.mode), r.text, e) : Exact(w, d) => d \in r.entry[e].sources
      BY DEF HonestFinding, Finding
    <3>3. \A d \in Detector : Real(d, r.out)[e] = Reports[d][e]
      BY <2>2, RealType
    <3>4. \A d \in Detector : Real(d, r.text)[e] # Absent =>
             Real(d, r.text)[e] = Reports[d][e] /\ e \in Holds[r.text]
      BY RealType
    <3>5. HonestFor(v, ToSet(r.mode), r.out, e)
      <4>1. \A d \in r.entry[e].sources :
               /\ d \in ToSet(r.mode) /\ Real(d, r.out)[e] # Absent
               /\ r.entry[e].type = Real(d, r.out)[e]
        BY <1>2, <3>2, <3>3, <3>4 DEF HonestFor, Reporters
      <4> HIDE DEF v
      <4> QED BY <3>1, <3>2, <4>1 DEF HonestFor, Reporters
    <3>6. ASSUME NEW d \in Reporters(ToSet(r.mode), r.out, e), Exact(w, d)
          PROVE  d \in v[e].sources
      <4>1. d \in ToSet(r.mode) /\ d \in Detector /\ Reports[d][e] # Absent
        BY <1>2, <3>3 DEF Reporters
      <4>2. e \in Holds[r.text]
        BY <2>2, <3>6, <4>1 DEF Echoes, Exact
      <4>3. d \in Reporters(ToSet(r.mode), r.text, e)
        BY <4>1, <4>2, RealType DEF Reporters
      <4> HIDE DEF v
      <4> QED BY <3>1, <3>2, <3>6, <4>3
    <3> HIDE DEF v
    <3> QED BY <3>1, <3>2, <3>5, <3>6
  <2> QED BY <2>1, <2>2
<1>4. v \in Finding
  <2>1. v = [e \in Entity |-> v[e]]
    BY DEF Synth
  <2> HIDE DEF v
  <2> QED BY <1>3, <2>1 DEF Finding
<1> HIDE DEF v
<1>5. HonestFinding(w, v, ToSet(r.mode), r.out)
  BY <1>3, <1>4 DEF HonestFinding
<1> QED BY <1>5 DEF v

\* A finding's part of one detector is an honest answer of that detector.
LEMMA SynthForHonest ==
    ASSUME NEW w, NEW r \in SessionState, r.out \in Text,
           HonestFinding(w, Synth(r), ToSet(r.mode), r.out), NEW d \in ToSet(r.mode)
    PROVE  HonestAnswer(w, SynthFor(r, d), d, r.out)
<1> DEFINE v == SynthFor(r, d)
           u == Synth(r)
<1>1. r.mode \in Seq(Detector) /\ d \in Detector
  <2>1. r.mode \in Seq(Detector)
    BY DEF SessionState
  <2> QED BY <2>1, ToSetIn
<1>2. \A e \in Entity : v[e] = IF d \in u[e].sources THEN u[e].type ELSE Absent
  BY DEF SynthFor
<1>3. v = [e \in Entity |-> v[e]]
  BY DEF SynthFor
<1>4. /\ u \in Finding
      /\ \A e \in Entity : /\ HonestFor(u, ToSet(r.mode), r.out, e)
                           /\ \A b \in Reporters(ToSet(r.mode), r.out, e) :
                                Exact(w, b) => b \in u[e].sources
  BY DEF HonestFinding
<1>5. Real(d, r.out) = [e \in Entity |-> Real(d, r.out)[e]]
  BY DEF Real
<1> HIDE DEF v, u
<1>6. v \in Verdict
  <2>1. \A e \in Entity : v[e] \in EType \cup {Absent}
    BY <1>2, <1>4, FindingFields
  <2> QED BY <1>3, <2>1 DEF Verdict
<1>7. \A e \in Entity : v[e] \in {Absent, Real(d, r.out)[e]}
  BY <1>2, <1>4 DEF HonestFor
<1>8. Exact(w, d) => \A e \in Entity : v[e] = Real(d, r.out)[e]
  BY <1>2, <1>4 DEF HonestFor, Reporters
<1>9. Exact(w, d) => v = Real(d, r.out)
  BY <1>3, <1>5, <1>8
<1>10. HonestAnswer(w, v, d, r.out)
  BY <1>6, <1>7, <1>9 DEF HonestAnswer
<1> QED BY <1>10 DEF v
-----------------------------------------------------------------------------
PSound(w, p) ==
    \A k \in DOMAIN p :
        /\ k \in Text \X Seq(Detector)
        /\ p[k] # Corrupt => HonestFinding(w, p[k], ToSet(k[2]), k[1])
DSound(w, c) ==
    /\ c \in [DKey -> Verdict \cup {None}]
    /\ \A k \in DKey : c[k] # None => HonestAnswer(w, c[k], k[1], k[2])

\* While detection runs: what is known so far is honest, and every exact detector
\* that is done gave its real answer, or was covered by a hit of the pipeline
\* cache.
Detecting(w, r) ==
    /\ r.asked \subseteq ToSet(r.mode) /\ r.busy \subseteq r.asked
    /\ \A d \in Detector, e \in Entity : r.found[d][e] \in {Absent, Real(d, r.text)[e]}
    /\ \A d \in r.asked \ r.busy : Exact(w, d) =>
          r.found[d] = Real(d, r.text) \/ (r.slot # None /\ d \notin w.merged)
    /\ r.slot # None => HonestFinding(w, r.slot, ToSet(r.mode) \ w.merged, r.text)
Warming(w, r) ==
    /\ r.out \in Text /\ Echoes(w, r, r.out)
    /\ r.todo \ {"pipeline"} \subseteq ToSet(r.mode)

SessionSound(w, r) ==
    /\ r.pc # "idle" => r.text \in Text /\ r.mode \in w.modes
    /\ r.pc = "detecting" => Detecting(w, r)
    /\ r.pc # "detecting" => r.busy = {}
    /\ r.pc \in {"sent", "warming"} => HonestFinding(w, r.entry, ToSet(r.mode), r.text)
    /\ r.pc = "warming" => Warming(w, r)
    /\ r.pc # "warming" => r.todo = {}

\* The inductive invariant.
CachesInv ==
    /\ world \in Worlds
    /\ PSound(world, pcache)
    /\ DSound(world, dcache)
    /\ ses \in [Session -> SessionState]
    /\ \A s \in Session : SessionSound(world, ses[s])

LEMMA Frame ==
    ASSUME CachesInv, NEW s \in Session, NEW q \in SessionState, SetSes(s, q),
           world' = world, SessionSound(world, q),
           PSound(world, pcache'), DSound(world, dcache')
    PROVE  CachesInv'
<1>1. ses' = [ses EXCEPT ![s] = q] /\ ses \in [Session -> SessionState]
  BY DEF SetSes, CachesInv
<1>2. ses' \in [Session -> SessionState]
  BY <1>1
<1>3. \A b \in Session : SessionSound(world, ses'[b])
  <2>1. \A b \in Session : ses'[b] = IF b = s THEN q ELSE ses[b]
    BY <1>1
  <2> QED BY <2>1 DEF CachesInv
<1> QED BY <1>2, <1>3 DEF CachesInv

LEMMA DeploymentFields ==
    ASSUME world \in Worlds
    PROVE  /\ world.merged \in SUBSET Detector
           /\ world.modes \in SUBSET Seq(Detector)
BY DetectionCachesAssumption DEF Deployment

\* The parts of a mode.
LEMMA PartsOfMode ==
    ASSUME world \in Worlds, NEW m \in world.modes
    PROVE  /\ m \in Seq(Detector)
           /\ PerText(m) \in Seq(Detector) /\ MergedOf(m) \in Seq(Detector)
           /\ ToSet(PerText(m)) = ToSet(m) \ world.merged
           /\ ToSet(MergedOf(m)) = ToSet(m) \cap world.merged
           /\ PerText(m) = <<>> => ToSet(PerText(m)) = {}
<1>1. m \in Seq(Detector) /\ ToSet(m) \subseteq Detector
  BY DeploymentFields, ToSetIn
<1>2. /\ PerText(m) \in Seq(Detector) /\ ToSet(PerText(m)) = ToSet(m) \ world.merged
      /\ MergedOf(m) \in Seq(Detector)
      /\ ToSet(MergedOf(m)) = ToSet(m) \ (Detector \ world.merged)
  BY <1>1, WithoutProperties DEF PerText, MergedOf
<1>3. ToSet(<<>>) = {}
  BY EmptySeq DEF ToSet
<1>4. ToSet(m) \ (Detector \ world.merged) = ToSet(m) \cap world.merged
  BY <1>1
<1> QED BY <1>1, <1>2, <1>3, <1>4

LEMMA IdleFields ==
    /\ Idle \in SessionState
    /\ Idle.pc = "idle" /\ Idle.busy = {} /\ Idle.todo = {} /\ Idle.slot = None
    /\ Idle.asked = {} /\ \A d \in Detector, e \in Entity : Idle.found[d][e] = Absent
<1>1. Empty \in Finding
  BY DEF Empty, Finding
<1>2. Nothing \in Verdict
  BY DEF Nothing, Verdict
<1>3. <<>> \in Seq(Detector)
  BY EmptySeq
<1>4. [d \in Detector |-> Nothing] \in [Detector -> Verdict]
  BY <1>2
<1>5. Idle \in SessionState
  BY <1>1, <1>3, <1>4 DEF Idle, SessionState
<1>6. \A d \in Detector, e \in Entity : Idle.found[d][e] = Absent
  BY DEF Idle, Nothing
<1> QED BY <1>5, <1>6 DEF Idle

LEMMA IdleSound == ASSUME NEW w PROVE SessionSound(w, Idle)
BY IdleFields DEF SessionSound

LEMMA WriteSlot ==
    ASSUME NEW w, PSound(w, pcache), NEW k \in Text \X Seq(Detector),
           NEW v, HonestFinding(w, v, ToSet(k[2]), k[1])
    PROVE  PSound(w, WithSlot(k, v))
<1>1. DOMAIN WithSlot(k, v) = DOMAIN pcache \cup {k}
      /\ \A j \in DOMAIN pcache \cup {k} :
            WithSlot(k, v)[j] = IF j = k THEN v ELSE pcache[j]
  BY DEF WithSlot
<1> QED BY <1>1 DEF PSound

LEMMA WriteAnswer ==
    ASSUME NEW w, DSound(w, dcache), NEW d \in Detector, NEW t \in Text,
           NEW v, HonestAnswer(w, v, d, t)
    PROVE  DSound(w, [dcache EXCEPT ![<<d, t>>] = v])
<1> DEFINE k == <<d, t>>
           c == [dcache EXCEPT ![k] = v]
<1>1. k \in DKey /\ k[1] = d /\ k[2] = t /\ v \in Verdict
  BY DEF DKey, HonestAnswer
<1>2. dcache \in [DKey -> Verdict \cup {None}]
  BY DEF DSound
<1> HIDE DEF k
<1>3. c \in [DKey -> Verdict \cup {None}]
      /\ \A j \in DKey : c[j] = IF j = k THEN v ELSE dcache[j]
  BY <1>1, <1>2
<1> HIDE DEF c
<1>4. DSound(w, c)
  BY <1>1, <1>3 DEF DSound
<1> QED BY <1>4 DEF c, k

-----------------------------------------------------------------------------
\* A lookup: a hit is honest for the per-text detectors, a miss starts clean.
LEMMA AnonymizeStep ==
    ASSUME CachesInv, NEW s \in Session, NEW t \in Text, NEW m \in world.modes,
           Anonymize(s, t, m)
    PROVE  CachesInv'
<1> DEFINE ds == PerText(m)
           slot == PSlot(<<t, ds>>)
           begun == [Idle EXCEPT !.pc = "detecting", !.text = t, !.mode = m]
<1>1. world' = world /\ pcache' = pcache /\ dcache' = dcache
  BY DEF Anonymize
<1>2. /\ m \in Seq(Detector) /\ ds \in Seq(Detector)
      /\ ToSet(ds) = ToSet(m) \ world.merged /\ ToSet(m) \subseteq Detector
      /\ ds = <<>> => ToSet(ds) = {}
  BY PartsOfMode, ToSetIn DEF CachesInv
<1>3. /\ begun \in SessionState
      /\ begun.pc = "detecting" /\ begun.text = t /\ begun.mode = m
      /\ begun.slot = None /\ begun.asked = {} /\ begun.busy = {} /\ begun.todo = {}
      /\ \A d \in Detector, e \in Entity : begun.found[d][e] = Absent
  BY <1>2, IdleFields DEF SessionState
<1>4. PSound(world, pcache') /\ DSound(world, dcache')
  BY <1>1 DEF CachesInv
<1> HIDE DEF begun
<1>5. CASE /\ Readable(slot) \/ ds = <<>>
           /\ SetSes(s, [begun EXCEPT !.slot = IF ds = <<>> THEN Empty ELSE slot,
                                      !.asked = ToSet(ds)])
  <2> DEFINE got == IF ds = <<>> THEN Empty ELSE slot
             q == [begun EXCEPT !.slot = got, !.asked = ToSet(ds)]
  <2>1. HonestFinding(world, got, ToSet(m) \ world.merged, t)
    <3>1. CASE ds = <<>>
      BY <1>2, <3>1, EmptyHonest
    <3>2. CASE ds # <<>>
      <4>1. Readable(slot)
        BY <1>5, <3>2
      <4>2. <<t, ds>> \in DOMAIN pcache /\ slot = pcache[<<t, ds>>] /\ slot # Corrupt
        BY <4>1 DEF Readable, PSlot
      <4>3. HonestFinding(world, slot, ToSet(<<t, ds>>[2]), <<t, ds>>[1])
        BY <4>2 DEF CachesInv, PSound
      <4> QED BY <1>2, <3>2, <4>3
    <3> QED BY <3>1, <3>2
  <2>2. got \in Finding
    BY <2>1 DEF HonestFinding
  <2>3. got # None \/ ds = <<>>
    BY <1>5 DEF Readable
  <2> HIDE DEF got
  <2>4. /\ q \in SessionState
        /\ q.pc = "detecting" /\ q.text = t /\ q.mode = m /\ q.slot = got
        /\ q.asked = ToSet(ds) /\ q.busy = {} /\ q.todo = {} /\ q.found = begun.found
    BY <1>2, <1>3, <2>2 DEF SessionState
  <2> HIDE DEF q, ds
  <2>5. Detecting(world, q)
    BY <1>2, <1>3, <2>1, <2>3, <2>4 DEF Detecting
  <2>6. SessionSound(world, q)
    BY <2>4, <2>5 DEF SessionSound
  <2>7. SetSes(s, q)
    BY <1>5 DEF q, got, ds
  <2> QED BY <1>1, <1>4, <2>4, <2>6, <2>7, Frame
<1>6. ASSUME NEW q \in SessionState, SetSes(s, q), q.pc = "detecting", q.text = t,
             q.mode = m, q.slot = None, q.asked = {}, q.busy = {}, q.todo = {},
             q.found = begun.found
      PROVE  CachesInv'
  <2>1. Detecting(world, q)
    BY <1>3, <1>6 DEF Detecting
  <2>2. SessionSound(world, q)
    BY <1>6, <2>1 DEF SessionSound
  <2> QED BY <1>1, <1>4, <1>6, <2>2, Frame
<1>7. CASE SetSes(s, [begun EXCEPT !.keep = TRUE])
  <2> DEFINE q == [begun EXCEPT !.keep = TRUE]
  <2>1. /\ q \in SessionState /\ q.pc = "detecting" /\ q.text = t /\ q.mode = m
        /\ q.slot = None /\ q.asked = {} /\ q.busy = {} /\ q.todo = {}
        /\ q.found = begun.found
    BY <1>3 DEF SessionState
  <2>2. SetSes(s, q)
    BY <1>7
  <2> HIDE DEF q
  <2> QED BY <1>6, <2>1, <2>2
<1>8. CASE SetSes(s, begun)
  BY <1>3, <1>6, <1>8
<1> QED BY <1>5, <1>7, <1>8 DEF Anonymize, begun

\* A detector's cache is asked: a hit is an honest answer.
LEMMA AskStep ==
    ASSUME CachesInv, NEW s \in Session, NEW d \in Detector, Ask(s, d)
    PROVE  CachesInv'
<1> DEFINE r == ses[s]
           slot == dcache[<<d, r.text>>]
           asked == [r EXCEPT !.asked = @ \cup {d}]
           computing == [asked EXCEPT !.busy = @ \cup {d}]
<1>1. /\ world' = world /\ pcache' = pcache /\ dcache' = dcache
      /\ r.pc = "detecting" /\ d \in ToSet(r.mode) \ r.asked
  BY DEF Ask
<1>2. r \in SessionState /\ SessionSound(world, r)
  BY DEF CachesInv
<1>3. Detecting(world, r) /\ r.text \in Text /\ r.mode \in world.modes /\ r.todo = {}
  BY <1>1, <1>2 DEF SessionSound
<1>4. PSound(world, pcache') /\ DSound(world, dcache')
  BY <1>1 DEF CachesInv
<1> HIDE DEF r
<1>5. CASE d \in Cached /\ Readable(slot) /\ SetSes(s, [asked EXCEPT !.found[d] = slot])
  <2> DEFINE q == [asked EXCEPT !.found[d] = slot]
  <2>1. HonestAnswer(world, slot, d, r.text)
    <3>1. <<d, r.text>> \in DKey /\ dcache[<<d, r.text>>] # None
      BY <1>3, <1>5 DEF DKey, Readable
    <3> QED BY <3>1 DEF CachesInv, DSound
  <2>2. slot \in Verdict
    BY <2>1 DEF HonestAnswer
  <2> HIDE DEF slot
  <2>3. /\ q \in SessionState /\ q.pc = r.pc /\ q.text = r.text /\ q.mode = r.mode
        /\ q.slot = r.slot /\ q.asked = r.asked \cup {d} /\ q.busy = r.busy
        /\ q.todo = r.todo
        /\ q.found = [r.found EXCEPT ![d] = slot]
    BY <1>2, <2>2 DEF SessionState
  <2>4. \A b \in Detector : q.found[b] = IF b = d THEN slot ELSE r.found[b]
    BY <1>2, <2>3 DEF SessionState
  <2>5. SetSes(s, q)
    BY <1>5
  <2> HIDE DEF q
  <2>6. Detecting(world, q)
    <3>1. q.asked \subseteq ToSet(q.mode) /\ q.busy \subseteq q.asked
      BY <1>1, <1>3, <2>3 DEF Detecting
    <3>2. \A b \in Detector, e \in Entity : q.found[b][e] \in {Absent, Real(b, q.text)[e]}
      BY <1>3, <2>1, <2>3, <2>4 DEF Detecting, HonestAnswer
    <3>3. ASSUME NEW b \in q.asked \ q.busy, Exact(world, b)
          PROVE  q.found[b] = Real(b, q.text) \/ (q.slot # None /\ b \notin world.merged)
      <4>1. b \in Detector
        BY <2>3 DEF SessionState
      <4>2. CASE b = d
        BY <2>1, <2>3, <2>4, <3>3, <4>1, <4>2 DEF HonestAnswer
      <4>3. CASE b # d
        BY <1>3, <2>3, <2>4, <3>3, <4>1, <4>3 DEF Detecting
      <4> QED BY <4>2, <4>3
    <3>4. q.slot # None => HonestFinding(world, q.slot, ToSet(q.mode) \ world.merged, q.text)
      BY <1>3, <2>3 DEF Detecting
    <3> QED BY <3>1, <3>2, <3>3, <3>4 DEF Detecting
  <2>7. SessionSound(world, q)
    BY <1>1, <1>3, <2>3, <2>6 DEF SessionSound
  <2> QED BY <1>1, <1>4, <2>3, <2>5, <2>7, Frame
<1>6. ASSUME NEW q \in SessionState, SetSes(s, q), q.pc = r.pc, q.text = r.text,
             q.mode = r.mode, q.slot = r.slot, q.asked = r.asked \cup {d},
             q.busy = r.busy \cup {d}, q.found = r.found, q.todo = r.todo
      PROVE  CachesInv'
  <2>1. q.asked \ q.busy \subseteq r.asked \ r.busy
    BY <1>6
  <2>2. Detecting(world, q)
    BY <1>1, <1>3, <1>6, <2>1 DEF Detecting
  <2>3. SessionSound(world, q)
    BY <1>1, <1>3, <1>6, <2>2 DEF SessionSound
  <2> QED BY <1>1, <1>4, <1>6, <2>3, Frame
<1>7. CASE SetSes(s, computing)
  <2>1. /\ computing \in SessionState /\ computing.pc = r.pc /\ computing.text = r.text
        /\ computing.mode = r.mode /\ computing.slot = r.slot
        /\ computing.asked = r.asked \cup {d} /\ computing.busy = r.busy \cup {d}
        /\ computing.found = r.found /\ computing.todo = r.todo
    BY <1>2 DEF SessionState
  <2> HIDE DEF computing
  <2> QED BY <1>6, <1>7, <2>1
<1>8. CASE SetSes(s, [computing EXCEPT !.unsaved = @ \cup {d}])
  <2> DEFINE q == [computing EXCEPT !.unsaved = @ \cup {d}]
  <2>1. /\ q \in SessionState /\ q.pc = r.pc /\ q.text = r.text
        /\ q.mode = r.mode /\ q.slot = r.slot
        /\ q.asked = r.asked \cup {d} /\ q.busy = r.busy \cup {d}
        /\ q.found = r.found /\ q.todo = r.todo
    BY <1>2 DEF SessionState
  <2>2. SetSes(s, q)
    BY <1>8
  <2> HIDE DEF q, computing
  <2> QED BY <1>6, <2>1, <2>2
<1> QED BY <1>5, <1>7, <1>8 DEF Ask, r
\* A detector's real answer, written to its cache or not.
LEMMA AnswerStep ==
    ASSUME CachesInv, NEW s \in Session, NEW d \in Detector, Answer(s, d)
    PROVE  CachesInv'
<1> DEFINE r == ses[s]
           v == Real(d, r.text)
           q == [r EXCEPT !.busy = @ \ {d}, !.found[d] = v]
<1>1. /\ world' = world /\ pcache' = pcache /\ d \in r.busy /\ SetSes(s, q)
      /\ \/ dcache' = [dcache EXCEPT ![<<d, r.text>>] = v]
         \/ dcache' = dcache
  BY DEF Answer
<1>2. r \in SessionState /\ SessionSound(world, r)
  BY DEF CachesInv
<1>3. /\ r.pc = "detecting" /\ Detecting(world, r) /\ r.text \in Text
      /\ r.mode \in world.modes /\ r.todo = {}
  BY <1>1, <1>2 DEF SessionSound
<1> HIDE DEF r
<1>4. v \in Verdict /\ HonestAnswer(world, v, d, r.text)
  BY <1>3, RealType DEF HonestAnswer
<1>5. PSound(world, pcache') /\ DSound(world, dcache')
  BY <1>1, <1>3, <1>4, WriteAnswer DEF CachesInv
<1> HIDE DEF v
<1>6. /\ q \in SessionState /\ q.pc = r.pc /\ q.text = r.text /\ q.mode = r.mode
      /\ q.slot = r.slot /\ q.asked = r.asked /\ q.busy = r.busy \ {d}
      /\ q.todo = r.todo /\ q.found = [r.found EXCEPT ![d] = v]
  BY <1>2, <1>4 DEF SessionState
<1>7. \A b \in Detector : q.found[b] = IF b = d THEN v ELSE r.found[b]
  BY <1>2, <1>6 DEF SessionState
<1> HIDE DEF q
<1>8. Detecting(world, q)
  <2>1. q.asked \subseteq ToSet(q.mode) /\ q.busy \subseteq q.asked
    BY <1>3, <1>6 DEF Detecting
  <2>2. \A b \in Detector, e \in Entity : q.found[b][e] \in {Absent, Real(b, q.text)[e]}
    BY <1>3, <1>4, <1>6, <1>7 DEF Detecting, HonestAnswer
  <2>3. ASSUME NEW b \in q.asked \ q.busy, Exact(world, b)
        PROVE  q.found[b] = Real(b, q.text) \/ (q.slot # None /\ b \notin world.merged)
    <3>1. b \in Detector
      BY <1>6 DEF SessionState
    <3>2. CASE b = d
      BY <1>6, <1>7, <3>1, <3>2 DEF v
    <3>3. CASE b # d
      BY <1>3, <1>6, <1>7, <2>3, <3>1, <3>3 DEF Detecting
    <3> QED BY <3>2, <3>3
  <2>4. q.slot # None => HonestFinding(world, q.slot, ToSet(q.mode) \ world.merged, q.text)
    BY <1>3, <1>6 DEF Detecting
  <2> QED BY <2>1, <2>2, <2>3, <2>4 DEF Detecting
<1>9. SessionSound(world, q)
  BY <1>3, <1>6, <1>8 DEF SessionSound
<1> QED BY <1>1, <1>5, <1>6, <1>9, Frame

\* A detector that fails open leaves no answer; it is not exact.
LEMMA DegradeStep ==
    ASSUME CachesInv, NEW s \in Session, NEW d \in Detector, Degrade(s, d)
    PROVE  CachesInv'
<1> DEFINE r == ses[s]
           q == [r EXCEPT !.busy = @ \ {d}]
<1>1. /\ world' = world /\ pcache' = pcache /\ dcache' = dcache
      /\ d \in r.busy /\ SetSes(s, q) /\ ~Exact(world, d)
  BY DEF Degrade, Exact
<1>2. r \in SessionState /\ SessionSound(world, r)
  BY DEF CachesInv
<1>3. /\ r.pc = "detecting" /\ Detecting(world, r) /\ r.text \in Text
      /\ r.mode \in world.modes /\ r.todo = {}
  BY <1>1, <1>2 DEF SessionSound
<1> HIDE DEF r
<1>4. /\ q \in SessionState /\ q.pc = r.pc /\ q.text = r.text /\ q.mode = r.mode
      /\ q.slot = r.slot /\ q.asked = r.asked /\ q.busy = r.busy \ {d}
      /\ q.todo = r.todo /\ q.found = r.found
  BY <1>2 DEF SessionState
<1> HIDE DEF q
<1>5. Detecting(world, q)
  BY <1>1, <1>3, <1>4 DEF Detecting
<1>6. SessionSound(world, q)
  BY <1>3, <1>4, <1>5 DEF SessionSound
<1>7. PSound(world, pcache') /\ DSound(world, dcache')
  BY <1>1 DEF CachesInv
<1> QED BY <1>1, <1>4, <1>6, <1>7, Frame

\* The deduplicated answers of the per-text detectors become the slot.
LEMMA StoreStep ==
    ASSUME AgreeOnTypes, CachesInv, NEW s \in Session, Store(s)
    PROVE  CachesInv'
<1> DEFINE r == ses[s]
           ds == PerText(r.mode)
           k == <<r.text, ds>>
           v == Dedup(ds, r.found)
           q == [r EXCEPT !.slot = v]
<1>1. /\ world' = world /\ dcache' = dcache /\ SetSes(s, q)
      /\ r.pc = "detecting" /\ r.slot = None
      /\ ToSet(ds) \subseteq r.asked \ r.busy
      /\ pcache' = WithSlot(k, v) \/ pcache' = pcache
  BY DEF Store
<1>2. r \in SessionState /\ SessionSound(world, r)
  BY DEF CachesInv
<1>3. /\ Detecting(world, r) /\ r.text \in Text /\ r.mode \in world.modes /\ r.todo = {}
      /\ r.found \in [Detector -> Verdict]
  BY <1>1, <1>2 DEF SessionSound, SessionState
<1> HIDE DEF r
<1>4. ds \in Seq(Detector) /\ ToSet(ds) = ToSet(r.mode) \ world.merged
  BY <1>3, PartsOfMode DEF CachesInv
<1> HIDE DEF ds
<1>5. HonestFinding(world, v, ToSet(ds), r.text)
  <2>1. \A d \in ToSet(ds) : Exact(world, d) => r.found[d] = Real(d, r.text)
    BY <1>1, <1>3 DEF Detecting
  <2>2. \A d \in Detector, e \in Entity : r.found[d][e] \in {Absent, Real(d, r.text)[e]}
    BY <1>3 DEF Detecting
  <2> QED BY <1>3, <1>4, <2>1, <2>2, DedupHonest
<1>6. v \in Finding
  BY <1>5 DEF HonestFinding
<1> HIDE DEF v
<1>7. PSound(world, pcache') /\ DSound(world, dcache')
  <2>1. k \in Text \X Seq(Detector) /\ k[1] = r.text /\ k[2] = ds
    BY <1>3, <1>4
  <2> HIDE DEF k
  <2>2. PSound(world, WithSlot(k, v))
    BY <1>5, <2>1, WriteSlot DEF CachesInv
  <2> QED BY <1>1, <2>2 DEF CachesInv
<1>8. /\ q \in SessionState /\ q.pc = r.pc /\ q.text = r.text /\ q.mode = r.mode
      /\ q.slot = v /\ q.asked = r.asked /\ q.busy = r.busy
      /\ q.todo = r.todo /\ q.found = r.found
  BY <1>2, <1>6 DEF SessionState
<1> HIDE DEF q
<1>9. Detecting(world, q)
  BY <1>1, <1>3, <1>4, <1>5, <1>8 DEF Detecting
<1>10. SessionSound(world, q)
  BY <1>1, <1>3, <1>8, <1>9 DEF SessionSound
<1> QED BY <1>1, <1>7, <1>8, <1>10, Frame

\* The vault entry is honest for all active detectors.
LEMMA FinishStep ==
    ASSUME AgreeOnTypes, CachesInv, NEW s \in Session, Finish(s)
    PROVE  CachesInv'
<1> DEFINE r == ses[s]
           ds == MergedOf(r.mode)
           more == Dedup(ds, r.found)
           u == Union(r.slot, more)
           q == [Idle EXCEPT !.pc = "sent", !.text = r.text, !.mode = r.mode, !.entry = u]
<1>1. /\ world' = world /\ pcache' = pcache /\ dcache' = dcache /\ SetSes(s, q)
      /\ r.pc = "detecting" /\ r.slot # None
      /\ ToSet(r.mode) \subseteq r.asked /\ r.busy = {}
  BY DEF Finish
<1>2. r \in SessionState /\ SessionSound(world, r)
  BY DEF CachesInv
<1>3. /\ Detecting(world, r) /\ r.text \in Text /\ r.mode \in world.modes
      /\ r.found \in [Detector -> Verdict]
  BY <1>1, <1>2 DEF SessionSound, SessionState
<1> HIDE DEF r
<1>4. /\ r.mode \in Seq(Detector) /\ ds \in Seq(Detector)
      /\ ToSet(ds) = ToSet(r.mode) \cap world.merged /\ ToSet(r.mode) \subseteq Detector
  BY <1>3, PartsOfMode, ToSetIn DEF CachesInv
<1> HIDE DEF ds
<1>5. HonestFinding(world, more, ToSet(ds), r.text)
  <2>1. \A d \in ToSet(ds) : Exact(world, d) => r.found[d] = Real(d, r.text)
    BY <1>1, <1>3, <1>4 DEF Detecting
  <2>2. \A d \in Detector, e \in Entity : r.found[d][e] \in {Absent, Real(d, r.text)[e]}
    BY <1>3 DEF Detecting
  <2> QED BY <1>3, <1>4, <2>1, <2>2, DedupHonest
<1> HIDE DEF more
<1>6. HonestFinding(world, u, ToSet(r.mode), r.text)
  <2>1. HonestFinding(world, r.slot, ToSet(r.mode) \ world.merged, r.text)
    BY <1>1, <1>3 DEF Detecting
  <2>2. HonestFinding(world, u, (ToSet(r.mode) \ world.merged) \cup ToSet(ds), r.text)
    BY <1>3, <1>4, <1>5, <2>1, UnionHonest
  <2>3. (ToSet(r.mode) \ world.merged) \cup ToSet(ds) = ToSet(r.mode)
    BY <1>4
  <2> QED BY <2>2, <2>3
<1>7. u \in Finding
  BY <1>6 DEF HonestFinding
<1> HIDE DEF u
<1>8. /\ q \in SessionState /\ q.pc = "sent" /\ q.text = r.text /\ q.mode = r.mode
      /\ q.entry = u /\ q.busy = {} /\ q.todo = {}
  BY <1>3, <1>4, <1>7, IdleFields DEF SessionState
<1> HIDE DEF q
<1>9. SessionSound(world, q)
  BY <1>3, <1>6, <1>8 DEF SessionSound
<1>10. PSound(world, pcache') /\ DSound(world, dcache')
  BY <1>1 DEF CachesInv
<1> QED BY <1>1, <1>8, <1>9, <1>10, Frame

\* The response: what it may carry is what Echoes says.
LEMMA RespondStep ==
    ASSUME CachesInv, NEW s \in Session, NEW t \in Text, Respond(s, t)
    PROVE  CachesInv'
<1> DEFINE r == ses[s]
           q == [r EXCEPT !.pc = "warming", !.out = t,
                          !.todo = {"pipeline"} \cup (ToSet(r.mode) \cap Cached)]
<1>1. /\ world' = world /\ pcache' = pcache /\ dcache' = dcache
      /\ r.pc = "sent" /\ Echoes(world, r, t)
      /\ SetSes(s, Idle) \/ SetSes(s, q)
  BY DEF Respond, MayAnswer, Echoes
<1>2. r \in SessionState /\ SessionSound(world, r)
  BY DEF CachesInv
<1>3. PSound(world, pcache') /\ DSound(world, dcache')
  BY <1>1 DEF CachesInv
<1> HIDE DEF r
<1>4. CASE SetSes(s, Idle)
  BY <1>1, <1>3, <1>4, IdleFields, IdleSound, Frame
<1>5. CASE SetSes(s, q)
  <2>1. /\ r.text \in Text /\ r.mode \in world.modes /\ r.busy = {}
        /\ HonestFinding(world, r.entry, ToSet(r.mode), r.text)
    BY <1>1, <1>2 DEF SessionSound
  <2>2. ToSet(r.mode) \subseteq Detector
    BY <2>1, PartsOfMode, ToSetIn DEF CachesInv
  <2>3. /\ q \in SessionState /\ q.pc = "warming" /\ q.text = r.text /\ q.mode = r.mode
        /\ q.entry = r.entry /\ q.busy = r.busy /\ q.out = t
        /\ q.todo = {"pipeline"} \cup (ToSet(r.mode) \cap Cached)
    BY <1>2, <2>2 DEF SessionState
  <2>4. SetSes(s, q)
    BY <1>5
  <2> HIDE DEF q
  <2>5. Warming(world, q)
    BY <1>1, <2>3 DEF Warming, Echoes
  <2>6. SessionSound(world, q)
    BY <2>1, <2>3, <2>5 DEF SessionSound
  <2> QED BY <1>1, <1>3, <2>3, <2>4, <2>6, Frame
<1> QED BY <1>1, <1>4, <1>5

\* One item of a prewarm is done; the rest is as it was.
LEMMA WarmRest ==
    ASSUME CachesInv, NEW s \in Session, ses[s].pc = "warming", NEW item,
           WarmDone(s, item), world' = world,
           PSound(world, pcache'), DSound(world, dcache')
    PROVE  CachesInv'
<1> DEFINE r == ses[s]
           left == r.todo \ {item}
           q == [r EXCEPT !.todo = left]
<1>1. SetSes(s, Idle) \/ SetSes(s, q)
  BY DEF WarmDone
<1>2. r \in SessionState /\ SessionSound(world, r) /\ r.pc = "warming"
  BY DEF CachesInv
<1> HIDE DEF r
<1>3. CASE SetSes(s, Idle)
  BY <1>3, IdleFields, IdleSound, Frame
<1>4. CASE SetSes(s, q)
  <2>1. /\ q \in SessionState /\ q.pc = r.pc /\ q.text = r.text /\ q.mode = r.mode
        /\ q.entry = r.entry /\ q.busy = r.busy /\ q.out = r.out
        /\ q.todo \subseteq r.todo
    BY <1>2 DEF SessionState
  <2>2. SetSes(s, q)
    BY <1>4
  <2> HIDE DEF q
  <2>3. Warming(world, q)
    BY <1>2, <2>1 DEF SessionSound, Warming, Echoes
  <2>4. SessionSound(world, q)
    BY <1>2, <2>1, <2>3 DEF SessionSound
  <2> QED BY <2>1, <2>2, <2>4, Frame
<1> QED BY <1>1, <1>3, <1>4

\* Where a session that prewarms stands.
LEMMA WarmingFacts ==
    ASSUME CachesInv, NEW s \in Session, NEW x \in ses[s].todo
    PROVE  /\ ses[s].pc = "warming" /\ ses[s] \in SessionState
           /\ ses[s].text \in Text /\ ses[s].out \in Text
           /\ ses[s].mode \in Seq(Detector)
           /\ x # "pipeline" => x \in ToSet(ses[s].mode)
           /\ HonestFinding(world, Synth(ses[s]), ToSet(ses[s].mode), ses[s].out)
<1> DEFINE r == ses[s]
<1>1. r \in SessionState /\ SessionSound(world, r) /\ x \in r.todo
  BY DEF CachesInv
<1> HIDE DEF r
<1>2. r.pc = "warming" /\ Warming(world, r)
  BY <1>1 DEF SessionSound
<1>3. /\ r.text \in Text /\ r.mode \in world.modes /\ r.out \in Text
      /\ HonestFinding(world, r.entry, ToSet(r.mode), r.text)
      /\ Echoes(world, r, r.out) /\ r.todo \ {"pipeline"} \subseteq ToSet(r.mode)
  BY <1>1, <1>2 DEF SessionSound, Warming
<1>4. HonestFinding(world, Synth(r), ToSet(r.mode), r.out)
  BY <1>1, <1>3, SynthHonest
<1>5. r.mode \in Seq(Detector)
  BY <1>1 DEF SessionState
<1> QED BY <1>1, <1>2, <1>3, <1>4, <1>5 DEF r

LEMMA WarmPipelineStep ==
    ASSUME CachesInv, NEW s \in Session, WarmPipeline(s)
    PROVE  CachesInv'
<1> DEFINE r == ses[s]
           k == WarmKey(r)
<1>1. /\ world' = world /\ dcache' = dcache /\ "pipeline" \in r.todo
      /\ WarmDone(s, "pipeline")
      /\ pcache' = WithSlot(k, Synth(r)) \/ pcache' = pcache
  BY DEF WarmPipeline
<1>2. /\ r.pc = "warming" /\ r.out \in Text /\ r.mode \in Seq(Detector)
      /\ HonestFinding(world, Synth(r), ToSet(r.mode), r.out)
  BY <1>1, WarmingFacts
<1>3. k \in Text \X Seq(Detector) /\ k[1] = r.out /\ k[2] = r.mode
  BY <1>2 DEF WarmKey
<1> HIDE DEF k
<1>4. PSound(world, WithSlot(k, Synth(r)))
  <2>1. HonestFinding(world, Synth(r), ToSet(k[2]), k[1])
    BY <1>2, <1>3
  <2> HIDE DEF r
  <2> QED BY <1>3, <2>1, WriteSlot DEF CachesInv
<1>5. PSound(world, pcache') /\ DSound(world, dcache')
  BY <1>1, <1>4 DEF CachesInv
<1> QED BY <1>1, <1>2, <1>5, WarmRest

LEMMA WarmDetectorStep ==
    ASSUME CachesInv, NEW s \in Session, NEW d \in Detector, WarmDetector(s, d)
    PROVE  CachesInv'
<1> DEFINE r == ses[s]
           v == SynthFor(r, d)
<1>1. /\ world' = world /\ pcache' = pcache /\ d \in r.todo /\ WarmDone(s, d)
      /\ dcache' = [dcache EXCEPT ![<<d, r.out>>] = v] \/ dcache' = dcache
  BY DEF WarmDetector
<1>2. d # "pipeline"
  BY DetectionCachesAssumption
<1>3. /\ r.pc = "warming" /\ r.out \in Text /\ r \in SessionState /\ d \in ToSet(r.mode)
      /\ HonestFinding(world, Synth(r), ToSet(r.mode), r.out)
  BY <1>1, <1>2, WarmingFacts
<1> HIDE DEF r
<1>4. HonestAnswer(world, v, d, r.out)
  BY <1>3, SynthForHonest
<1> HIDE DEF v
<1>5. DSound(world, [dcache EXCEPT ![<<d, r.out>>] = v])
  BY <1>3, <1>4, WriteAnswer DEF CachesInv
<1>6. PSound(world, pcache') /\ DSound(world, dcache')
  BY <1>1, <1>5 DEF CachesInv
<1> QED BY <1>1, <1>3, <1>6, WarmRest DEF r

\* A slot that vanishes takes nothing else with it.
LEMMA EvictStep ==
    ASSUME CachesInv,
           \/ \E k \in DOMAIN pcache : EvictPipeline(k)
           \/ \E k \in DKey : EvictDetector(k)
    PROVE  CachesInv'
<1>1. ASSUME NEW k \in DOMAIN pcache, EvictPipeline(k) PROVE CachesInv'
  <2>1. /\ world' = world /\ dcache' = dcache /\ ses' = ses
        /\ pcache' = [j \in DOMAIN pcache \ {k} |-> pcache[j]]
    BY <1>1 DEF EvictPipeline
  <2>2. PSound(world, pcache')
    BY <2>1 DEF CachesInv, PSound
  <2> QED BY <2>1, <2>2 DEF CachesInv
<1>2. ASSUME NEW k \in DKey, EvictDetector(k) PROVE CachesInv'
  <2>1. /\ world' = world /\ pcache' = pcache /\ ses' = ses
        /\ dcache' = [dcache EXCEPT ![k] = None]
    BY <1>2 DEF EvictDetector
  <2>2. DSound(world, dcache) /\ dcache \in [DKey -> Verdict \cup {None}]
    BY DEF CachesInv, DSound
  <2>3. dcache' \in [DKey -> Verdict \cup {None}]
        /\ \A j \in DKey : dcache'[j] = IF j = k THEN None ELSE dcache[j]
    BY <2>1, <2>2
  <2>4. DSound(world, dcache')
    BY <2>2, <2>3 DEF DSound
  <2> QED BY <2>1, <2>4 DEF CachesInv
<1> QED BY <1>1, <1>2
-----------------------------------------------------------------------------
LEMMA CachesInit == Init => CachesInv
<1> SUFFICES ASSUME Init PROVE CachesInv
  OBVIOUS
<1>1. world \in Worlds
  BY DEF Init
<1>2. PSound(world, pcache)
  <2>1. CASE pcache = <<>>
    <3>1. DOMAIN pcache = {}
      BY <2>1
    <3> QED BY <3>1 DEF PSound
  <2>2. CASE \E t \in Text, m \in world.modes :
                pcache = [k \in {<<t, PerText(m)>>} |-> Corrupt]
    <3>1. PICK t \in Text, m \in world.modes :
             pcache = [k \in {<<t, PerText(m)>>} |-> Corrupt]
      BY <2>2
    <3>2. PerText(m) \in Seq(Detector)
      BY <1>1, PartsOfMode
    <3> QED BY <3>1, <3>2 DEF PSound
  <2>3. \/ pcache = <<>>
        \/ \E t \in Text, m \in world.modes :
              pcache = [k \in {<<t, PerText(m)>>} |-> Corrupt]
    BY DEF Init
  <2> QED BY <2>1, <2>2, <2>3
<1>3. DSound(world, dcache)
  BY DEF Init, DSound
<1>4. ses \in [Session -> SessionState] /\ \A s \in Session : ses[s] = Idle
  BY IdleFields DEF Init
<1>5. \A s \in Session : SessionSound(world, ses[s])
  BY <1>4, IdleSound
<1> QED BY <1>1, <1>2, <1>3, <1>4, <1>5 DEF CachesInv

LEMMA CachesStep == AgreeOnTypes /\ CachesInv /\ [Next]_vars => CachesInv'
<1> SUFFICES ASSUME AgreeOnTypes, CachesInv, [Next]_vars PROVE CachesInv'
  OBVIOUS
<1>1. CASE \E s \in Session, t \in Text, m \in world.modes : Anonymize(s, t, m)
  BY <1>1, AnonymizeStep
<1>2. CASE \E s \in Session, d \in Detector : Ask(s, d) \/ Answer(s, d) \/ Degrade(s, d)
  BY <1>2, AskStep, AnswerStep, DegradeStep
<1>3. CASE \E s \in Session : Store(s) \/ Finish(s) \/ WarmPipeline(s)
  BY <1>3, StoreStep, FinishStep, WarmPipelineStep
<1>4. CASE \E s \in Session, t \in Text : Respond(s, t)
  BY <1>4, RespondStep
<1>5. CASE \E s \in Session, d \in Detector : WarmDetector(s, d)
  BY <1>5, WarmDetectorStep
<1>6. CASE \/ \E k \in DOMAIN pcache : EvictPipeline(k)
           \/ \E k \in DKey : EvictDetector(k)
  BY <1>6, EvictStep
<1>7. CASE UNCHANGED vars
  BY <1>7 DEF vars, CachesInv
<1> QED BY <1>1, <1>2, <1>3, <1>4, <1>5, <1>6, <1>7 DEF Next

\* Whatever is in either layer, and whatever a session carries, is honest.
THEOREM Invariant == ASSUME AgreeOnTypes PROVE Spec => []CachesInv
BY CachesInit, CachesStep, PTL DEF Spec

\* The state keeps its types through every interleaving of round trips.
THEOREM TypeCorrect == ASSUME AgreeOnTypes PROVE Spec => []TypeOK
<1>1. CachesInv => TypeOK
  BY DEF CachesInv, PSound, DSound, HonestFinding, TypeOK
<1> QED BY <1>1, Invariant, PTL

\* A pipeline slot, whether _detect_one or _prewarm_caches wrote it and however
\* often it was evicted, holds what running its detectors on its text gives.
THEOREM PipelineTruthful == ASSUME AgreeOnTypes PROVE Spec => []PipelineSlotsTruthful
<1>1. CachesInv => PipelineSlotsTruthful
  <2> SUFFICES ASSUME CachesInv, Sound, NEW k \in DOMAIN pcache, pcache[k] # Corrupt
               PROVE  pcache[k] = RealDedup(k[1], k[2])
    BY DEF PipelineSlotsTruthful
  <2>1. /\ k[1] \in Text /\ k[2] \in Seq(Detector)
        /\ HonestFinding(world, pcache[k], ToSet(k[2]), k[1])
    BY DEF CachesInv, PSound
  <2>2. \A d \in Detector : Exact(world, d)
    BY DEF Sound, Exact
  <2> QED BY <2>1, <2>2, ExactIsReal
<1> QED BY <1>1, Invariant, PTL

\* A detector's slot holds what the detector itself reports for the text.
THEOREM DetectorTruthful == ASSUME AgreeOnTypes PROVE Spec => []DetectorSlotsTruthful
<1>1. CachesInv => DetectorSlotsTruthful
  BY DEF CachesInv, DSound, HonestAnswer, DetectorSlotsTruthful, Sound, Exact, Readable
<1> QED BY <1>1, Invariant, PTL

\* What a session anonymizes: all that its exact detectors report, and nothing
\* that none of its detectors reports.
LEMMA EntryComplete ==
    ASSUME CachesInv, NEW s \in Session, ses[s].pc = "sent", NEW e \in Holds[ses[s].text]
    PROVE  /\ \A d \in ToSet(ses[s].mode) :
                Exact(world, d) /\ Reports[d][e] # Absent => d \in ses[s].entry[e].sources
           /\ \A d \in ses[s].entry[e].sources :
                d \in ToSet(ses[s].mode) /\ Reports[d][e] # Absent
<1> DEFINE r == ses[s]
<1>1. /\ r \in SessionState /\ r.text \in Text
      /\ HonestFinding(world, r.entry, ToSet(r.mode), r.text)
  BY DEF CachesInv, SessionSound
<1>2. e \in Entity
  BY <1>1, DetectionCachesAssumption
<1>3. e \in Holds[r.text]
  OBVIOUS
<1> HIDE DEF r
<1>4. ToSet(r.mode) \subseteq Detector
  <2>1. r.mode \in Seq(Detector)
    BY <1>1 DEF SessionState
  <2> QED BY <2>1, ToSetIn
<1>5. \A d \in ToSet(r.mode) : Real(d, r.text)[e] = Reports[d][e]
  BY <1>1, <1>2, <1>3, <1>4, RealType
<1>6. /\ r.entry[e].sources \subseteq Reporters(ToSet(r.mode), r.text, e)
      /\ \A d \in Reporters(ToSet(r.mode), r.text, e) : Exact(world, d) => d \in r.entry[e].sources
  BY <1>1, <1>2 DEF HonestFinding, HonestFor
<1>7. /\ \A d \in ToSet(r.mode) :
           Exact(world, d) /\ Reports[d][e] # Absent => d \in r.entry[e].sources
      /\ \A d \in r.entry[e].sources : d \in ToSet(r.mode) /\ Reports[d][e] # Absent
  BY <1>5, <1>6 DEF Reporters
<1> QED BY <1>7 DEF r

\* In any deployment whose model adds nothing to what the request held, every
\* detector that does not fail open has each of its findings anonymized, however
\* often the others failed and whatever incomplete results both layers kept.
THEOREM FailOpenIsContained == ASSUME AgreeOnTypes PROVE Spec => []FailOpenContained
<1>1. CachesInv => FailOpenContained
  <2> SUFFICES ASSUME CachesInv, world.echo_only, NEW s \in Session, ses[s].pc = "sent",
                      NEW e \in Holds[ses[s].text],
                      NEW d \in ToSet(ses[s].mode) \ world.fail_open, Reports[d][e] # Absent
               PROVE  d \in ses[s].entry[e].sources
    BY DEF FailOpenContained
  <2> QED BY EntryComplete DEF Exact
<1> QED BY <1>1, Invariant, PTL

\* No mix of cached and computed results lets an entity through that fresh
\* detection would have found.
THEOREM NoneMissed == ASSUME AgreeOnTypes PROVE Spec => []NothingMissed
<1>1. CachesInv => NothingMissed
  <2> SUFFICES ASSUME CachesInv, Sound, NEW s \in Session, ses[s].pc = "sent",
                      NEW e \in Holds[ses[s].text]
               PROVE  ses[s].entry[e].sources =
                          {d \in ToSet(ses[s].mode) : Reports[d][e] # Absent}
    BY DEF NothingMissed
  <2>1. ASSUME NEW d \in ToSet(ses[s].mode), Reports[d][e] # Absent
        PROVE  d \in ses[s].entry[e].sources
    BY <2>1, EntryComplete DEF Sound, Exact
  <2> QED BY <2>1, EntryComplete
<1> QED BY <1>1, Invariant, PTL

\* Even with detectors that fail open and a model that adds entities, no slot
\* claims an entity for a detector that would not have reported it.
THEOREM NothingInvented == ASSUME AgreeOnTypes PROVE Spec => []SlotsNeverInvent
<1>1. CachesInv => SlotsNeverInvent
  <2>1. ASSUME CachesInv, NEW k \in DOMAIN pcache, pcache[k] # Corrupt, NEW e \in Entity
        PROVE  pcache[k][e].sources \subseteq RealDedup(k[1], k[2])[e].sources
    <3> DEFINE t == k[1]
               ds == k[2]
               f == [d \in Detector |-> Real(d, t)]
    <3>1. /\ t \in Text /\ ds \in Seq(Detector)
          /\ pcache[k][e].sources \subseteq Reporters(ToSet(ds), t, e)
      BY <2>1 DEF CachesInv, PSound, HonestFinding, HonestFor
    <3> HIDE DEF t, ds
    <3>2. RealDedup(t, ds)[e].sources = {ds[i] : i \in By(ds, f, e)}
      BY DEF RealDedup, Dedup
    <3>3. ASSUME NEW d \in Reporters(ToSet(ds), t, e)
          PROVE  d \in {ds[i] : i \in By(ds, f, e)}
      <4>1. d \in ToSet(ds) /\ Real(d, t)[e] # Absent
        BY DEF Reporters
      <4>2. PICK i \in 1..Len(ds) : d = ds[i]
        BY <3>1, <4>1, ToSetIn
      <4>3. d \in Detector
        BY <3>1, <4>1, ToSetIn
      <4>4. f[ds[i]][e] # Absent
        BY <4>1, <4>2, <4>3
      <4> QED BY <4>2, <4>4 DEF By
    <3>4. pcache[k][e].sources \subseteq RealDedup(t, ds)[e].sources
      BY <3>1, <3>2, <3>3
    <3> QED BY <3>4 DEF t, ds
  <2>2. ASSUME CachesInv, NEW k \in DKey, dcache[k] # None, NEW e \in Entity
        PROVE  dcache[k][e] \in {Absent, Real(k[1], k[2])[e]}
    BY <2>2 DEF CachesInv, DSound, HonestAnswer
  <2> QED BY <2>1, <2>2 DEF SlotsNeverInvent
<1> QED BY <1>1, Invariant, PTL
=============================================================================
