--------------------------- MODULE Launcher_proofs ---------------------------
(***************************************************************************)
(* Theorems of Launcher for any number of launches on any hosts, with any  *)
(* presets and any texts typed in the menu: where the guardrail is sent,   *)
(* what a launch stops, and that a configuration made in the menu starts.  *)
(***************************************************************************)
EXTENDS Launcher, SequenceTheorems, WellFoundedInduction, TLAPS

(***************************************************************************)
(* The invariant.                                                          *)
(***************************************************************************)
Remote == {"llm", "privacy_filter", "gliner_pii"}
ServiceNames == Remote \cup {RedisName}

BackendsOk(backends) ==
  /\ backends \in Seq(Remote \X Sources)
  /\ \A i, j \in DOMAIN backends : backends[i][1] = backends[j][1] => i = j

IsList(q) == Len(q) \in Nat /\ DOMAIN q = 1..Len(q)
PresetOk(p) == IsList(p.mode) /\ {p.llm, p.privacy_filter} \subseteq BackendChoices

IsConfig(c) ==
  c \in [flavour : {c.flavour}, mode : {c.mode}, name : {c.name}, replace : {c.replace},
         faker : {c.faker}, locale : {c.locale}, salt : {c.salt}, env : {c.env},
         backends : {c.backends}, variants : {c.variants}, vaultSource : {c.vaultSource},
         cacheSource : {c.cacheSource}, rules : {c.rules}, extra : {c.extra}]
ConfigOk(c) == IsConfig(c) /\ IsList(c.mode) /\ BackendsOk(c.backends)

IsRun(r) ==
  r \in [phase : {r.phase}, cfg : {r.cfg}, todo : Seq(ServiceNames), started : SUBSET ServiceNames,
         made : {r.made}, waited : {r.waited}, registered : {r.registered}, env : {r.env}]

BoxRecords == [state : {"absent", "exited"} \cup Running, by : Launches \cup {Nobody, Operator}]
BoxOk == Containers \subseteq DOMAIN box /\ box \in [DOMAIN box -> BoxRecords]

\* No container of that name runs that the operator started.
Ours(c) == box[c].state \in Running => box[c].by \in Launches

MadeFor(r, n) == n \in DOMAIN r.made /\ r.made[n] = StartedAs(n, VariantOf(r.cfg, n)).container

RunOk(r) ==
  /\ IsRun(r)
  /\ ConfigOk(r.cfg)
  /\ r.phase \in {"idle", "menu"} => r.started = {}
  /\ r.phase \in {"reap", "create", "wait", "remove"} => r.todo # <<>>
  /\ r.phase = "remove" => Head(r.todo) \in r.started
  /\ r.phase = "serving" => r.env = GuardrailEnv(r.cfg, host.environ, r.started)
  /\ \A n \in r.started : MadeFor(r, n)

Owned(r) ==
  /\ \A n \in r.started : Ours(r.made[n])
  /\ r.phase = "reap" => Ours(Current(r).container)

LaunchInv ==
  /\ host \in Scenes /\ BoxOk /\ DOMAIN run = Launches
  /\ \A l \in Launches : RunOk(run[l]) /\ Owned(run[l])

\* What the menu can have bound.
Made(v, value) ==
  \/ \E row \in DOMAIN TextVariable : v = TextVariable[row] /\ value \in Typed[row]
  \/ \E row \in DOMAIN PickVariable : v = PickVariable[row] /\ value \in PickChoices[row]
  \/ \E row \in DOMAIN CacheVariable : v = CacheVariable[row] /\ value \in {"memory", Redis}
  \/ v = "VAULT_BACKEND" /\ value \in {"memory", Redis}
  \/ /\ v \in {FailVariable[row] : row \in DOMAIN FailVariable} \cup {"LLM_USE_FORWARDED_KEY"}
     /\ value \in {"true", "false"}

MenuConfig(c) ==
  /\ c.flavour = "default" /\ c.extra = EmptyEnv
  /\ {c.vaultSource, c.cacheSource} \subseteq BackendChoices
  /\ \A v \in DOMAIN c.env : c.env[v] # Unset /\ Made(v, c.env[v])
  /\ EnvGet(c.env, "VAULT_BACKEND") = Redis => c.vaultSource # Unset
  /\ CacheIsRedis(c) => c.cacheSource # Unset

MenuRunOk(l) ==
  LET r == run[l]
  IN /\ r.phase # "idle" => l \in DOMAIN host.flags
     /\ r.phase # "idle" /\ host.flags[l].menu => MenuConfig(r.cfg)
     /\ r.phase \notin {"idle", "menu", "ended"} /\ host.flags[l].menu => Valid(r.cfg)
MenuInv == \A l \in Launches : MenuRunOk(l)
-----------------------------------------------------------------------------
(* Maps: which binding of a variable counts.                                 *)

LEMMA Over ==
    ASSUME NEW f, NEW g
    PROVE  /\ DOMAIN (f ++ g) = DOMAIN f \cup DOMAIN g
           /\ \A v \in DOMAIN f : (f ++ g)[v] = f[v]
           /\ \A v \in DOMAIN g : v \notin DOMAIN f => (f ++ g)[v] = g[v]
<1>1. f ++ g = [v \in DOMAIN f \cup DOMAIN g |-> IF v \in DOMAIN f THEN f[v] ELSE g[v]]
  BY DEF ++
<1> QED BY <1>1

LEMMA OverGet ==
    ASSUME NEW f, NEW g, NEW v
    PROVE  EnvGet(f ++ g, v) = IF v \in DOMAIN f THEN f[v] ELSE EnvGet(g, v)
<1> DEFINE h == f ++ g
<1>1. /\ DOMAIN h = DOMAIN f \cup DOMAIN g
      /\ \A w \in DOMAIN f : h[w] = f[w]
      /\ \A w \in DOMAIN g : w \notin DOMAIN f => h[w] = g[w]
  BY Over
<1> HIDE DEF h
<1>2. EnvGet(h, v) = IF v \in DOMAIN f THEN f[v] ELSE EnvGet(g, v)
  BY <1>1 DEF EnvGet
<1> QED BY <1>2 DEF h

LEMMA BoundGet ==
    ASSUME NEW v, NEW value
    PROVE  DOMAIN Bound(v, value) = {v} /\ Bound(v, value)[v] = value
BY DEF Bound

LEMMA OptionGet ==
    ASSUME NEW v, NEW value
    PROVE  /\ DOMAIN Option(v, value) \subseteq {v}
           /\ \A w \in DOMAIN Option(v, value) : Option(v, value)[w] = value /\ value # Unset
BY DEF Option, Bound, EmptyEnv

LEMMA LeastExists ==
    ASSUME NEW T \in SUBSET Nat, T # {}
    PROVE  \E n \in T : \A k \in T : n <= k
<1>1. PICK n \in T : \A k \in T : ~(<<k, n>> \in OpToRel(<, Nat))
  BY NatLessThanWellFounded, WFMin
<1>2. \A k \in T : ~(k < n)
  BY <1>1 DEF OpToRel
<1>3. n \in Nat /\ \A k \in T : k \in Nat
  OBVIOUS
<1> QED BY <1>2, <1>3

\* The same from above.
LEMMA GreatestExists ==
    ASSUME NEW N \in Nat, NEW T \in SUBSET (1..N), T # {}
    PROVE  \E n \in T : \A k \in T : k <= n
<1> DEFINE U == {m \in Nat : N - m \in T}
<1>1. U \in SUBSET Nat /\ U # {}
  <2>1. PICK k : k \in T
    OBVIOUS
  <2>2. k \in 1..N /\ N - k \in Nat /\ N - (N - k) = k
    BY <2>1
  <2> QED BY <2>1, <2>2
<1>2. PICK m \in U : \A k \in U : m <= k
  <2> HIDE DEF U
  <2> QED BY <1>1, LeastExists
<1>3. N - m \in T
  BY <1>2
<1>4. ASSUME NEW k \in T PROVE k <= N - m
  <2>1. k \in 1..N /\ N - k \in Nat /\ N - (N - k) = k
    OBVIOUS
  <2>2. N - k \in U
    BY <2>1
  <2>3. m \in Nat /\ m <= N - k
    BY <1>2, <2>2
  <2> QED BY <2>1, <2>3
<1> QED BY <1>3, <1>4

\* What counts of a list of maps is bound by one of them, and everything that
\* one binds counts somewhere.
LEMMA LastBoundGet ==
    ASSUME NEW N \in Nat, NEW q, DOMAIN q = 1..N
    PROVE  /\ \A i \in 1..N : DOMAIN q[i] \subseteq DOMAIN LastBound(q)
           /\ \A v \in DOMAIN LastBound(q) :
                \E i \in 1..N : v \in DOMAIN q[i] /\ LastBound(q)[v] = q[i][v]
<1>1. DOMAIN LastBound(q) = UNION {DOMAIN q[i] : i \in DOMAIN q}
  BY DEF LastBound
<1>2. ASSUME NEW v \in DOMAIN LastBound(q)
      PROVE  \E i \in 1..N : v \in DOMAIN q[i] /\ LastBound(q)[v] = q[i][v]
  <2> DEFINE at == {i \in DOMAIN q : v \in DOMAIN q[i]}
  <2>1. at \in SUBSET (1..N) /\ at # {}
    BY <1>1
  <2>2. \E i \in at : \A j \in at : j <= i
    <3> HIDE DEF at
    <3> QED BY <2>1, GreatestExists
  <2> DEFINE last == CHOOSE i \in at : \A j \in at : j <= i
  <2>3. last \in at
    BY <2>2
  <2>4. LastBound(q)[v] = q[last][v]
    BY <1>1 DEF LastBound
  <2> QED BY <2>1, <2>3, <2>4
<1> QED BY <1>1, <1>2
-----------------------------------------------------------------------------
(* The services: what each is called and what it tells the guardrail.        *)

LEMMA Metadata ==
    /\ DOMAIN LauncherMetadata = {"regex", "denylist", "privacy_filter", "gliner_pii", "llm"}
    /\ LauncherMetadata["regex"] = RegexSpec /\ LauncherMetadata["denylist"] = DenylistSpec
    /\ LauncherMetadata["privacy_filter"] = PrivacyFilterSpec
    /\ LauncherMetadata["gliner_pii"] = GlinerSpec /\ LauncherMetadata["llm"] = LlmSpec
BY DEF LauncherMetadata

LEMMA DetectorNames == Detectors = {"regex", "denylist", "privacy_filter", "gliner_pii", "llm"}
<1>1. DOMAIN Registered = 1..5
  BY DEF Registered
<1>2. /\ Registered[1] = "regex" /\ Registered[2] = "denylist" /\ Registered[3] = "privacy_filter"
      /\ Registered[4] = "gliner_pii" /\ Registered[5] = "llm"
  BY DEF Registered
<1>3. 1..5 = {1, 2, 3, 4, 5}
  OBVIOUS
<1> QED BY <1>1, <1>2, <1>3 DEF Detectors

LEMMA NotAService ==
    \A x : ResolveService(RegexSpec, x) = NoService /\ ResolveService(DenylistSpec, x) = NoService
BY DEF ResolveService, RegexSpec, DenylistSpec, LauncherSpec, NoVariants

LEMMA LlmStarted ==
    ASSUME NEW x
    PROVE  /\ StartedAs("llm", x) = ResolveService(LlmSpec, x)
           /\ StartedAs("llm", x).container = "fake-llm"
           /\ StartedAs("llm", x) # NoService
           /\ StartedAs("llm", x).guardrailEnv =
                [LLM_API_BASE |-> "http://fake-llm:4000/v1",
                 LLM_API_KEY |-> "any-non-empty", LLM_MODEL |-> "fake"]
<1>1. StartedAs("llm", x) = ResolveService(LlmSpec, x)
  BY Metadata DEF StartedAs, RedisName
<1>2. ResolveService(LlmSpec, x) = LlmSpec.service
  BY DEF ResolveService, LlmSpec, LauncherSpec, NoVariants
<1>3. /\ LlmSpec.service.container = "fake-llm"
      /\ LlmSpec.service.guardrailEnv =
                [LLM_API_BASE |-> "http://fake-llm:4000/v1",
                 LLM_API_KEY |-> "any-non-empty", LLM_MODEL |-> "fake"]
  BY DEF LlmSpec, LauncherSpec, Service
<1>4. NoService.container = ""
  BY DEF NoService, Service
<1> QED BY <1>1, <1>2, <1>3, <1>4

LEMMA GlinerStarted ==
    ASSUME NEW x
    PROVE  /\ StartedAs("gliner_pii", x) = ResolveService(GlinerSpec, x)
           /\ StartedAs("gliner_pii", x).container = "gliner-pii-service"
           /\ StartedAs("gliner_pii", x) # NoService
           /\ StartedAs("gliner_pii", x).guardrailEnv =
                [GLINER_PII_URL |-> "http://gliner-pii-service:8002"]
<1>1. StartedAs("gliner_pii", x) = ResolveService(GlinerSpec, x)
  BY Metadata DEF StartedAs, RedisName
<1>2. ResolveService(GlinerSpec, x) = GlinerSpec.service
  BY DEF ResolveService, GlinerSpec, LauncherSpec, NoVariants
<1>3. /\ GlinerSpec.service.container = "gliner-pii-service"
      /\ GlinerSpec.service.guardrailEnv = [GLINER_PII_URL |-> "http://gliner-pii-service:8002"]
  BY DEF GlinerSpec, LauncherSpec, Service
<1>4. NoService.container = ""
  BY DEF NoService, Service
<1> QED BY <1>1, <1>2, <1>3, <1>4

\* The address always names the container that is started, variant or not.
LEMMA PrivacyFilterStarted ==
    ASSUME NEW x
    PROVE  LET s == StartedAs("privacy_filter", x)
           IN /\ s = ResolveService(PrivacyFilterSpec, x)
              /\ s # NoService
              /\ \/ /\ s.container = "privacy-filter-service"
                    /\ s.guardrailEnv =
                         [PRIVACY_FILTER_URL |-> "http://privacy-filter-service:8001"]
                 \/ /\ s.container = "privacy-filter-hf-service"
                    /\ s.guardrailEnv =
                         [PRIVACY_FILTER_URL |-> "http://privacy-filter-hf-service:8003"]
<1>1. StartedAs("privacy_filter", x) = ResolveService(PrivacyFilterSpec, x)
  BY Metadata DEF StartedAs, RedisName
<1>2. /\ PrivacyFilterSpec.service = PrivacyFilterService
      /\ DOMAIN PrivacyFilterSpec.variants = {"hf"}
      /\ PrivacyFilterSpec.variants["hf"] = PrivacyFilterHf
  BY DEF PrivacyFilterSpec, LauncherSpec
<1>3. ResolveService(PrivacyFilterSpec, x) \in {PrivacyFilterService, PrivacyFilterHf}
  BY <1>2 DEF ResolveService
<1>4. /\ PrivacyFilterService.container = "privacy-filter-service"
      /\ PrivacyFilterService.guardrailEnv =
           [PRIVACY_FILTER_URL |-> "http://privacy-filter-service:8001"]
      /\ PrivacyFilterHf.container = "privacy-filter-hf-service"
      /\ PrivacyFilterHf.guardrailEnv =
           [PRIVACY_FILTER_URL |-> "http://privacy-filter-hf-service:8003"]
  BY DEF PrivacyFilterService, PrivacyFilterHf, Service
<1>5. NoService.container = ""
  BY DEF NoService, Service
<1> QED BY <1>1, <1>3, <1>4, <1>5

LEMMA StartedContainer ==
    ASSUME NEW n \in ServiceNames, NEW x
    PROVE  StartedAs(n, x).container \in Containers \ {Guardrail}
<1>1. Guardrail = "anonymizer-guardrail"
  BY DEF Guardrail, DefaultConfig
<1>2. StartedAs(n, x) \in Services
  <2>1. CASE n = RedisName
    BY <2>1 DEF StartedAs, Services
  <2>2. CASE n \in Remote
    <3>1. n \in Detectors /\ n # RedisName
      BY <2>2, DetectorNames DEF Remote, RedisName
    <3>2. StartedAs(n, x) = ResolveService(LauncherMetadata[n], x) /\ StartedAs(n, x) # NoService
      BY <2>2, <3>1, LlmStarted, GlinerStarted, PrivacyFilterStarted DEF StartedAs, Remote
    <3> QED BY <3>1, <3>2 DEF ResolveService, Services
  <2> QED BY <2>1, <2>2 DEF ServiceNames
<1>3. StartedAs(n, x).container # "anonymizer-guardrail"
  <2>1. CASE n = RedisName
    BY <2>1 DEF StartedAs, RedisService, Service
  <2>2. CASE n \in Remote
    BY <2>2, LlmStarted, GlinerStarted, PrivacyFilterStarted DEF Remote
  <2> QED BY <2>1, <2>2 DEF ServiceNames
<1> QED BY <1>1, <1>2, <1>3 DEF Containers
-----------------------------------------------------------------------------
(* Configurations: what the command line and the menu make of the backends.  *)

LEMMA ServiceAtType ==
    ASSUME NEW backends \in Seq(Remote \X Sources), NEW i
    PROVE  ServiceAt(backends, i) \in Seq(ServiceNames)
<1>1. i \in DOMAIN backends => backends[i][1] \in Remote
  <2>1. i \in DOMAIN backends => backends[i] \in Remote \X Sources
    BY ElementOfSeq, LenProperties
  <2> QED BY <2>1
<1>2. i \in DOMAIN backends => <<backends[i][1]>> \in Seq(ServiceNames)
  BY <1>1 DEF ServiceNames
<1>3. <<>> \in Seq(ServiceNames)
  OBVIOUS
<1> QED BY <1>2, <1>3 DEF ServiceAt

LEMMA ToStartType ==
    ASSUME NEW cfg, ConfigOk(cfg)
    PROVE  ToStart(cfg) \in Seq(ServiceNames)
<1>1. cfg.backends \in Seq(Remote \X Sources)
  BY DEF ConfigOk, BackendsOk
<1>2. <<RedisName>> \in Seq(ServiceNames) /\ <<>> \in Seq(ServiceNames)
  BY DEF ServiceNames
<1> DEFINE redis == IF "service" \in {cfg.vaultSource, cfg.cacheSource} THEN <<RedisName>> ELSE <<>>
<1>3. redis \in Seq(ServiceNames)
  BY <1>2
<1>4. \A i \in 1..3 : ServiceAt(cfg.backends, i) \in Seq(ServiceNames)
  BY <1>1, ServiceAtType
<1> HIDE DEF redis
<1>5. redis \o ServiceAt(cfg.backends, 1) \in Seq(ServiceNames)
  BY <1>3, <1>4, ConcatProperties
<1>6. redis \o ServiceAt(cfg.backends, 1) \o ServiceAt(cfg.backends, 2) \in Seq(ServiceNames)
  BY <1>4, <1>5, ConcatProperties
<1>7. redis \o ServiceAt(cfg.backends, 1) \o ServiceAt(cfg.backends, 2)
        \o ServiceAt(cfg.backends, 3) \in Seq(ServiceNames)
  BY <1>4, <1>6, ConcatProperties
<1> QED BY <1>7 DEF ToStart, redis

LEMMA PutBackendOk ==
    ASSUME NEW b, BackendsOk(b), NEW d \in Remote, NEW x \in Sources
    PROVE  BackendsOk(PutBackend(b, d, x))
<1>1. b \in Seq(Remote \X Sources) /\ <<d, x>> \in Remote \X Sources
  BY DEF BackendsOk
<1>2. CASE \E i \in DOMAIN b : b[i][1] = d
  <2> DEFINE c == [i \in DOMAIN b |-> IF b[i][1] = d THEN <<d, x>> ELSE b[i]]
  <2>1. PutBackend(b, d, x) = c
    BY <1>2 DEF PutBackend
  <2>2. c \in Seq(Remote \X Sources)
    <3>1. DOMAIN b = 1..Len(b) /\ Len(b) \in Nat /\ \A i \in 1..Len(b) : b[i] \in Remote \X Sources
      BY <1>1, LenProperties, ElementOfSeq
    <3>2. \A i \in 1..Len(b) : c[i] \in Remote \X Sources
      BY <1>1, <3>1
    <3> QED BY <3>1, <3>2, IsASeq
  <2>3. \A i \in DOMAIN b : c[i][1] = b[i][1]
    OBVIOUS
  <2> QED BY <2>1, <2>2, <2>3 DEF BackendsOk
<1>3. CASE ~ \E i \in DOMAIN b : b[i][1] = d
  <2> DEFINE c == Append(b, <<d, x>>)
  <2>1. PutBackend(b, d, x) = c
    BY <1>3 DEF PutBackend
  <2>2. c \in Seq(Remote \X Sources) /\ Len(c) = Len(b) + 1 /\ DOMAIN c = 1..(Len(b) + 1)
        /\ DOMAIN b = 1..Len(b) /\ Len(b) \in Nat
        /\ c[Len(b) + 1] = <<d, x>> /\ \A i \in 1..Len(b) : c[i] = b[i]
    BY <1>1, AppendProperties, LenProperties
  <2>3. \A i, j \in DOMAIN c : c[i][1] = c[j][1] => i = j
    <3> TAKE i, j \in DOMAIN c
    <3>1. (i = Len(b) + 1 \/ i \in DOMAIN b) /\ (j = Len(b) + 1 \/ j \in DOMAIN b)
      BY <2>2
    <3>2. \A k \in DOMAIN b : c[k][1] = b[k][1] /\ b[k][1] # d
      BY <2>2, <1>3
    <3>3. c[Len(b) + 1][1] = d
      BY <2>2
    <3> QED BY <3>1, <3>2, <3>3 DEF BackendsOk
  <2> QED BY <2>1, <2>2, <2>3 DEF BackendsOk
<1> QED BY <1>2, <1>3

LEMMA DropBackendOk ==
    ASSUME NEW b, BackendsOk(b), NEW d
    PROVE  BackendsOk(DropBackend(b, d))
<1>1. b \in Seq(Remote \X Sources) /\ DOMAIN b = 1..Len(b) /\ Len(b) \in Nat
      /\ \A i \in 1..Len(b) : b[i] \in Remote \X Sources
  BY LenProperties, ElementOfSeq DEF BackendsOk
<1>2. CASE \E i \in DOMAIN b : b[i][1] = d
  <2> DEFINE at == CHOOSE i \in DOMAIN b : b[i][1] = d
             c == RemoveAt(b, at)
             from(i) == IF i < at THEN i ELSE i + 1
  <2>1. DropBackend(b, d) = c
    BY <1>2 DEF DropBackend
  <2>2. at \in 1..Len(b)
    BY <1>1, <1>2
  <2>3. /\ c = SubSeq(b, 1, at - 1) \o SubSeq(b, at + 1, Len(b))
    BY <1>1 DEF RemoveAt
  <2> HIDE DEF at
  <2>4. Len(c) = Len(b) - 1 /\ c \in Seq(Remote \X Sources)
        /\ \A i \in 1..(Len(b) - 1) : c[i] = b[from(i)] /\ from(i) \in 1..Len(b)
    <3> DEFINE u == SubSeq(b, 1, at - 1)
               w == SubSeq(b, at + 1, Len(b))
    <3>1. /\ u \in Seq(Remote \X Sources) /\ Len(u) = at - 1
          /\ \A i \in 1..(at - 1) : u[i] = b[i]
      BY <1>1, <2>2, SubSeqProperties
    <3>2. /\ w \in Seq(Remote \X Sources) /\ Len(w) = Len(b) - at
          /\ \A i \in 1..(Len(b) - at) : w[i] = b[at + i]
      <4> DEFINE m == at + 1
                 N == Len(b)
      <4>1. m \in Int /\ N \in Int /\ \A i \in m..N : b[i] \in Remote \X Sources
        BY <1>1, <2>2
      <4>2. /\ SubSeq(b, m, N) \in Seq(Remote \X Sources)
            /\ Len(SubSeq(b, m, N)) = IF m <= N THEN N - m + 1 ELSE 0
            /\ \A i \in 1..(N - m + 1) : SubSeq(b, m, N)[i] = b[m + i - 1]
        <5> HIDE DEF m, N
        <5> QED BY <4>1, SubSeqProperties
      <4>3. N - m + 1 = N - at /\ (IF m <= N THEN N - m + 1 ELSE 0) = N - at
            /\ \A i \in 1..(N - at) : m + i - 1 = at + i
        <5>1. N \in Nat /\ at \in Nat /\ at <= N
          BY <1>1, <2>2
        <5>2. m = at + 1
          OBVIOUS
        <5> HIDE DEF m, N
        <5>3. N - m + 1 = N - at /\ (IF m <= N THEN N - m + 1 ELSE 0) = N - at
          BY <5>1, <5>2
        <5>4. \A i \in 1..(N - at) : m + i - 1 = at + i
          BY <5>1, <5>2
        <5> QED BY <5>3, <5>4
      <4> HIDE DEF m, N
      <4>4. w = SubSeq(b, m, N)
        BY DEF m, N
      <4>5. /\ w \in Seq(Remote \X Sources) /\ Len(w) = N - at
            /\ \A i \in 1..(N - at) : w[i] = b[at + i]
        BY <4>2, <4>3, <4>4
      <4> QED BY <4>5 DEF N
    <3> HIDE DEF u, w
    <3>3. /\ u \o w \in Seq(Remote \X Sources) /\ Len(u \o w) = Len(u) + Len(w)
          /\ \A i \in 1..(Len(u) + Len(w)) : (u \o w)[i] = IF i <= Len(u) THEN u[i] ELSE w[i - Len(u)]
      BY <3>1, <3>2, ConcatProperties
    <3>4. c = u \o w
      BY <2>3 DEF u, w
    <3> HIDE DEF c
    <3>5. ASSUME NEW i \in 1..(Len(b) - 1)
          PROVE  c[i] = b[from(i)] /\ from(i) \in 1..Len(b)
      <4>1. CASE i < at
        BY <1>1, <2>2, <3>1, <3>2, <3>3, <3>4, <4>1
      <4>2. CASE i >= at
        <5>1. c[i] = w[i - (at - 1)]
          BY <1>1, <2>2, <3>1, <3>2, <3>3, <3>4, <4>2
        <5>2. i - (at - 1) \in 1..(Len(b) - at) /\ at + (i - (at - 1)) = i + 1
          BY <1>1, <2>2, <4>2
        <5> QED BY <1>1, <2>2, <3>2, <4>2, <5>1, <5>2
      <4> QED BY <1>1, <2>2, <4>1, <4>2
    <3>6. Len(c) = Len(b) - 1
      <4>1. Len(b) \in Nat /\ at \in Nat
        BY <1>1, <2>2
      <4>2. Len(c) = (at - 1) + (Len(b) - at)
        BY <3>1, <3>2, <3>3, <3>4
      <4> QED BY <4>1, <4>2
    <3> HIDE DEF from
    <3> QED BY <3>3, <3>4, <3>5, <3>6
  <2>5. \A i, j \in 1..(Len(b) - 1) : from(i) = from(j) => i = j
    BY <1>1, <2>2
  <2>6. DOMAIN c = 1..(Len(b) - 1)
    BY <1>1, <2>4, LenProperties
  <2> HIDE DEF c, from
  <2>7. \A i, j \in DOMAIN b : b[i][1] = b[j][1] => i = j
    BY DEF BackendsOk
  <2>8. \A i, j \in DOMAIN c : c[i][1] = c[j][1] => i = j
    <3> TAKE i, j \in DOMAIN c
    <3>1. /\ c[i] = b[from(i)] /\ from(i) \in DOMAIN b
          /\ c[j] = b[from(j)] /\ from(j) \in DOMAIN b
      BY <1>1, <2>4, <2>6
    <3> QED BY <2>5, <2>6, <2>7, <3>1
  <2> QED BY <2>1, <2>4, <2>8 DEF BackendsOk
<1>3. CASE ~ \E i \in DOMAIN b : b[i][1] = d
  BY <1>3 DEF DropBackend
<1> QED BY <1>2, <1>3

LEMMA DefaultOk == ConfigOk(DefaultConfig)
<1>1. IsList(<<"regex">>)
  BY DEF IsList
<1>2. <<>> \in Seq(Remote \X Sources) /\ DOMAIN <<>> = {}
  OBVIOUS
<1>3. BackendsOk(<<>>)
  BY <1>2 DEF BackendsOk
<1>4. IsConfig(DefaultConfig) /\ DefaultConfig.backends = <<>> /\ DefaultConfig.mode = <<"regex">>
  BY DEF IsConfig, DefaultConfig
<1> QED BY <1>1, <1>3, <1>4 DEF ConfigOk

LEMMA BundledOk == \A name \in DOMAIN BundledPresets : PresetOk(BundledPresets[name])
<1> DEFINE Offered == {Unset, "service"}
           B(p) == [flavour : {p.flavour}, mode : {q \in {p.mode} : IsList(q)}, faker : {p.faker},
                    llm : Offered, privacy_filter : Offered, gliner_pii : Offered,
                    vaultSource : Offered, cacheSource : Offered,
                    variants : {p.variants, [privacy_filter |-> "hf"]}, env : {p.env}]
<1>1. ASSUME NEW q, IsList(q), NEW env
      PROVE  Preset(q, env) \in B(Preset(q, env))
  BY <1>1 DEF Preset
<1>2. ASSUME NEW p, NEW r \in B(p)
      PROVE  PresetOk(r)
  <2>1. IsList(r.mode) /\ r.llm \in Offered /\ r.privacy_filter \in Offered
    OBVIOUS
  <2> QED BY <2>1 DEF PresetOk, BackendChoices, Sources
<1>3. ASSUME NEW p, p \in B(p)
      PROVE  /\ [p EXCEPT !.llm = "service"] \in B(p)
             /\ [p EXCEPT !.gliner_pii = "service"] \in B(p)
             /\ [p EXCEPT !.vaultSource = "service"] \in B(p)
             /\ [p EXCEPT !.privacy_filter = "service", !.variants = [privacy_filter |-> "hf"]]
                  \in B(p)
             /\ [p EXCEPT !.privacy_filter = "service", !.cacheSource = "service",
                          !.variants = [privacy_filter |-> "hf"]] \in B(p)
  <2>1. [p EXCEPT !.llm = "service"] \in B(p)
    BY <1>3
  <2>2. [p EXCEPT !.gliner_pii = "service"] \in B(p)
    BY <1>3
  <2>3. [p EXCEPT !.vaultSource = "service"] \in B(p)
    BY <1>3
  <2>4. [p EXCEPT !.privacy_filter = "service", !.variants = [privacy_filter |-> "hf"]] \in B(p)
    BY <1>3
  <2>5. [p EXCEPT !.privacy_filter = "service", !.cacheSource = "service",
                  !.variants = [privacy_filter |-> "hf"]] \in B(p)
    BY <1>3
  <2> QED BY <2>1, <2>2, <2>3, <2>4, <2>5
<1>4. /\ IsList(<<"regex">>) /\ IsList(<<"regex", "llm">>)
      /\ IsList(<<"privacy_filter">>) /\ IsList(<<"gliner_pii">>)
  BY DEF IsList
<1>5. ASSUME NEW name \in DOMAIN BundledPresets
      PROVE  \E p : BundledPresets[name] \in B(p)
  <2> HIDE DEF B
  <2>1. name \in {"regex-default", "regex-llm-debug", "privacy-filter-service",
             "gliner-pii-service", "vault-redis", "pf-cache-redis"}
    BY DEF BundledPresets
  <2>2. CASE name = "regex-default"
    <3>1. BundledPresets[name] = Preset(<<"regex">>, [REGEX_OVERLAP_STRATEGY |-> "longest"])
      BY <2>2 DEF BundledPresets
    <3> QED BY <1>1, <1>4, <3>1
  <2>3. CASE name = "regex-llm-debug"
    <3> DEFINE p == Preset(<<"regex", "llm">>, [REGEX_OVERLAP_STRATEGY |-> "longest"])
               r == [p EXCEPT !.llm = "service"]
    <3>1. BundledPresets[name] = r
      BY <2>3 DEF BundledPresets
    <3>2. p \in B(p)
      BY <1>1, <1>4
    <3> HIDE DEF p
    <3>3. r \in B(p)
      BY <1>3, <3>2
    <3> QED BY <3>1, <3>3
  <2>4. CASE name = "privacy-filter-service"
    <3> DEFINE p == Preset(<<"privacy_filter">>, EmptyEnv)
               r == [p EXCEPT !.privacy_filter = "service", !.variants = [privacy_filter |-> "hf"]]
    <3>1. BundledPresets[name] = r
      BY <2>4 DEF BundledPresets
    <3>2. p \in B(p)
      BY <1>1, <1>4
    <3> HIDE DEF p
    <3>3. r \in B(p)
      BY <1>3, <3>2
    <3> QED BY <3>1, <3>3
  <2>5. CASE name = "gliner-pii-service"
    <3> DEFINE p == Preset(<<"gliner_pii">>, EmptyEnv)
               r == [p EXCEPT !.gliner_pii = "service"]
    <3>1. BundledPresets[name] = r
      BY <2>5 DEF BundledPresets
    <3>2. p \in B(p)
      BY <1>1, <1>4
    <3> HIDE DEF p
    <3>3. r \in B(p)
      BY <1>3, <3>2
    <3> QED BY <3>1, <3>3
  <2>6. CASE name = "vault-redis"
    <3> DEFINE p == Preset(<<"regex">>, [VAULT_BACKEND |-> "redis"])
               r == [p EXCEPT !.vaultSource = "service"]
    <3>1. BundledPresets[name] = r
      BY <2>6 DEF BundledPresets
    <3>2. p \in B(p)
      BY <1>1, <1>4
    <3> HIDE DEF p
    <3>3. r \in B(p)
      BY <1>3, <3>2
    <3> QED BY <3>1, <3>3
  <2>7. CASE name = "pf-cache-redis"
    <3> DEFINE p == Preset(<<"privacy_filter">>, [PRIVACY_FILTER_CACHE_BACKEND |-> "redis"])
               r == [p EXCEPT !.privacy_filter = "service", !.cacheSource = "service", !.variants = [privacy_filter |-> "hf"]]
    <3>1. BundledPresets[name] = r
      BY <2>7 DEF BundledPresets
    <3>2. p \in B(p)
      BY <1>1, <1>4
    <3> HIDE DEF p
    <3>3. r \in B(p)
      BY <1>3, <3>2
    <3> QED BY <3>1, <3>3
  <2> QED BY <2>1, <2>2, <2>3, <2>4, <2>5, <2>6, <2>7
<1> HIDE DEF B
<1> QED BY <1>2, <1>5
LEMMA ApplyPresetOk ==
    ASSUME NEW cfg, ConfigOk(cfg), NEW p, PresetOk(p)
    PROVE  ConfigOk(ApplyPreset(cfg, p))
<1> DEFINE c == ApplyPreset(cfg, p)
<1>1. /\ IsConfig(c) /\ c.mode = p.mode /\ c.backends = cfg.backends
  BY DEF ConfigOk, IsConfig, ApplyPreset
<1> HIDE DEF c
<1>2. IsList(c.mode) /\ BackendsOk(c.backends)
  BY <1>1 DEF ConfigOk, PresetOk
<1> QED BY <1>1, <1>2 DEF ConfigOk, c

LEMMA WithFlagsOk ==
    ASSUME NEW cfg, ConfigOk(cfg), NEW f, f.mode # <<>> => IsList(f.mode)
    PROVE  ConfigOk(WithFlags(cfg, f))
<1> DEFINE c == WithFlags(cfg, f)
<1>1. IsConfig(c) /\ c.mode \in {f.mode, cfg.mode} /\ c.backends = cfg.backends
      /\ (c.mode = IF f.mode # <<>> THEN f.mode ELSE cfg.mode)
  BY DEF ConfigOk, IsConfig, WithFlags
<1> HIDE DEF c
<1>2. IsList(c.mode) /\ BackendsOk(c.backends)
  BY <1>1 DEF ConfigOk
<1> QED BY <1>1, <1>2 DEF ConfigOk, c

LEMMA WithBackendsOk ==
    ASSUME NEW cfg, ConfigOk(cfg), NEW f, NEW p, PresetOk(p),
           {f.llmBackend, f.pfBackend, f.glinerBackend} \subseteq BackendChoices
    PROVE  ConfigOk(WithBackends(cfg, f, p))
<1> DEFINE c == WithBackends(cfg, f, p)
           Implied(url) == IF url \in DOMAIN f.options THEN "external" ELSE Unset
           pfFlag == Given(f.pfBackend, Implied("pf_url"))
           llm == Given(f.llmBackend, p.llm)
           gliner == Given(f.glinerBackend, Implied("gliner_url"))
           pf == Given(Given(pfFlag, p.privacy_filter),
                       IF Active(cfg, "privacy_filter") THEN "service" ELSE Unset)
           E(d, b) == IF b # Unset THEN << <<d, b>> >> ELSE <<>>
<1>1. IsConfig(c) /\ c.mode = cfg.mode
      /\ c.backends = E("llm", llm) \o E("privacy_filter", pf) \o E("gliner_pii", gliner)
  BY DEF ConfigOk, IsConfig, WithBackends
<1>2. llm \in BackendChoices /\ pf \in BackendChoices /\ gliner \in BackendChoices
  BY DEF Given, BackendChoices, Sources, PresetOk
<1> HIDE DEF c, llm, pf, gliner
<1>3. ASSUME NEW d \in Remote, NEW b \in BackendChoices
      PROVE  /\ E(d, b) \in Seq(Remote \X Sources)
             /\ E(d, b) = <<>> \/ (Len(E(d, b)) = 1 /\ E(d, b)[1][1] = d)
  <2>1. CASE b = Unset
    BY <2>1
  <2>2. CASE b # Unset
    <3>1. <<d, b>> \in Remote \X Sources
      BY <2>2 DEF BackendChoices
    <3>2. E(d, b) = << <<d, b>> >>
      BY <2>2
    <3> QED BY <3>1, <3>2
  <2> QED BY <2>1, <2>2
<1> DEFINE x == E("llm", llm)
           y == E("privacy_filter", pf)
           z == E("gliner_pii", gliner)
<1>4. /\ x \in Seq(Remote \X Sources) /\ (x = <<>> \/ (Len(x) = 1 /\ x[1][1] = "llm"))
      /\ y \in Seq(Remote \X Sources) /\ (y = <<>> \/ (Len(y) = 1 /\ y[1][1] = "privacy_filter"))
      /\ z \in Seq(Remote \X Sources) /\ (z = <<>> \/ (Len(z) = 1 /\ z[1][1] = "gliner_pii"))
  BY <1>2, <1>3 DEF Remote
<1> HIDE DEF x, y, z, E
<1>5. BackendsOk((x \o y) \o z)
  <2> DEFINE u == x \o y
             w == u \o z
  <2>1. /\ u \in Seq(Remote \X Sources) /\ Len(u) = Len(x) + Len(y)
        /\ \A i \in 1..(Len(x) + Len(y)) : u[i] = IF i <= Len(x) THEN x[i] ELSE y[i - Len(x)]
    <3> DEFINE S == Remote \X Sources
    <3>1. x \in Seq(S) /\ y \in Seq(S)
      BY <1>4
    <3> HIDE DEF S
    <3>2. /\ u \in Seq(S) /\ Len(u) = Len(x) + Len(y)
          /\ \A i \in 1..(Len(x) + Len(y)) : u[i] = IF i <= Len(x) THEN x[i] ELSE y[i - Len(x)]
      BY <3>1, ConcatProperties
    <3> QED BY <3>2 DEF S
  <2> HIDE DEF u
  <2>2. /\ w \in Seq(Remote \X Sources) /\ Len(w) = Len(u) + Len(z)
        /\ \A i \in 1..(Len(u) + Len(z)) : w[i] = IF i <= Len(u) THEN u[i] ELSE z[i - Len(u)]
    <3> DEFINE S == Remote \X Sources
    <3>1. u \in Seq(S) /\ z \in Seq(S)
      BY <1>4, <2>1
    <3> HIDE DEF S
    <3>2. /\ w \in Seq(S) /\ Len(w) = Len(u) + Len(z)
          /\ \A i \in 1..(Len(u) + Len(z)) : w[i] = IF i <= Len(u) THEN u[i] ELSE z[i - Len(u)]
      BY <3>1, ConcatProperties
    <3> QED BY <3>2 DEF S
  <2> HIDE DEF w
  <2>3. Len(x) \in {0, 1} /\ Len(y) \in {0, 1} /\ Len(z) \in {0, 1}
    BY <1>4
  <2>4. \A i \in 1..Len(u) : /\ i <= Len(x) => u[i][1] = "llm" /\ i = 1
                             /\ i > Len(x) => u[i][1] = "privacy_filter" /\ i = Len(x) + 1
    <3> TAKE i \in 1..Len(u)
    <3>1. CASE i <= Len(x)
      BY <1>4, <2>1, <2>3, <3>1
    <3>2. CASE i > Len(x)
      <4>1. i = Len(x) + 1 /\ Len(y) = 1 /\ i - Len(x) = 1
        BY <2>1, <2>3, <3>2
      <4> QED BY <1>4, <2>1, <3>2, <4>1
    <3> QED BY <2>3, <3>1, <3>2
  <2>5. \A i \in 1..Len(w) : /\ i <= Len(u) => w[i] = u[i]
                             /\ i > Len(u) => w[i][1] = "gliner_pii" /\ i = Len(u) + 1
    <3> TAKE i \in 1..Len(w)
    <3>0. Len(u) \in Nat
      BY <2>1, LenProperties
    <3>1. CASE i <= Len(u)
      BY <2>2, <2>3, <3>0, <3>1
    <3>2. CASE i > Len(u)
      <4>1. i = Len(u) + 1 /\ Len(z) = 1 /\ i - Len(u) = 1
        BY <2>2, <2>3, <3>0, <3>2
      <4>2. z[1][1] = "gliner_pii"
        BY <1>4, <4>1
      <4>3. i \in 1..(Len(u) + Len(z)) /\ ~(i <= Len(u))
        BY <2>2, <3>2, <3>0, <4>1
      <4>4. w[i] = z[1]
        BY <2>2, <4>1, <4>3
      <4> QED BY <3>0, <4>1, <4>2, <4>4
    <3> QED BY <3>0, <3>1, <3>2
  <2>6. DOMAIN w = 1..Len(w) /\ Len(u) \in Nat /\ Len(w) \in Nat
    BY <2>1, <2>2, LenProperties
  <2>7. \A i, j \in DOMAIN w : w[i][1] = w[j][1] => i = j
    <3> TAKE i, j \in DOMAIN w
    <3>1. (i <= Len(u) => i \in 1..Len(u)) /\ (j <= Len(u) => j \in 1..Len(u))
      BY <2>6
    <3> QED BY <2>3, <2>4, <2>5, <2>6, <3>1
  <2> QED BY <2>2, <2>7 DEF BackendsOk, w, u
<1>6. BackendsOk(c.backends) /\ IsList(c.mode)
  BY <1>1, <1>5 DEF ConfigOk, x, y, z
<1> QED BY <1>1, <1>6 DEF ConfigOk, c

\* What the command line lets through is a configuration the launcher can act
\* on: every backend is of a detector that has one, and none is there twice.
LEMMA CommandLineOk ==
    ASSUME NEW f, FlagsSound(f), NEW environ, CommandLine(f, environ).ok
    PROVE  ConfigOk(CommandLine(f, environ).cfg)
<1> DEFINE file == OperatorPresetsFile(f.presetsFile, environ)
           presets == LoadPresets(file)
           preset == IF f.preset # Unset THEN presets[f.preset] ELSE Preset(<<>>, EmptyEnv)
           start == IF f.preset # Unset THEN ApplyPreset(DefaultConfig, preset) ELSE DefaultConfig
           cfg == WithBackends(WithFlags(start, f), f, preset)
<1>1. /\ CommandLine(f, environ).cfg = cfg
      /\ f.preset # Unset => PresetsReadable(file) /\ f.preset \in DOMAIN presets
  BY DEF CommandLine, UsageError
<1> HIDE DEF file
<1>2. f.preset # Unset => PresetOk(presets[f.preset])
  <2> SUFFICES ASSUME f.preset # Unset PROVE PresetOk(presets[f.preset])
    OBVIOUS
  <2>1. CASE file = Unset
    BY <1>1, <2>1, BundledOk DEF LoadPresets
  <2>2. CASE file # Unset
    <3> DEFINE own == PresetFiles[file].presets
    <3>1. file \in DOMAIN PresetFiles /\ PresetFiles[file].sound
      BY <1>1, <2>2 DEF PresetsReadable
    <3>2. \A p \in DOMAIN own : PresetSound(own[p])
      BY <3>1, PresetsReady
    <3>3. \A p \in DOMAIN own : PresetOk(own[p])
      BY <3>2, LenProperties DEF PresetSound, PresetOk, IsList
    <3>4. presets = own ++ BundledPresets
      BY <2>2 DEF LoadPresets
    <3> HIDE DEF own, presets
    <3>5. \/ f.preset \in DOMAIN own /\ presets[f.preset] = own[f.preset]
          \/ f.preset \in DOMAIN BundledPresets /\ presets[f.preset] = BundledPresets[f.preset]
      <4> DEFINE h == own ++ BundledPresets
      <4>1. /\ DOMAIN h = DOMAIN own \cup DOMAIN BundledPresets
            /\ \A v \in DOMAIN own : h[v] = own[v]
            /\ \A v \in DOMAIN BundledPresets : v \notin DOMAIN own => h[v] = BundledPresets[v]
        BY Over
      <4>2. presets = h /\ f.preset \in DOMAIN presets
        BY <1>1, <3>4
      <4> HIDE DEF h
      <4> QED BY <4>1, <4>2
    <3> QED BY <3>3, <3>5, BundledOk
  <2> QED BY <2>1, <2>2
<1> HIDE DEF presets
<1>3. PresetOk(preset)
  <2>1. PresetOk(Preset(<<>>, EmptyEnv))
    BY DEF Preset, PresetOk, IsList, BackendChoices
  <2> QED BY <1>2, <2>1
<1> HIDE DEF preset
<1>4. ConfigOk(start)
  BY <1>3, ApplyPresetOk, DefaultOk
<1> HIDE DEF start
<1>5. f.mode # <<>> => IsList(f.mode)
  BY LenProperties DEF FlagsSound, IsList
<1>6. ConfigOk(WithFlags(start, f))
  BY <1>4, <1>5, WithFlagsOk
<1>7. ConfigOk(cfg)
  BY <1>3, <1>6, WithBackendsOk DEF FlagsSound
<1> QED BY <1>1, <1>7
-----------------------------------------------------------------------------
(* The menu: what opening a row may do to a configuration.                   *)

AllRows ==
  {"flavour", "surrogate_salt", "vault", "detector_mode", "use_faker", "faker_locale",
   "vault_redis_backend", "vault_redis_url", "cache_redis_backend", "cache_redis_url",
   "regex_overlap_strategy", "regex_patterns", "denylist_path", "denylist_backend",
   "privacy_filter_backend", "privacy_filter_fail", "pf_cache", "privacy_filter_variant",
   "privacy_filter_url", "gliner_pii_backend", "gliner_pii_labels", "gliner_pii_threshold",
   "gliner_pii_fail", "gliner_pii_cache", "gliner_pii_url", "llm_backend", "llm_prompt",
   "forward_llm_key", "llm_fail", "llm_cache", "llm_api_base", "llm_model"}

LEMMA RowNames ==
    ASSUME NEW cfg
    PROVE  BuildOptions(cfg) \subseteq AllRows
<1>1. \A d \in Detectors : DetectorRows(cfg, d) \subseteq AllRows
  <2> TAKE d \in Detectors
  <2>1. CASE d = "regex"
    BY <2>1 DEF DetectorRows, RowsIf, AllRows
  <2>2. CASE d = "denylist"
    BY <2>2 DEF DetectorRows, RowsIf, AllRows
  <2>3. CASE d = "privacy_filter"
    BY <2>3 DEF DetectorRows, RowsIf, AllRows
  <2>4. CASE d = "gliner_pii"
    BY <2>4 DEF DetectorRows, RowsIf, AllRows
  <2>5. CASE d = "llm"
    BY <2>5 DEF DetectorRows, RowsIf, AllRows
  <2> QED BY <2>1, <2>2, <2>3, <2>4, <2>5, DetectorNames
<1>2. RedisRows(cfg) \subseteq AllRows
  BY DEF RedisRows, RowsIf, AllRows
<1>3. {"flavour", "surrogate_salt", "vault", "detector_mode", "use_faker"} \subseteq AllRows
      /\ RowsIf(cfg.faker, {"faker_locale"}) \subseteq AllRows
  BY DEF RowsIf, AllRows
<1> QED BY <1>1, <1>2, <1>3 DEF BuildOptions

\* Variables that an edit sets without looking at anything else.
Plain(v) == v \notin {"LLM_CACHE_BACKEND", "PRIVACY_FILTER_CACHE_BACKEND",
                      "GLINER_PII_CACHE_BACKEND", "VAULT_BACKEND"}

Edited(c, d) ==
  \/ \E v, x : d = SetEnv(c, v, x) /\ Made(v, x) /\ Plain(v)
  \/ \E row \in DOMAIN CacheVariable, x \in {"memory", "redis"} :
        d = SetCacheBackend(c, CacheVariable[row], x)
  \/ \E x \in {"memory", "redis"} : d = SetVaultBackend(c, x)
  \/ \E n \in Remote, x \in Sources : d = SetBackend(c, n, x)
  \/ \E q \in ScreenResults : d = SetDetectorOrder(c, q)
  \/ d = SetFlavour(c, "default")
  \/ \E x \in {"opf", "hf"} : d = SetVariant(c, x)
  \/ \E x : d = [c EXCEPT !.salt = x] \/ d = [c EXCEPT !.locale = x] \/ d = [c EXCEPT !.faker = x]
  \/ \E x \in Sources : d = [c EXCEPT !.vaultSource = x] \/ d = [c EXCEPT !.cacheSource = x]

LEMMA EditForms ==
    ASSUME NEW c, NEW key \in AllRows, NEW d \in EditSetting(c, key)
    PROVE  Edited(c, d)
<1>1. DOMAIN TextVariable =
         {"regex_patterns", "denylist_path", "privacy_filter_url", "gliner_pii_url",
          "gliner_pii_labels", "gliner_pii_threshold", "llm_api_base", "llm_model", "llm_prompt",
          "vault_redis_url", "cache_redis_url"}
      /\ DOMAIN PickVariable = {"regex_overlap_strategy", "denylist_backend"}
      /\ DOMAIN FailVariable = {"privacy_filter_fail", "gliner_pii_fail", "llm_fail"}
      /\ DOMAIN CacheVariable = {"llm_cache", "pf_cache", "gliner_pii_cache"}
      /\ DOMAIN BackendRow = {"privacy_filter_backend", "gliner_pii_backend", "llm_backend"}
  BY DEF TextVariable, PickVariable, FailVariable, CacheVariable, BackendRow
<1>2. CASE key \in DOMAIN TextVariable
  <2>1. PICK t \in Typed[key] : d = SetEnv(c, TextVariable[key], t)
    BY <1>1, <1>2 DEF EditSetting
  <2>2. Plain(TextVariable[key])
    BY <1>1, <1>2 DEF TextVariable, Plain
  <2> QED BY <1>2, <2>1, <2>2 DEF Edited, Made
<1>3. CASE key \in DOMAIN PickVariable
  <2>1. PICK x \in PickChoices[key] : d = SetEnv(c, PickVariable[key], x)
    BY <1>1, <1>3 DEF EditSetting
  <2>2. Plain(PickVariable[key])
    BY <1>1, <1>3 DEF PickVariable, Plain
  <2> QED BY <1>3, <2>1, <2>2 DEF Edited, Made
<1>4. CASE key \in DOMAIN FailVariable
  <2>1. PICK x \in {"true", "false"} : d = SetEnv(c, FailVariable[key], x)
    BY <1>1, <1>4 DEF EditSetting
  <2>2. Plain(FailVariable[key])
    BY <1>1, <1>4 DEF FailVariable, Plain
  <2> QED BY <1>4, <2>1, <2>2 DEF Edited, Made
<1>5. CASE key \in DOMAIN CacheVariable
  <2>1. PICK x \in {"memory", "redis"} : d = SetCacheBackend(c, CacheVariable[key], x)
    BY <1>1, <1>5 DEF EditSetting
  <2> QED BY <1>5, <2>1 DEF Edited
<1>6. CASE key \in DOMAIN BackendRow
  <2>1. PICK x \in Sources : d = SetBackend(c, BackendRow[key], x)
    BY <1>1, <1>6 DEF EditSetting
  <2>2. BackendRow[key] \in Remote
    BY <1>1, <1>6 DEF BackendRow, Remote
  <2> QED BY <2>1, <2>2 DEF Edited
<1>7. CASE key = "forward_llm_key"
  <2>1. PICK x \in {"true", "false"} : d = SetEnv(c, "LLM_USE_FORWARDED_KEY", x)
    BY <1>1, <1>7 DEF EditSetting
  <2>2. Plain("LLM_USE_FORWARDED_KEY")
    BY DEF Plain
  <2> QED BY <2>1, <2>2 DEF Edited, Made
<1>8. CASE key = "detector_mode"
  BY <1>1, <1>8 DEF EditSetting, Edited
<1>9. CASE key = "flavour"
  BY <1>1, <1>9 DEF EditSetting, Edited
<1>10. CASE key = "surrogate_salt"
  BY <1>1, <1>10 DEF EditSetting, Edited
<1>11. CASE key = "faker_locale"
  BY <1>1, <1>11 DEF EditSetting, Edited
<1>12. CASE key = "use_faker"
  BY <1>1, <1>12 DEF EditSetting, Edited
<1>13. CASE key = "privacy_filter_variant"
  BY <1>1, <1>13 DEF EditSetting, Edited
<1>14. CASE key = "vault"
  BY <1>1, <1>14 DEF EditSetting, Edited
<1>15. CASE key = "vault_redis_backend"
  BY <1>1, <1>15 DEF EditSetting, Edited
<1>16. CASE key = "cache_redis_backend"
  BY <1>1, <1>16 DEF EditSetting, Edited
<1> QED
  BY <1>1, <1>2, <1>3, <1>4, <1>5, <1>6, <1>7, <1>8, <1>9, <1>10, <1>11, <1>12, <1>13, <1>14,
     <1>15, <1>16 DEF AllRows
LEMMA SetEnvGet ==
    ASSUME NEW c, IsConfig(c), NEW v, NEW x
    PROVE  LET d == SetEnv(c, v, x)
           IN /\ d = [c EXCEPT !.env = d.env] /\ IsConfig(d)
              /\ \A w : EnvGet(d.env, w) = IF w = v THEN x ELSE EnvGet(c.env, w)
              /\ \A w \in DOMAIN d.env :
                   \/ w = v /\ d.env[w] = x /\ x # Unset
                   \/ w \in DOMAIN c.env /\ d.env[w] = c.env[w]
<1> DEFINE d == SetEnv(c, v, x)
           b == Bound(v, x)
           new == IF x # Unset THEN b ++ c.env ELSE [w \in DOMAIN c.env \ {v} |-> c.env[w]]
<1>1. d = [c EXCEPT !.env = new]
  BY DEF SetEnv
<1>2. DOMAIN b = {v} /\ b[v] = x
  BY BoundGet
<1> DEFINE h == b ++ c.env
<1>3. /\ DOMAIN h = DOMAIN b \cup DOMAIN c.env
      /\ \A w \in DOMAIN b : h[w] = b[w]
      /\ \A w \in DOMAIN c.env : w \notin DOMAIN b => h[w] = c.env[w]
  BY Over
<1> HIDE DEF b
<1>4. \A w \in DOMAIN new : \/ w = v /\ new[w] = x /\ x # Unset
                            \/ w \in DOMAIN c.env /\ new[w] = c.env[w]
  <2>1. CASE x # Unset
    <3> HIDE DEF h
    <3>1. new = h
      BY <2>1 DEF h
    <3> HIDE DEF new
    <3> QED BY <1>2, <1>3, <2>1, <3>1
  <2>2. CASE x = Unset
    BY <2>2
  <2> QED BY <2>1, <2>2
<1>5. \A w : EnvGet(new, w) = IF w = v THEN x ELSE EnvGet(c.env, w)
  <2> TAKE w
  <2>1. CASE x # Unset
    <3> HIDE DEF h
    <3>1. new = h
      BY <2>1 DEF h
    <3> HIDE DEF new
    <3> QED BY <1>2, <1>3, <2>1, <3>1 DEF EnvGet
  <2>2. CASE x = Unset
    BY <2>2 DEF EnvGet
  <2> QED BY <2>1, <2>2
<1> HIDE DEF d, new
<1>6. d.env = new /\ IsConfig(d) /\ d = [c EXCEPT !.env = d.env]
  BY <1>1 DEF IsConfig
<1> QED BY <1>4, <1>5, <1>6 DEF d

\* What an edit leaves as it was.
Keeps(c, d) ==
  IsConfig(d) /\ d.mode = c.mode /\ d.backends = c.backends /\ d.flavour = c.flavour
  /\ d.extra = c.extra

LEMMA SetEnvKeeps ==
    ASSUME NEW c, IsConfig(c), NEW v, NEW x
    PROVE  LET d == SetEnv(c, v, x)
           IN Keeps(c, d) /\ d.vaultSource = c.vaultSource /\ d.cacheSource = c.cacheSource
<1> DEFINE d == SetEnv(c, v, x)
           e == d.env
<1>1. d = [c EXCEPT !.env = e] /\ IsConfig(d)
  BY SetEnvGet
<1> HIDE DEF d, e
<1> QED BY <1>1 DEF IsConfig, Keeps, d

LEMMA KeepsOk ==
    ASSUME NEW c, ConfigOk(c), NEW d, Keeps(c, d)
    PROVE  ConfigOk(d)
BY DEF ConfigOk, Keeps

LEMMA OrderBackends ==
    ASSUME NEW b, BackendsOk(b), NEW q
    PROVE  LET Adjust(backends, d) ==
                 IF d \notin ToSet(q) THEN DropBackend(backends, d)
                 ELSE IF BackendOf(backends, d) # Unset THEN backends
                 ELSE PutBackend(backends, d, "service")
           IN BackendsOk(Adjust(Adjust(Adjust(b, "privacy_filter"), "gliner_pii"), "llm"))
<1> DEFINE Adjust(backends, d) ==
                 IF d \notin ToSet(q) THEN DropBackend(backends, d)
                 ELSE IF BackendOf(backends, d) # Unset THEN backends
                 ELSE PutBackend(backends, d, "service")
<1>1. ASSUME NEW x, BackendsOk(x), NEW d \in Remote PROVE BackendsOk(Adjust(x, d))
  <2>1. BackendsOk(DropBackend(x, d))
    BY <1>1, DropBackendOk
  <2>2. BackendsOk(PutBackend(x, d, "service"))
    BY <1>1, PutBackendOk DEF Sources
  <2> QED BY <1>1, <2>1, <2>2
<1>2. "privacy_filter" \in Remote /\ "gliner_pii" \in Remote /\ "llm" \in Remote
  BY DEF Remote
<1> HIDE DEF Adjust
<1>3. BackendsOk(Adjust(b, "privacy_filter"))
  BY <1>1, <1>2
<1>4. BackendsOk(Adjust(Adjust(b, "privacy_filter"), "gliner_pii"))
  BY <1>1, <1>2, <1>3
<1>5. BackendsOk(Adjust(Adjust(Adjust(b, "privacy_filter"), "gliner_pii"), "llm"))
  BY <1>1, <1>2, <1>4
<1> QED BY <1>5 DEF Adjust

\* The edits that touch neither the environment nor the source of a Redis.
LEMMA BackendEdits ==
    ASSUME NEW c, ConfigOk(c), NEW d,
           \/ \E n \in Remote, x \in Sources : d = SetBackend(c, n, x)
           \/ \E q \in ScreenResults : d = SetDetectorOrder(c, q)
           \/ d = SetFlavour(c, "default")
    PROVE  /\ ConfigOk(d) /\ d.env = c.env /\ d.extra = c.extra
           /\ d.vaultSource = c.vaultSource /\ d.cacheSource = c.cacheSource
           /\ d.flavour \in {c.flavour, "default"}
<1>0. IsConfig(c) /\ IsList(c.mode) /\ BackendsOk(c.backends)
  BY DEF ConfigOk
<1>1. ASSUME NEW e, ConfigOk(e), NEW n \in Remote, NEW x \in Sources
      PROVE  /\ ConfigOk(SetBackend(e, n, x)) /\ SetBackend(e, n, x).env = e.env
             /\ SetBackend(e, n, x).extra = e.extra
             /\ SetBackend(e, n, x).vaultSource = e.vaultSource
             /\ SetBackend(e, n, x).cacheSource = e.cacheSource
             /\ SetBackend(e, n, x).flavour = e.flavour
  <2> DEFINE b == PutBackend(e.backends, n, x)
             f == [e EXCEPT !.backends = b]
  <2>1. SetBackend(e, n, x) = f
    BY DEF SetBackend
  <2>2. BackendsOk(b)
    BY <1>1, PutBackendOk DEF ConfigOk
  <2> HIDE DEF b
  <2>3. IsConfig(f) /\ f.mode = e.mode /\ f.backends = b /\ f.env = e.env /\ f.extra = e.extra
        /\ f.vaultSource = e.vaultSource /\ f.cacheSource = e.cacheSource /\ f.flavour = e.flavour
    BY <1>1 DEF ConfigOk, IsConfig
  <2> QED BY <1>1, <2>1, <2>2, <2>3 DEF ConfigOk
<1>2. CASE \E n \in Remote, x \in Sources : d = SetBackend(c, n, x)
  BY <1>1, <1>2
<1>3. CASE \E q \in ScreenResults : d = SetDetectorOrder(c, q)
  <2>1. PICK q \in ScreenResults : d = SetDetectorOrder(c, q)
    BY <1>3
  <2>2. IsList(q) /\ q # <<>>
    BY OrdersReady, LenProperties DEF ScreenResults, IsList
  <2> DEFINE Adjust(backends, n) ==
                 IF n \notin ToSet(q) THEN DropBackend(backends, n)
                 ELSE IF BackendOf(backends, n) # Unset THEN backends
                 ELSE PutBackend(backends, n, "service")
             b == Adjust(Adjust(Adjust(c.backends, "privacy_filter"), "gliner_pii"), "llm")
  <2>3. BackendsOk(b)
    BY <1>0, OrderBackends
  <2>4. d = [c EXCEPT !.mode = q, !.backends = b]
    BY <2>1, <2>2 DEF SetDetectorOrder
  <2> HIDE DEF b
  <2>5. IsConfig(d) /\ d.mode = q /\ d.backends = b /\ d.env = c.env /\ d.extra = c.extra
        /\ d.vaultSource = c.vaultSource /\ d.cacheSource = c.cacheSource /\ d.flavour = c.flavour
    BY <1>0, <2>4 DEF IsConfig
  <2> QED BY <2>2, <2>3, <2>5 DEF ConfigOk
<1>4. CASE d = SetFlavour(c, "default")
  <2> DEFINE f == [c EXCEPT !.flavour = "default"]
  <2>1. IsConfig(f) /\ f.mode = c.mode /\ f.backends = c.backends /\ f.env = c.env
        /\ f.extra = c.extra /\ f.vaultSource = c.vaultSource /\ f.cacheSource = c.cacheSource
        /\ f.flavour = "default"
    BY <1>0 DEF IsConfig
  <2>2. d = f \/ d = SetBackend(f, "privacy_filter", "service")
    BY <1>4 DEF SetFlavour
  <2> HIDE DEF f
  <2>3. ConfigOk(f)
    BY <1>0, <2>1 DEF ConfigOk
  <2>4. "privacy_filter" \in Remote /\ "service" \in Sources
    BY DEF Remote, Sources
  <2> QED BY <1>1, <2>1, <2>2, <2>3, <2>4
<1> QED BY <1>2, <1>3, <1>4
\* The edits that touch one field, of which nothing else here depends.
LEMMA FieldEdits ==
    ASSUME NEW c, ConfigOk(c), NEW d,
           \/ \E x \in {"opf", "hf"} : d = SetVariant(c, x)
           \/ \E x : d = [c EXCEPT !.salt = x] \/ d = [c EXCEPT !.locale = x] \/ d = [c EXCEPT !.faker = x]
    PROVE  /\ ConfigOk(d) /\ d.env = c.env /\ d.extra = c.extra /\ d.flavour = c.flavour
           /\ d.vaultSource = c.vaultSource /\ d.cacheSource = c.cacheSource
<1>1. IsConfig(c)
  BY DEF ConfigOk
<1>2. CASE \E x : d = [c EXCEPT !.salt = x]
  BY <1>1, <1>2 DEF ConfigOk, IsConfig
<1>3. CASE \E x : d = [c EXCEPT !.locale = x]
  BY <1>1, <1>3 DEF ConfigOk, IsConfig
<1>4. CASE \E x : d = [c EXCEPT !.faker = x]
  BY <1>1, <1>4 DEF ConfigOk, IsConfig
<1>5. CASE \E x \in {"opf", "hf"} : d = SetVariant(c, x)
  <2>1. \E y : d = [c EXCEPT !.variants = y]
    BY <1>5 DEF SetVariant
  <2> QED BY <1>1, <2>1 DEF ConfigOk, IsConfig
<1> QED BY <1>2, <1>3, <1>4, <1>5

\* The edits of a source.
LEMMA SourceEdits ==
    ASSUME NEW c, ConfigOk(c), NEW d, NEW x,
           d = [c EXCEPT !.vaultSource = x] \/ d = [c EXCEPT !.cacheSource = x]
    PROVE  /\ ConfigOk(d) /\ d.env = c.env /\ d.extra = c.extra /\ d.flavour = c.flavour
           /\ \/ d.vaultSource = x /\ d.cacheSource = c.cacheSource
              \/ d.vaultSource = c.vaultSource /\ d.cacheSource = x
<1>1. IsConfig(c)
  BY DEF ConfigOk
<1> QED BY <1>1 DEF ConfigOk, IsConfig

\* The edits of one of the Redis switches: the environment, and the source.
LEMMA VaultEdit ==
    ASSUME NEW c, ConfigOk(c), NEW x
    PROVE  LET d == SetVaultBackend(c, x)
               e == SetEnv(c, "VAULT_BACKEND", x)
           IN /\ ConfigOk(d) /\ d.env = e.env /\ d.extra = c.extra /\ d.flavour = c.flavour
              /\ d.vaultSource = (IF x = "redis" THEN Given(c.vaultSource, "service") ELSE c.vaultSource)
              /\ d.cacheSource = c.cacheSource
<1> DEFINE d == SetVaultBackend(c, x)
           e == SetEnv(c, "VAULT_BACKEND", x)
<1>1. Keeps(c, e) /\ e.vaultSource = c.vaultSource /\ e.cacheSource = c.cacheSource
  BY SetEnvKeeps DEF ConfigOk
<1>2. d = [e EXCEPT !.vaultSource = IF x = "redis" THEN Given(@, "service") ELSE @]
  BY DEF SetVaultBackend
<1> HIDE DEF d, e
<1>3. Keeps(c, d) /\ d.env = e.env /\ d.cacheSource = c.cacheSource
      /\ d.vaultSource = (IF x = "redis" THEN Given(c.vaultSource, "service") ELSE c.vaultSource)
  BY <1>1, <1>2 DEF Keeps, IsConfig
<1>4. ConfigOk(d)
  BY <1>3, KeepsOk
<1> QED BY <1>3, <1>4 DEF Keeps, d, e

LEMMA CacheEdit ==
    ASSUME NEW c, ConfigOk(c), NEW v, NEW x
    PROVE  LET d == SetCacheBackend(c, v, x)
               e == SetEnv(c, v, x)
           IN /\ ConfigOk(d) /\ d.env = e.env /\ d.extra = c.extra /\ d.flavour = c.flavour
              /\ d.cacheSource = (IF x = "redis" THEN Given(c.cacheSource, "service") ELSE c.cacheSource)
              /\ d.vaultSource = c.vaultSource
<1> DEFINE d == SetCacheBackend(c, v, x)
           e == SetEnv(c, v, x)
<1>1. Keeps(c, e) /\ e.vaultSource = c.vaultSource /\ e.cacheSource = c.cacheSource
  BY SetEnvKeeps DEF ConfigOk
<1>2. d = [e EXCEPT !.cacheSource = IF x = "redis" THEN Given(@, "service") ELSE @]
  BY DEF SetCacheBackend
<1> HIDE DEF d, e
<1>3. Keeps(c, d) /\ d.env = e.env /\ d.vaultSource = c.vaultSource
      /\ d.cacheSource = (IF x = "redis" THEN Given(c.cacheSource, "service") ELSE c.cacheSource)
  BY <1>1, <1>2 DEF Keeps, IsConfig
<1>4. ConfigOk(d)
  BY <1>3, KeepsOk
<1> QED BY <1>3, <1>4 DEF Keeps, d, e

LEMMA EditConfigOk ==
    ASSUME NEW c, ConfigOk(c), NEW d, Edited(c, d)
    PROVE  ConfigOk(d)
<1>1. CASE \E v, x : d = SetEnv(c, v, x) /\ Made(v, x) /\ Plain(v)
  BY <1>1, SetEnvKeeps, KeepsOk DEF ConfigOk
<1>2. CASE \E row \in DOMAIN CacheVariable, x \in {"memory", "redis"} :
             d = SetCacheBackend(c, CacheVariable[row], x)
  BY <1>2, CacheEdit
<1>3. CASE \E x \in {"memory", "redis"} : d = SetVaultBackend(c, x)
  BY <1>3, VaultEdit
<1>4. CASE \/ \E n \in Remote, x \in Sources : d = SetBackend(c, n, x)
           \/ \E q \in ScreenResults : d = SetDetectorOrder(c, q)
           \/ d = SetFlavour(c, "default")
  BY <1>4, BackendEdits
<1>5. CASE \/ \E x \in {"opf", "hf"} : d = SetVariant(c, x)
           \/ \E x : d = [c EXCEPT !.salt = x] \/ d = [c EXCEPT !.locale = x] \/ d = [c EXCEPT !.faker = x]
  BY <1>5, FieldEdits
<1>6. CASE \E x \in Sources : d = [c EXCEPT !.vaultSource = x] \/ d = [c EXCEPT !.cacheSource = x]
  BY <1>6, SourceEdits
<1> QED BY <1>1, <1>2, <1>3, <1>4, <1>5, <1>6 DEF Edited

\* Redis for a cache, by any of its variables.
LEMMA CacheRedis ==
    ASSUME NEW c
    PROVE  CacheIsRedis(c) <=> \E v \in {"LLM_CACHE_BACKEND", "PRIVACY_FILTER_CACHE_BACKEND",
                                         "GLINER_PII_CACHE_BACKEND"} : EnvGet(c.env, v) = "redis"
<1>1. /\ DOMAIN CacheVariable = {"llm_cache", "pf_cache", "gliner_pii_cache"}
      /\ CacheVariable["llm_cache"] = "LLM_CACHE_BACKEND"
      /\ CacheVariable["pf_cache"] = "PRIVACY_FILTER_CACHE_BACKEND"
      /\ CacheVariable["gliner_pii_cache"] = "GLINER_PII_CACHE_BACKEND"
  BY DEF CacheVariable
<1> QED BY <1>1 DEF CacheIsRedis

\* An edit of the menu keeps it so: whoever switches to Redis gets a source.
LEMMA EditMenuOk ==
    ASSUME NEW c, ConfigOk(c), MenuConfig(c), NEW d, Edited(c, d)
    PROVE  MenuConfig(d)
<1> USE DEF Redis
<1>0. IsConfig(c)
  BY DEF ConfigOk
<1>a. ASSUME NEW e, e.env = c.env PROVE CacheIsRedis(e) <=> CacheIsRedis(c)
  BY <1>a DEF CacheIsRedis
<1>1. CASE \E v, x : d = SetEnv(c, v, x) /\ Made(v, x) /\ Plain(v)
  <2>1. PICK v, x : d = SetEnv(c, v, x) /\ Made(v, x) /\ Plain(v)
    BY <1>1
  <2>2. d.flavour = c.flavour /\ d.extra = c.extra /\ d.vaultSource = c.vaultSource
        /\ d.cacheSource = c.cacheSource
    BY <1>0, <2>1, SetEnvKeeps DEF Keeps
  <2>3. /\ \A w : EnvGet(d.env, w) = IF w = v THEN x ELSE EnvGet(c.env, w)
        /\ \A w \in DOMAIN d.env :
             \/ w = v /\ d.env[w] = x /\ x # Unset
             \/ w \in DOMAIN c.env /\ d.env[w] = c.env[w]
    BY <1>0, <2>1, SetEnvGet
  <2>4. \A w \in DOMAIN d.env : d.env[w] # Unset /\ Made(w, d.env[w])
    BY <2>1, <2>3 DEF MenuConfig
  <2>5. EnvGet(d.env, "VAULT_BACKEND") = EnvGet(c.env, "VAULT_BACKEND")
    BY <2>1, <2>3 DEF Plain
  <2>6. CacheIsRedis(d) <=> CacheIsRedis(c)
    BY <2>1, <2>3, CacheRedis DEF Plain
  <2> QED BY <2>2, <2>4, <2>5, <2>6 DEF MenuConfig
<1>2. CASE \E row \in DOMAIN CacheVariable, x \in {"memory", "redis"} :
             d = SetCacheBackend(c, CacheVariable[row], x)
  <2>1. PICK row \in DOMAIN CacheVariable, x \in {"memory", "redis"} :
               d = SetCacheBackend(c, CacheVariable[row], x)
    BY <1>2
  <2> DEFINE v == CacheVariable[row]
             e == SetEnv(c, v, x)
  <2>2. /\ d.env = e.env /\ d.flavour = c.flavour /\ d.extra = c.extra
        /\ d.vaultSource = c.vaultSource
        /\ d.cacheSource = (IF x = "redis" THEN Given(c.cacheSource, "service") ELSE c.cacheSource)
    BY <2>1, CacheEdit
  <2>3. /\ \A w : EnvGet(e.env, w) = IF w = v THEN x ELSE EnvGet(c.env, w)
        /\ \A w \in DOMAIN e.env :
             \/ w = v /\ e.env[w] = x /\ x # Unset
             \/ w \in DOMAIN c.env /\ e.env[w] = c.env[w]
    <3> HIDE DEF v
    <3> QED BY <1>0, SetEnvGet
  <2>4. Made(v, x) /\ x # Unset
    BY <2>1 DEF Made, Unset
  <2>5. v # "VAULT_BACKEND"
    BY <2>1 DEF CacheVariable
  <2> HIDE DEF e, v
  <2>6. \A w \in DOMAIN d.env : d.env[w] # Unset /\ Made(w, d.env[w])
    BY <2>2, <2>3, <2>4 DEF MenuConfig
  <2>7. EnvGet(d.env, "VAULT_BACKEND") = EnvGet(c.env, "VAULT_BACKEND")
    BY <2>2, <2>3, <2>5
  <2>8. CacheIsRedis(d) => CacheIsRedis(c) \/ x = "redis"
    BY <2>2, <2>3, CacheRedis
  <2>9. d.cacheSource \in BackendChoices /\ (CacheIsRedis(d) => d.cacheSource # Unset)
    BY <2>2, <2>8 DEF MenuConfig, Given, BackendChoices, Sources, Unset
  <2> QED BY <2>2, <2>6, <2>7, <2>9 DEF MenuConfig
<1>3. CASE \E x \in {"memory", "redis"} : d = SetVaultBackend(c, x)
  <2>1. PICK x \in {"memory", "redis"} : d = SetVaultBackend(c, x)
    BY <1>3
  <2> DEFINE e == SetEnv(c, "VAULT_BACKEND", x)
  <2>2. /\ d.env = e.env /\ d.flavour = c.flavour /\ d.extra = c.extra
        /\ d.cacheSource = c.cacheSource
        /\ d.vaultSource = (IF x = "redis" THEN Given(c.vaultSource, "service") ELSE c.vaultSource)
    BY <2>1, VaultEdit
  <2>3. /\ \A w : EnvGet(e.env, w) = IF w = "VAULT_BACKEND" THEN x ELSE EnvGet(c.env, w)
        /\ \A w \in DOMAIN e.env :
             \/ w = "VAULT_BACKEND" /\ e.env[w] = x /\ x # Unset
             \/ w \in DOMAIN c.env /\ e.env[w] = c.env[w]
    BY <1>0, SetEnvGet
  <2>4. Made("VAULT_BACKEND", x)
    BY <2>1 DEF Made
  <2> HIDE DEF e
  <2>6. \A w \in DOMAIN d.env : d.env[w] # Unset /\ Made(w, d.env[w])
    BY <2>2, <2>3, <2>4 DEF MenuConfig
  <2>7. EnvGet(d.env, "VAULT_BACKEND") = x
    BY <2>2, <2>3
  <2>8. CacheIsRedis(d) <=> CacheIsRedis(c)
    BY <2>2, <2>3, CacheRedis
  <2>9. d.vaultSource \in BackendChoices /\ (x = "redis" => d.vaultSource # Unset)
    BY <2>2 DEF MenuConfig, Given, BackendChoices, Sources, Unset
  <2> QED BY <2>2, <2>6, <2>7, <2>8, <2>9 DEF MenuConfig
<1>4. CASE \/ \E n \in Remote, x \in Sources : d = SetBackend(c, n, x)
           \/ \E q \in ScreenResults : d = SetDetectorOrder(c, q)
           \/ d = SetFlavour(c, "default")
  BY <1>a, <1>4, BackendEdits DEF MenuConfig
<1>5. CASE \/ \E x \in {"opf", "hf"} : d = SetVariant(c, x)
           \/ \E x : d = [c EXCEPT !.salt = x] \/ d = [c EXCEPT !.locale = x] \/ d = [c EXCEPT !.faker = x]
  BY <1>a, <1>5, FieldEdits DEF MenuConfig
<1>6. CASE \E x \in Sources : d = [c EXCEPT !.vaultSource = x] \/ d = [c EXCEPT !.cacheSource = x]
  <2>1. PICK x \in Sources : d = [c EXCEPT !.vaultSource = x] \/ d = [c EXCEPT !.cacheSource = x]
    BY <1>6
  <2>2. x # Unset /\ x \in BackendChoices
    BY DEF Sources, BackendChoices, Unset
  <2> QED BY <1>a, <2>1, <2>2, SourceEdits DEF MenuConfig
<1> QED BY <1>1, <1>2, <1>3, <1>4, <1>5, <1>6 DEF Edited
-----------------------------------------------------------------------------
(* The steps.                                                                *)

\* A container is put into a state, and what runs by no operator stays so.
BoxMove(name, b) ==
  /\ b \in BoxRecords /\ box' = [box EXCEPT ![name] = b]
  /\ name \in Containers /\ b.state \in Running =>
       b.by \in Launches \/ (box[name].state \in Running /\ b.by = box[name].by)

BoxKept == BoxOk' /\ \A c \in Containers : Ours(c) => Ours(c)'

LEMMA UnchangedBox == ASSUME BoxOk, UNCHANGED box PROVE BoxKept
BY DEF BoxKept, BoxOk, Ours

LEMMA MovedBox ==
    ASSUME BoxOk, NEW name, NEW b, BoxMove(name, b)
    PROVE  /\ BoxKept
           /\ \A c \in Containers : box'[c] = IF c = name THEN b ELSE box[c]
<1>1. \A c \in DOMAIN box : box'[c] = IF c = name THEN b ELSE box[c]
  BY DEF BoxMove
<1>2. DOMAIN box' = DOMAIN box
  BY DEF BoxMove
<1>3. box' \in [DOMAIN box' -> BoxRecords]
  BY <1>1, <1>2 DEF BoxMove, BoxOk
<1>4. BoxOk'
  BY <1>2, <1>3 DEF BoxOk
<1>5. \A c \in Containers : box'[c] = IF c = name THEN b ELSE box[c]
  BY <1>1 DEF BoxOk
<1>6. ASSUME NEW c \in Containers, Ours(c) PROVE Ours(c)'
  BY <1>5, <1>6 DEF BoxMove, Ours
<1> QED BY <1>4, <1>5, <1>6 DEF BoxKept

LEMMA MadeContainer ==
    ASSUME NEW r, RunOk(r), NEW n \in r.started
    PROVE  r.made[n] \in Containers \ {Guardrail}
<1>1. n \in ServiceNames /\ r.made[n] = StartedAs(n, VariantOf(r.cfg, n)).container
  BY DEF RunOk, IsRun, MadeFor
<1> QED BY <1>1, StartedContainer

LEMMA CurrentContainer ==
    ASSUME NEW r, RunOk(r), r.todo # <<>>
    PROVE  /\ Head(r.todo) \in ServiceNames
           /\ Current(r).container \in Containers \ {Guardrail}
           /\ Tail(r.todo) \in Seq(ServiceNames)
<1>1. Head(r.todo) \in ServiceNames /\ Tail(r.todo) \in Seq(ServiceNames)
  BY HeadTailProperties DEF RunOk, IsRun
<1> QED BY <1>1, StartedContainer DEF Current

LEMMA OwnedKept ==
    ASSUME NEW r, RunOk(r), Owned(r), BoxKept
    PROVE  Owned(r)'
<1>1. \A n \in r.started : Ours(r.made[n])'
  BY MadeContainer DEF Owned, BoxKept
<1>2. r.phase = "reap" => Ours(Current(r).container)'
  <2> HAVE r.phase = "reap"
  <2>1. r.todo # <<>>
    BY DEF RunOk
  <2> QED BY <2>1, CurrentContainer DEF Owned, BoxKept
<1> QED BY <1>1, <1>2 DEF Owned

LEMMA Lift ==
    ASSUME LaunchInv, NEW l \in Launches, NEW r, RunOk(r), Owned(r)', Set(l, r), BoxKept
    PROVE  LaunchInv'
<1>1. host' = host /\ DOMAIN run' = Launches /\ run'[l] = r
      /\ \A m \in Launches : m # l => run'[m] = run[m]
  BY DEF Set, LaunchInv
<1>2. ASSUME NEW m \in Launches PROVE RunOk(run[m])' /\ Owned(run[m])'
  <2>1. CASE m = l
    BY <1>1, <2>1 DEF RunOk, MadeFor, Owned
  <2>2. CASE m # l
    <3> DEFINE s == run[m]
    <3>1. RunOk(s) /\ Owned(s) /\ run'[m] = s
      BY <1>1, <2>2 DEF LaunchInv
    <3>2. ASSUME NEW x, RunOk(x), Owned(x), run'[m] = x PROVE RunOk(run[m])' /\ Owned(run[m])'
      <4>1. Owned(x)'
        BY <3>2, OwnedKept
      <4> QED BY <1>1, <3>2, <4>1 DEF RunOk, MadeFor, Owned
    <3> QED BY <3>1, <3>2
  <2> QED BY <2>1, <2>2
<1>3. host' \in Scenes /\ BoxOk'
  BY <1>1 DEF LaunchInv, BoxKept
<1> QED BY <1>1, <1>2, <1>3 DEF LaunchInv

\* The launch goes on with the same configuration and the same services.
Moved(r, s, p, t) ==
  /\ IsRun(s) /\ s.phase = p /\ s.todo = t
  /\ s.cfg = r.cfg /\ s.started = r.started /\ s.made = r.made

LEMMA MovedOk ==
    ASSUME NEW r, RunOk(r), NEW s, NEW p, NEW t, Moved(r, s, p, t),
           p \notin {"idle", "menu"},
           p \in {"reap", "create", "wait", "remove"} => t # <<>>,
           p = "remove" => Head(t) \in r.started,
           p = "serving" => s.env = GuardrailEnv(s.cfg, host.environ, s.started)
    PROVE  RunOk(s)
BY DEF RunOk, Moved, MadeFor

LEMMA MovedOwned ==
    ASSUME NEW r, RunOk(r), Owned(r), NEW s, NEW p, NEW t, Moved(r, s, p, t), p # "reap", BoxKept
    PROVE  Owned(s)'
<1>1. \A n \in r.started : Ours(r.made[n])'
  BY MadeContainer DEF Owned, BoxKept
<1> QED BY <1>1 DEF Owned, Moved

\* Both at once, for the phases without more to show.
LEMMA Move ==
    ASSUME LaunchInv, NEW l \in Launches, NEW s, NEW p, NEW t, Moved(run[l], s, p, t),
           p \notin {"idle", "menu", "reap"},
           p \in {"create", "wait", "remove"} => t # <<>>,
           p = "remove" => Head(t) \in run[l].started,
           p = "serving" => s.env = GuardrailEnv(s.cfg, host.environ, s.started),
           Set(l, s), BoxKept
    PROVE  LaunchInv'
<1>1. RunOk(run[l]) /\ Owned(run[l])
  BY DEF LaunchInv
<1>2. RunOk(s)
  BY <1>1, MovedOk
<1>3. Owned(s)'
  <2> DEFINE x == run[l]
  <2>1. RunOk(x) /\ Owned(x) /\ Moved(x, s, p, t)
    BY <1>1
  <2> HIDE DEF x
  <2> QED BY <2>1, MovedOwned
<1> QED BY <1>2, <1>3, Lift

LEMMA PlainMove ==
    ASSUME LaunchInv, NEW l \in Launches, NEW r, r = run[l], NEW s, NEW p, NEW t, Moved(r, s, p, t),
           \/ p \in {"look", "guardrail", "stop", "ended"}
           \/ p \in {"create", "wait"} /\ t # <<>>,
           Set(l, s), BoxKept
    PROVE  LaunchInv'
<1>1. /\ p \notin {"idle", "menu", "reap"}
      /\ p \in {"create", "wait", "remove"} => t # <<>>
      /\ p # "remove" /\ p # "serving"
  OBVIOUS
<1>2. Moved(run[l], s, p, t)
  OBVIOUS
<1> QED BY <1>1, <1>2, Move

LEMMA PreparedOk ==
    ASSUME NEW cfg, ConfigOk(cfg)
    PROVE  RunOk(Prepared(Idle, cfg)) /\ Prepared(Idle, cfg).started = {}
           /\ Prepared(Idle, cfg).phase = "look" /\ Prepared(Idle, cfg).cfg = cfg
<1> DEFINE r == Prepared(Idle, cfg)
           t == ToStart(cfg)
<1>1. t \in Seq(ServiceNames)
  BY ToStartType
<1> HIDE DEF t
<1>2. IsRun(r) /\ r.phase = "look" /\ r.cfg = cfg /\ r.started = {}
  BY <1>1 DEF Prepared, Idle, IsRun, t
<1> HIDE DEF r
<1> QED BY <1>2 DEF RunOk, r
LEMMA GotoMove ==
    ASSUME LaunchInv, NEW l \in Launches, NEW p
    PROVE  LET s == [run[l] EXCEPT !.phase = p] IN Moved(run[l], s, p, run[l].todo)
<1> DEFINE r == run[l]
<1>1. IsRun(r)
  BY DEF LaunchInv, RunOk
<1> HIDE DEF r
<1> DEFINE s == [r EXCEPT !.phase = p]
<1>2. Moved(r, s, p, r.todo)
  BY <1>1 DEF Moved, IsRun
<1> QED BY <1>2 DEF r

LEMMA GotoInv ==
    ASSUME LaunchInv, NEW l \in Launches, NEW p, Goto(l, p), p \in {"ended", "create"},
           p = "create" => run[l].todo # <<>>
    PROVE  LaunchInv'
<1>1. PICK s : s = [run[l] EXCEPT !.phase = p]
  OBVIOUS
<1>2. Set(l, s) /\ UNCHANGED box
  BY <1>1 DEF Goto, Step
<1>3. BoxKept
  BY <1>2, UnchangedBox DEF LaunchInv
<1>4. Moved(run[l], s, p, run[l].todo)
  BY <1>1, GotoMove
<1> QED BY <1>2, <1>3, <1>4, Move

\* A launch starts anew, without services.
LEMMA FreshInv ==
    ASSUME LaunchInv, NEW l \in Launches, NEW s, RunOk(s), s.started = {}, s.phase # "reap",
           Step(l, s)
    PROVE  LaunchInv'
<1>1. Owned(s)'
  BY DEF Owned
<1>2. Set(l, s) /\ BoxKept
  BY UnchangedBox DEF Step, LaunchInv
<1> QED BY <1>1, <1>2, Lift

LEMMA BeginInv ==
    ASSUME LaunchInv, NEW l \in Launches, Begin(l)
    PROVE  LaunchInv'
<1> DEFINE f == host.flags[l]
           parsed == CommandLine(f, host.environ)
<1>1. l \in DOMAIN host.flags /\ FlagsSound(f)
  BY ScenesReady DEF Begin, LaunchInv
<1>2. CASE Step(l, [Idle EXCEPT !.phase = "menu"])
  <2>1. PICK s : s = [Idle EXCEPT !.phase = "menu"]
    OBVIOUS
  <2>2. IsRun(Idle) /\ Idle.started = {} /\ Idle.cfg = DefaultConfig
    BY DEF Idle, IsRun
  <2>3. s.started = {} /\ s.phase = "menu" /\ IsRun(s) /\ s.cfg = DefaultConfig
    BY <2>1, <2>2 DEF IsRun
  <2>4. RunOk(s)
    BY <2>3, DefaultOk DEF RunOk
  <2> QED BY <1>2, <2>1, <2>3, <2>4, FreshInv
<1>3. CASE Goto(l, "ended")
  BY <1>3, GotoInv
<1>4. CASE parsed.ok /\ Step(l, Prepared(Idle, parsed.cfg))
  <2>1. ConfigOk(parsed.cfg)
    BY <1>1, <1>4, CommandLineOk
  <2>2. PICK s : s = Prepared(Idle, parsed.cfg)
    OBVIOUS
  <2> HIDE DEF parsed
  <2>3. RunOk(s) /\ s.started = {} /\ s.phase = "look"
    BY <2>1, <2>2, PreparedOk
  <2> QED BY <1>4, <2>2, <2>3, FreshInv
<1> QED BY <1>2, <1>3, <1>4 DEF Begin

LEMMA EditInv ==
    ASSUME LaunchInv, NEW l \in Launches, NEW key, Edit(l, key)
    PROVE  LaunchInv'
<1> DEFINE r == run[l]
<1>1. RunOk(r) /\ r.phase = "menu"
  BY DEF LaunchInv, Edit, At
<1>2. PICK cfg \in EditSetting(r.cfg, key) : Step(l, [r EXCEPT !.cfg = cfg])
  BY DEF Edit
<1>3. key \in AllRows
  BY RowNames DEF Edit
<1>4. PICK s : s = [r EXCEPT !.cfg = cfg]
  OBVIOUS
<1> HIDE DEF r
<1>5. ConfigOk(cfg)
  BY <1>1, <1>2, <1>3, EditForms, EditConfigOk DEF RunOk
<1>6. s.started = {} /\ s.phase = "menu" /\ IsRun(s) /\ s.cfg = cfg
  BY <1>1, <1>4 DEF RunOk, IsRun
<1>7. RunOk(s)
  BY <1>5, <1>6 DEF RunOk
<1> QED BY <1>2, <1>4, <1>6, <1>7, FreshInv

LEMMA LaunchStepInv ==
    ASSUME LaunchInv, NEW l \in Launches, Launch(l)
    PROVE  LaunchInv'
<1>1. PICK c : c = run[l].cfg
  OBVIOUS
<1>2. PICK s : s = Prepared(Idle, c)
  OBVIOUS
<1>3. ConfigOk(c)
  BY <1>1 DEF LaunchInv, RunOk
<1>4. RunOk(s) /\ s.started = {} /\ s.phase = "look"
  BY <1>2, <1>3, PreparedOk
<1>5. Step(l, s)
  BY <1>1, <1>2 DEF Launch
<1> QED BY <1>4, <1>5, FreshInv

\* The service at hand is done with.
LEMMA AdvanceMove ==
    ASSUME LaunchInv, NEW l \in Launches, NEW p, run[l].todo # <<>>, NEW w
    PROVE  /\ Moved(run[l], [run[l] EXCEPT !.todo = Tail(@)], run[l].phase, Tail(run[l].todo))
           /\ Moved(run[l], [run[l] EXCEPT !.phase = p, !.todo = Tail(@)], p, Tail(run[l].todo))
           /\ Moved(run[l], [run[l] EXCEPT !.waited = w], run[l].phase, run[l].todo)
<1> DEFINE r == run[l]
           t == Tail(r.todo)
<1>1. RunOk(r)
  BY DEF LaunchInv
<1>2. IsRun(r) /\ t \in Seq(ServiceNames)
  BY <1>1, CurrentContainer DEF RunOk
<1> HIDE DEF r
<1>3. Moved(r, [r EXCEPT !.todo = Tail(@)], r.phase, t)
  BY <1>2 DEF Moved, IsRun
<1>4. Moved(r, [r EXCEPT !.phase = p, !.todo = Tail(@)], p, t)
  BY <1>2 DEF Moved, IsRun
<1>5. Moved(r, [r EXCEPT !.waited = w], r.phase, r.todo)
  BY <1>2 DEF Moved, IsRun
<1> QED BY <1>3, <1>4, <1>5 DEF r

LEMMA LookInv ==
    ASSUME LaunchInv, NEW l \in Launches, Look(l)
    PROVE  LaunchInv'
<1>0. PICK r : r = run[l]
  OBVIOUS
<1>1. RunOk(r) /\ Owned(r) /\ r.phase = "look"
  BY <1>0 DEF LaunchInv, Look, At
<1>2. ASSUME NEW s, Step(l, s) PROVE Set(l, s) /\ BoxKept /\ UNCHANGED box
  BY <1>2, UnchangedBox DEF Step, LaunchInv
<1>3. CASE r.todo = <<>> /\ Step(l, [r EXCEPT !.phase = "guardrail", !.registered = ToStart(r.cfg) # <<>>])
  <2>1. PICK g : g = (ToStart(r.cfg) # <<>>)
    OBVIOUS
  <2>2. PICK s : s = [r EXCEPT !.phase = "guardrail", !.registered = g]
    OBVIOUS
  <2>3. Step(l, s)
    BY <1>3, <2>1, <2>2
  <2>4. Moved(r, s, "guardrail", r.todo)
    BY <1>1, <2>2 DEF Moved, IsRun, RunOk
  <2> QED BY <1>0, <1>2, <2>3, <2>4, PlainMove
<1>4. CASE r.todo # <<>> /\ Step(l, [r EXCEPT !.todo = Tail(@)])
  <2>1. PICK s : s = [r EXCEPT !.todo = Tail(@)]
    OBVIOUS
  <2>2. Moved(r, s, "look", Tail(r.todo))
    BY <1>0, <1>1, <1>4, <2>1, AdvanceMove
  <2> QED BY <1>0, <1>2, <1>4, <2>1, <2>2, PlainMove
<1>5. CASE r.todo # <<>> /\ box[Current(r).container].state = "exited" /\ Goto(l, "reap")
  <2>1. PICK s : s = [r EXCEPT !.phase = "reap"]
    OBVIOUS
  <2>2. Step(l, s) /\ Moved(r, s, "reap", r.todo)
    BY <1>0, <1>5, <2>1, GotoMove DEF Goto
  <2>3. RunOk(s)
    BY <1>1, <1>5, <2>2, MovedOk
  <2>4. \A n \in r.started : Ours(r.made[n])'
    BY <1>1, <1>2, <2>2, MadeContainer DEF Owned, BoxKept
  <2>5. Current(s) = Current(r) /\ s.started = r.started /\ s.made = r.made
    BY <2>2 DEF Current, Moved
  <2>6. box'[Current(s).container].state = "exited"
    BY <1>2, <1>5, <2>2, <2>5
  <2>7. Owned(s)'
    BY <2>4, <2>5, <2>6 DEF Owned, Ours, Running
  <2> QED BY <1>2, <2>2, <2>3, <2>7, Lift
<1>6. CASE r.todo # <<>> /\ Goto(l, "create")
  BY <1>0, <1>6, GotoInv
<1> QED BY <1>0, <1>1, <1>3, <1>4, <1>5, <1>6 DEF Look

LEMMA RemoveMove ==
    ASSUME NEW name, ForceRemove(name)
    PROVE  BoxMove(name, Absent)
BY DEF ForceRemove, BoxMove, Absent, BoxRecords, Running

LEMMA ReapInv ==
    ASSUME LaunchInv, NEW l \in Launches, Reap(l)
    PROVE  LaunchInv'
<1>1. PICK s : s = [run[l] EXCEPT !.phase = "create"]
  OBVIOUS
<1>2. Set(l, s) /\ run[l].todo # <<>>
  BY <1>1 DEF LaunchInv, Reap, At, RunOk
<1>3. BoxKept
  BY RemoveMove, MovedBox DEF Reap, LaunchInv
<1>4. Moved(run[l], s, "create", run[l].todo)
  BY <1>1, GotoMove
<1> QED BY <1>2, <1>3, <1>4, PlainMove

LEMMA RunMove ==
    ASSUME NEW name, NEW l \in Launches, NEW state \in {"exited"} \cup Running,
           box' = [box EXCEPT ![name] = Box(state, l)]
    PROVE  BoxMove(name, Box(state, l))
BY DEF BoxMove, Box, BoxRecords

\* What a launch makes is its own from the start.
LEMMA CreateInv ==
    ASSUME LaunchInv, NEW l \in Launches, Create(l)
    PROVE  LaunchInv'
<1>0. PICK r : r = run[l]
  OBVIOUS
<1>1. RunOk(r) /\ Owned(r) /\ r.phase = "create" /\ r.todo # <<>>
  BY <1>0 DEF LaunchInv, Create, At, RunOk
<1>2. PICK n : n = Head(r.todo)
  OBVIOUS
<1>3. PICK name : name = Current(r).container
  OBVIOUS
<1>4. CASE Abort(l)
  BY <1>4, GotoInv DEF Abort
<1>5. CASE /\ box' = [box EXCEPT ![name] = Box("starting", l)]
           /\ Set(l, [r EXCEPT !.phase = "wait", !.waited = 0, !.started = @ \cup {n},
                               !.made = Bound(n, name) ++ @])
  <2>1. PICK m : m = Bound(n, name) ++ r.made
    OBVIOUS
  <2>2. PICK s : s = [r EXCEPT !.phase = "wait", !.waited = 0, !.started = @ \cup {n}, !.made = m]
    OBVIOUS
  <2>3. BoxKept /\ \A c \in Containers : box'[c] = IF c = name THEN Box("starting", l) ELSE box[c]
    <3>1. "starting" \in Running
      BY DEF Running
    <3>2. BoxMove(name, Box("starting", l))
      BY <1>5, <3>1, RunMove
    <3> QED BY <3>2, MovedBox DEF LaunchInv
  <2>4. Set(l, s)
    BY <1>5, <2>1, <2>2
  <2>5. n \in ServiceNames /\ name \in Containers /\ name = StartedAs(n, VariantOf(r.cfg, n)).container
    BY <1>1, <1>2, <1>3, CurrentContainer DEF Current
  <2>6. /\ DOMAIN m = {n} \cup DOMAIN r.made /\ m[n] = name
        /\ \A k \in DOMAIN r.made : k # n => m[k] = r.made[k]
    <3> DEFINE b == Bound(n, name)
    <3>1. DOMAIN b = {n} /\ b[n] = name
      BY BoundGet
    <3> HIDE DEF b
    <3>2. /\ DOMAIN (b ++ r.made) = DOMAIN b \cup DOMAIN r.made
          /\ \A v \in DOMAIN b : (b ++ r.made)[v] = b[v]
          /\ \A v \in DOMAIN r.made : v \notin DOMAIN b => (b ++ r.made)[v] = r.made[v]
      BY Over
    <3>3. m = b ++ r.made
      BY <2>1 DEF b
    <3> QED BY <3>1, <3>2, <3>3
  <2>7. /\ IsRun(s) /\ s.phase = "wait" /\ s.todo = r.todo /\ s.cfg = r.cfg
        /\ s.started = r.started \cup {n} /\ s.made = m
    BY <1>1, <2>2, <2>5 DEF IsRun, RunOk
  <2>8. \A k \in s.started : MadeFor(s, k) /\ Ours(s.made[k])'
    <3> TAKE k \in s.started
    <3>1. CASE k = n
      <4>1. MadeFor(s, k)
        BY <2>5, <2>6, <2>7, <3>1 DEF MadeFor
      <4>2. box'[name].by = l
        BY <2>3, <2>5 DEF Box
      <4> QED BY <2>6, <2>7, <3>1, <4>1, <4>2 DEF Ours
    <3>2. CASE k # n
      <4>1. k \in r.started /\ MadeFor(r, k) /\ Ours(r.made[k])
        BY <1>1, <2>7, <3>2 DEF RunOk, Owned
      <4>2. MadeFor(s, k) /\ s.made[k] = r.made[k]
        BY <2>6, <2>7, <3>2, <4>1 DEF MadeFor
      <4>3. Ours(r.made[k])'
        BY <1>1, <2>3, <4>1, MadeContainer DEF BoxKept
      <4> QED BY <4>2, <4>3
    <3> QED BY <3>1, <3>2
  <2>9. RunOk(s)
    BY <1>1, <2>7, <2>8 DEF RunOk
  <2>10. Owned(s)'
    BY <2>7, <2>8 DEF Owned
  <2> QED BY <2>3, <2>4, <2>9, <2>10, Lift
<1> QED BY <1>0, <1>2, <1>3, <1>4, <1>5 DEF Create

LEMMA EngineFailsInv ==
    ASSUME LaunchInv, NEW l \in Launches, EngineFails(l)
    PROVE  LaunchInv'
<1>1. CASE Abort(l)
  BY <1>1, GotoInv DEF Abort
<1>2. CASE ~Abort(l)
  <2>1. PICK name : name = Current(run[l]).container
    OBVIOUS
  <2>2. PICK s : s = [run[l] EXCEPT !.phase = "ended"]
    OBVIOUS
  <2>3. Set(l, s) /\ box' = [box EXCEPT ![name] = Box("exited", l)]
    BY <1>2, <2>1, <2>2 DEF EngineFails
  <2>4. BoxKept
    BY <2>3, RunMove, MovedBox DEF LaunchInv
  <2>5. Moved(run[l], s, "ended", run[l].todo)
    BY <2>2, GotoMove
  <2> QED BY <2>3, <2>4, <2>5, PlainMove
<1> QED BY <1>1, <1>2

LEMMA WaitInv ==
    ASSUME LaunchInv, NEW l \in Launches, Wait(l)
    PROVE  LaunchInv'
<1>0. PICK r : r = run[l]
  OBVIOUS
<1>1. RunOk(r) /\ r.phase = "wait" /\ r.todo # <<>>
  BY <1>0 DEF LaunchInv, Wait, At, RunOk
<1>2. ASSUME NEW s, Step(l, s) PROVE Set(l, s) /\ BoxKept
  BY <1>2, UnchangedBox DEF Step, LaunchInv
<1>3. CASE Abort(l)
  BY <1>3, GotoInv DEF Abort
<1>4. CASE Step(l, [r EXCEPT !.phase = "look", !.todo = Tail(@)])
  <2>1. PICK s : s = [r EXCEPT !.phase = "look", !.todo = Tail(@)]
    OBVIOUS
  <2>2. Moved(r, s, "look", Tail(r.todo))
    BY <1>0, <1>1, <2>1, AdvanceMove
  <2> QED BY <1>0, <1>2, <1>4, <2>1, <2>2, PlainMove
<1>5. CASE Step(l, [r EXCEPT !.waited = @ + 1])
  <2>1. PICK s : s = [r EXCEPT !.waited = @ + 1]
    OBVIOUS
  <2>2. Moved(r, s, "wait", r.todo)
    BY <1>1, <2>1 DEF Moved, IsRun, RunOk
  <2> QED BY <1>0, <1>1, <1>2, <1>5, <2>1, <2>2, PlainMove
<1> QED BY <1>0, <1>3, <1>4, <1>5 DEF Wait

LEMMA AfterRunMove ==
    ASSUME NEW r, RunOk(r)
    PROVE  \E p \in {"stop", "ended"} : Moved(r, AfterRun(r), p, ToStart(r.cfg))
<1>1. PICK t : t = ToStart(r.cfg)
  OBVIOUS
<1>2. t \in Seq(ServiceNames)
  BY <1>1, ToStartType DEF RunOk
<1>3. PICK p : p = (IF r.registered THEN "stop" ELSE "ended")
  OBVIOUS
<1>4. AfterRun(r) = [r EXCEPT !.phase = p, !.todo = t]
  BY <1>1, <1>3 DEF AfterRun
<1>5. Moved(r, AfterRun(r), p, t)
  BY <1>2, <1>4 DEF Moved, IsRun, RunOk
<1> QED BY <1>1, <1>3, <1>5

LEMMA RunGuardrailInv ==
    ASSUME LaunchInv, NEW l \in Launches, RunGuardrail(l)
    PROVE  LaunchInv'
<1>0. PICK r : r = run[l]
  OBVIOUS
<1>1. RunOk(r)
  BY <1>0 DEF LaunchInv
<1>2. CASE Step(l, AfterRun(r))
  <2>1. PICK s : s = AfterRun(r)
    OBVIOUS
  <2>2. PICK p \in {"stop", "ended"} : Moved(r, s, p, ToStart(r.cfg))
    BY <1>1, <2>1, AfterRunMove
  <2>3. Set(l, s) /\ BoxKept
    BY <1>2, <2>1, UnchangedBox DEF Step, LaunchInv
  <2> QED BY <1>0, <2>2, <2>3, PlainMove
<1>3. CASE /\ box' = [box EXCEPT ![r.cfg.name] = Box("starting", l)]
           /\ Set(l, [r EXCEPT !.phase = "serving",
                               !.env = GuardrailEnv(r.cfg, host.environ, r.started)])
  <2>1. PICK env : env = GuardrailEnv(r.cfg, host.environ, r.started)
    OBVIOUS
  <2>2. PICK s : s = [r EXCEPT !.phase = "serving", !.env = env]
    OBVIOUS
  <2>3. Moved(r, s, "serving", r.todo) /\ s.env = env
    BY <1>1, <2>2 DEF Moved, IsRun, RunOk
  <2>4. RunOk(s)
    BY <1>1, <2>1, <2>3, MovedOk DEF Moved
  <2>5. Set(l, s)
    BY <1>3, <2>1, <2>2
  <2>6. BoxKept
    <3>1. "starting" \in Running
      BY DEF Running
    <3> QED BY <1>3, <3>1, RunMove, MovedBox DEF LaunchInv
  <2>7. Owned(s)'
    BY <1>0, <1>1, <2>3, <2>6, MovedOwned DEF LaunchInv
  <2> QED BY <2>4, <2>5, <2>6, <2>7, Lift
<1> QED BY <1>0, <1>2, <1>3 DEF RunGuardrail

LEMMA GuardrailEndsInv ==
    ASSUME LaunchInv, NEW l \in Launches, GuardrailEnds(l)
    PROVE  LaunchInv'
<1>0. PICK r : r = run[l]
  OBVIOUS
<1>1. PICK s : s = AfterRun(r)
  OBVIOUS
<1>2. PICK p \in {"stop", "ended"} : Moved(r, s, p, ToStart(r.cfg))
  BY <1>0, <1>1, AfterRunMove DEF LaunchInv
<1>3. BoxKept
  BY RemoveMove, MovedBox, UnchangedBox DEF GuardrailEnds, LaunchInv
<1>4. Set(l, s)
  BY <1>0, <1>1 DEF GuardrailEnds
<1> QED BY <1>0, <1>2, <1>3, <1>4, PlainMove

\* Stopping a container.
StopBox(name) ==
  box' = IF box[name].state \in Running THEN [box EXCEPT ![name].state = "exited"] ELSE box

LEMMA ExitMove ==
    ASSUME BoxOk, NEW name \in Containers, box' = [box EXCEPT ![name].state = "exited"]
    PROVE  BoxKept
<1>1. PICK b : b = [box[name] EXCEPT !.state = "exited"]
  OBVIOUS
<1>2. box[name] \in BoxRecords
  BY DEF BoxOk
<1>3. b \in BoxRecords /\ b.state = "exited"
  BY <1>1, <1>2 DEF BoxRecords
<1>4. box' = [box EXCEPT ![name] = b]
  BY <1>1
<1>5. BoxMove(name, b)
  BY <1>3, <1>4 DEF BoxMove, Running
<1> QED BY <1>5, MovedBox

LEMMA StoppedContainer ==
    ASSUME NEW n \in ServiceNames
    PROVE  StoppedAs(n).container \in Containers \ {Guardrail}
<1>1. CASE n = RedisName
  <2>1. StoppedAs(n) = StartedAs(n, Unset)
    BY <1>1 DEF StoppedAs, StartedAs
  <2> QED BY <2>1, StartedContainer
<1>2. CASE n \in Remote
  <2>1. n # RedisName
    BY <1>2 DEF Remote, RedisName
  <2>2. /\ LlmSpec.variants = NoVariants /\ GlinerSpec.variants = NoVariants
        /\ PrivacyFilterSpec.variants = [hf |-> PrivacyFilterHf]
    BY DEF PrivacyFilterSpec, GlinerSpec, LlmSpec, LauncherSpec
  <2>3. Unset \notin DOMAIN LauncherMetadata[n].variants
    <3>1. DOMAIN NoVariants = {} /\ DOMAIN [hf |-> PrivacyFilterHf] = {"hf"}
      BY DEF NoVariants
    <3>2. \A v \in DOMAIN LauncherMetadata[n].variants : v = "hf"
      BY <1>2, <2>2, <3>1, Metadata DEF Remote
    <3>3. Unset # "hf"
      BY DEF Unset
    <3> QED BY <3>2, <3>3
  <2>4. StoppedAs(n) = StartedAs(n, Unset)
    BY <2>1, <2>3 DEF StoppedAs, StartedAs, ResolveService
  <2> QED BY <2>4, StartedContainer
<1> QED BY <1>1, <1>2 DEF ServiceNames

LEMMA StopInv ==
    ASSUME LaunchInv, NEW l \in Launches, Stop(l)
    PROVE  LaunchInv'
<1>0. PICK r : r = run[l]
  OBVIOUS
<1>1. RunOk(r) /\ r.phase = "stop"
  BY <1>0 DEF LaunchInv, Stop, At
<1>2. CASE Goto(l, "ended")
  BY <1>2, GotoInv
<1>3. CASE r.todo # <<>> /\ Step(l, [r EXCEPT !.todo = Tail(@)])
  <2>1. PICK s : s = [r EXCEPT !.todo = Tail(@)]
    OBVIOUS
  <2>2. Moved(r, s, "stop", Tail(r.todo))
    BY <1>0, <1>1, <1>3, <2>1, AdvanceMove
  <2>3. Set(l, s) /\ BoxKept
    BY <1>3, <2>1, UnchangedBox DEF Step, LaunchInv
  <2> QED BY <1>0, <2>2, <2>3, PlainMove
<1>4. CASE /\ r.todo # <<>> /\ Head(r.todo) \in r.started
           /\ StopBox(StoppedAs(Head(r.todo)).container)
           /\ Set(l, [r EXCEPT !.phase = "remove"])
  <2>1. PICK s : s = [r EXCEPT !.phase = "remove"]
    OBVIOUS
  <2>2. Moved(r, s, "remove", r.todo)
    BY <1>0, <2>1, GotoMove
  <2>3. PICK name : name = StoppedAs(Head(r.todo)).container
    OBVIOUS
  <2>4. name \in Containers
    BY <1>1, <1>4, <2>3, CurrentContainer, StoppedContainer
  <2>5. BoxKept
    BY <1>4, <2>3, <2>4, ExitMove, UnchangedBox DEF StopBox, LaunchInv
  <2>6. RunOk(s)
    BY <1>1, <1>4, <2>2, MovedOk
  <2>7. Owned(s)'
    BY <1>0, <1>1, <2>2, <2>5, MovedOwned DEF LaunchInv
  <2> QED BY <1>4, <2>1, <2>5, <2>6, <2>7, Lift
<1> QED BY <1>0, <1>2, <1>3, <1>4 DEF Stop, StopBox

LEMMA RemoveStoppedInv ==
    ASSUME LaunchInv, NEW l \in Launches, RemoveStopped(l)
    PROVE  LaunchInv'
<1>0. PICK r : r = run[l]
  OBVIOUS
<1>1. RunOk(r) /\ r.todo # <<>>
  BY <1>0 DEF LaunchInv, RemoveStopped, At, RunOk
<1>2. PICK s : s = [r EXCEPT !.phase = "stop", !.todo = Tail(@)]
  OBVIOUS
<1>3. Moved(r, s, "stop", Tail(r.todo))
  BY <1>0, <1>1, <1>2, AdvanceMove
<1>4. BoxKept
  BY RemoveMove, MovedBox DEF RemoveStopped, LaunchInv
<1>5. Set(l, s)
  BY <1>0, <1>2 DEF RemoveStopped
<1> QED BY <1>0, <1>3, <1>4, <1>5, PlainMove

\* Steps of a container leave every launch as it is.
LEMMA BoxInv ==
    ASSUME LaunchInv, BoxKept, UNCHANGED <<host, run>>
    PROVE  LaunchInv'
<1>1. ASSUME NEW l \in Launches PROVE RunOk(run[l])' /\ Owned(run[l])'
  <2>1. PICK r : r = run[l]
    OBVIOUS
  <2>2. RunOk(r) /\ Owned(r) /\ r = run'[l]
    BY <2>1 DEF LaunchInv
  <2>3. Owned(r)'
    BY <2>2, OwnedKept
  <2> QED BY <2>2, <2>3 DEF RunOk, MadeFor, Owned
<1> QED BY <1>1 DEF LaunchInv, BoxKept

LEMMA UpInv ==
    ASSUME LaunchInv, NEW l \in Launches, Up(l)
    PROVE  LaunchInv'
<1>1. "ready" \in Running
  BY DEF Running
<1>2. BoxKept
  BY <1>1, RunMove, MovedBox DEF Up, LaunchInv
<1> QED BY <1>2, BoxInv DEF Up

LEMMA ReadyInv ==
    ASSUME LaunchInv, NEW c \in Containers, Ready(c)
    PROVE  LaunchInv'
<1>1. PICK b : b = [box[c] EXCEPT !.state = "ready"]
  OBVIOUS
<1>2. box[c] \in BoxRecords
  BY DEF LaunchInv, BoxOk
<1>3. b \in BoxRecords /\ b.by = box[c].by
  BY <1>1, <1>2 DEF BoxRecords, Running
<1>4. box' = [box EXCEPT ![c] = b] /\ box[c].state \in Running
  BY <1>1 DEF Ready, Running
<1>5. BoxMove(c, b)
  BY <1>3, <1>4 DEF BoxMove
<1> QED BY <1>5, MovedBox, BoxInv DEF Ready, LaunchInv

LEMMA CrashInv ==
    ASSUME LaunchInv, NEW c \in Containers, Crash(c)
    PROVE  LaunchInv'
BY ExitMove, BoxInv DEF Crash, LaunchInv

LEMMA NextInv ==
    ASSUME LaunchInv, [Next]_vars
    PROVE  LaunchInv'
<1>1. ASSUME NEW l \in Launches, Progress(l) PROVE LaunchInv'
  BY <1>1, BeginInv, LookInv, ReapInv, CreateInv, WaitInv, RunGuardrailInv, StopInv,
     RemoveStoppedInv DEF Progress
<1>2. ASSUME NEW l \in Launches, Launch(l) PROVE LaunchInv'
  BY <1>2, LaunchStepInv
<1>3. ASSUME NEW l \in Launches, Quit(l) PROVE LaunchInv'
  BY <1>3, GotoInv DEF Quit
<1>4. ASSUME NEW l \in Launches, EngineFails(l) PROVE LaunchInv'
  BY <1>4, EngineFailsInv
<1>5. ASSUME NEW l \in Launches, Up(l) \/ GuardrailEnds(l) PROVE LaunchInv'
  BY <1>5, UpInv, GuardrailEndsInv
<1>6. ASSUME NEW l \in Launches, Kill(l) PROVE LaunchInv'
  BY <1>6, GotoInv DEF Kill, Abort
<1>7. ASSUME NEW l \in Launches, NEW key \in host.rows, Edit(l, key) PROVE LaunchInv'
  BY <1>7, EditInv
<1>8. ASSUME NEW c \in Containers, Ready(c) \/ Crash(c) PROVE LaunchInv'
  BY <1>8, ReadyInv, CrashInv
<1>9. CASE UNCHANGED vars
  <2>1. UNCHANGED box /\ UNCHANGED <<host, run>>
    BY <1>9 DEF vars
  <2> QED BY <2>1, UnchangedBox, BoxInv DEF LaunchInv
<1> QED BY <1>1, <1>2, <1>3, <1>4, <1>5, <1>6, <1>7, <1>8, <1>9 DEF Next

LEMMA InitInv ==
    ASSUME Init
    PROVE  LaunchInv
<1>1. host \in Scenes /\ box = host.box /\ run = [l \in Launches |-> Idle]
  BY DEF Init
<1>2. BoxOk
  BY <1>1, ScenesReady DEF BoxOk, BoxRecords
<1>3. RunOk(Idle) /\ Owned(Idle)
  <2>1. IsRun(Idle) /\ Idle.cfg = DefaultConfig /\ Idle.started = {} /\ Idle.phase = "idle"
    BY DEF Idle, IsRun
  <2> QED BY <2>1, DefaultOk DEF RunOk, Owned
<1> QED BY <1>1, <1>2, <1>3 DEF LaunchInv

LEMMA LaunchInvariant == Spec => []LaunchInv
<1>1. Init => LaunchInv
  BY InitInv
<1>2. LaunchInv /\ [Next]_vars => LaunchInv'
  BY NextInv
<1> QED BY <1>1, <1>2, PTL DEF Spec
-----------------------------------------------------------------------------
(* What a launch stops.                                                      *)

MayStop(l, c) ==
  \/ box[c].by = l
  \/ box[c].by \in Launches /\ (At(l, "reap") \/ Head(run[l].todo) \in run[l].started)
  \/ /\ run[l].phase \in {"stop", "remove"} /\ Head(run[l].todo) \in run[l].started
     /\ run[l].made[Head(run[l].todo)] # c

Stops(c) == box[c].state \in Running /\ box'[c].state \notin Running

\* What stops is the one container of a step that is put out of running.
LEMMA StopsOne ==
    ASSUME BoxOk, NEW name, NEW b, BoxMove(name, b), NEW c \in Containers, Stops(c)
    PROVE  c = name /\ b.state \notin Running
<1>1. \A d \in Containers : box'[d] = IF d = name THEN b ELSE box[d]
  BY MovedBox
<1> QED BY <1>1 DEF Stops

\* Stopping what stands for a service this launch started: it is the launch's
\* own container or another launch's in its place, or else not the one it made.
LEMMA CleanupMayStop ==
    ASSUME LaunchInv, NEW l \in Launches, run[l].phase \in {"stop", "remove"},
           run[l].todo # <<>>, Head(run[l].todo) \in run[l].started,
           NEW c, c = StoppedAs(Head(run[l].todo)).container, box[c].state \in Running
    PROVE  MayStop(l, c)
<1>1. CASE run[l].made[Head(run[l].todo)] # c
  BY <1>1 DEF MayStop
<1>2. CASE run[l].made[Head(run[l].todo)] = c
  <2>1. Ours(c)
    BY <1>2 DEF LaunchInv, Owned
  <2> QED BY <2>1 DEF Ours, MayStop
<1> QED BY <1>1, <1>2

LEMMA StepMayStop ==
    ASSUME LaunchInv, [Next]_vars, NEW l \in Launches, run'[l] # run[l],
           NEW c \in Containers \ {Guardrail}, Stops(c)
    PROVE  MayStop(l, c)
<1>1. BoxOk /\ DOMAIN run = Launches
  BY DEF LaunchInv
<1>2. ASSUME UNCHANGED box PROVE FALSE
  BY <1>2 DEF Stops
<1>3. ASSUME NEW m \in Launches, NEW r, Set(m, r) PROVE m = l
  BY <1>1, <1>3 DEF Set
<1>4. ASSUME NEW m \in Launches, Reap(m) PROVE MayStop(l, c)
  <2>1. m = l
    BY <1>3, <1>4 DEF Reap
  <2>2. c = Current(run[l]).container
    BY <1>1, <1>4, <2>1, RemoveMove, StopsOne DEF Reap
  <2>3. Ours(c) /\ At(l, "reap")
    BY <1>4, <2>1, <2>2 DEF LaunchInv, Owned, Reap, At
  <2> QED BY <2>3 DEF Ours, MayStop, Stops
<1>5. ASSUME NEW m \in Launches, Create(m) PROVE FALSE
  <2>1. PICK name : name = Current(run[m]).container
    OBVIOUS
  <2>2. box' = [box EXCEPT ![name] = Box("starting", m)]
    BY <1>2, <1>5, <2>1 DEF Create, Abort, Goto, Step
  <2>3. "starting" \in Running
    BY DEF Running
  <2>4. BoxMove(name, Box("starting", m)) /\ Box("starting", m).state \in Running
    BY <2>2, <2>3, RunMove DEF Box
  <2> QED BY <1>1, <2>4, StopsOne
<1>6. ASSUME NEW m \in Launches, EngineFails(m) PROVE FALSE
  <2>1. PICK name : name = Current(run[m]).container
    OBVIOUS
  <2>2. box[name] = Absent /\ box' = [box EXCEPT ![name] = Box("exited", m)]
    BY <1>2, <1>6, <2>1 DEF EngineFails, Abort, Goto, Step
  <2>3. c = name
    BY <1>1, <2>2, RunMove, StopsOne
  <2> QED BY <2>2, <2>3 DEF Stops, Absent, Running
<1>7. ASSUME NEW m \in Launches, RunGuardrail(m) PROVE FALSE
  <2>1. PICK name : name = run[m].cfg.name
    OBVIOUS
  <2>2. box' = [box EXCEPT ![name] = Box("starting", m)]
    BY <1>2, <1>7, <2>1 DEF RunGuardrail, Step
  <2>3. "starting" \in Running
    BY DEF Running
  <2>4. BoxMove(name, Box("starting", m)) /\ Box("starting", m).state \in Running
    BY <2>2, <2>3, RunMove DEF Box
  <2> QED BY <1>1, <2>4, StopsOne
<1>8. ASSUME NEW m \in Launches, GuardrailEnds(m) PROVE MayStop(l, c)
  <2>1. m = l
    BY <1>3, <1>8 DEF GuardrailEnds
  <2>2. PICK name : name = run[l].cfg.name
    OBVIOUS
  <2>3. box[name].by = l /\ ForceRemove(name)
    BY <1>2, <1>8, <2>1, <2>2 DEF GuardrailEnds
  <2>4. c = name
    BY <1>1, <2>3, RemoveMove, StopsOne
  <2> QED BY <2>3, <2>4 DEF MayStop
<1>9. ASSUME NEW m \in Launches, Stop(m) PROVE MayStop(l, c)
  <2>1. PICK name : name = StoppedAs(Head(run[m].todo)).container
    OBVIOUS
  <2>2. /\ run[m].phase = "stop" /\ run[m].todo # <<>> /\ Head(run[m].todo) \in run[m].started
        /\ box[name].state \in Running /\ box' = [box EXCEPT ![name].state = "exited"]
        /\ Set(m, [run[m] EXCEPT !.phase = "remove"])
    BY <1>2, <1>9, <2>1 DEF Stop, Goto, Step, At
  <2>3. m = l
    BY <1>3, <2>2
  <2>4. c = name
    BY <1>1, <2>2 DEF Stops, BoxOk
  <2> QED BY <2>1, <2>2, <2>3, <2>4, CleanupMayStop
<1>10. ASSUME NEW m \in Launches, RemoveStopped(m) PROVE MayStop(l, c)
  <2>1. m = l
    BY <1>3, <1>10 DEF RemoveStopped
  <2>2. run[l].phase = "remove" /\ run[l].todo # <<>> /\ Head(run[l].todo) \in run[l].started
    BY <1>10, <2>1 DEF RemoveStopped, At, LaunchInv, RunOk
  <2>3. c = StoppedAs(Head(run[l].todo)).container
    BY <1>1, <1>10, <2>1, RemoveMove, StopsOne DEF RemoveStopped
  <2> QED BY <2>2, <2>3, CleanupMayStop DEF Stops
<1>11. ASSUME NEW m \in Launches, Begin(m) \/ Look(m) \/ Wait(m) PROVE FALSE
  BY <1>2, <1>11 DEF Begin, Look, Wait, Abort, Goto, Step
<1>12. ASSUME NEW m \in Launches, Launch(m) \/ Quit(m) \/ Kill(m) \/ \E key : Edit(m, key)
       PROVE  FALSE
  BY <1>2, <1>12 DEF Launch, Quit, Kill, Edit, Abort, Goto, Step
<1>13. ASSUME UNCHANGED run PROVE FALSE
  BY <1>13
<1>14. ASSUME NEW m \in Launches, Progress(m) PROVE MayStop(l, c)
  BY <1>4, <1>5, <1>7, <1>9, <1>10, <1>11, <1>14 DEF Progress
<1>15. CASE Next
  <2>1. ASSUME NEW m \in Launches, Up(m) PROVE FALSE
    BY <1>13, <2>1 DEF Up
  <2>2. ASSUME NEW d \in Containers, Ready(d) \/ Crash(d) PROVE FALSE
    BY <1>13, <2>2 DEF Ready, Crash
  <2> QED BY <1>6, <1>8, <1>12, <1>14, <1>15, <2>1, <2>2 DEF Next
<1>16. CASE UNCHANGED vars
  BY <1>13, <1>16 DEF vars
<1> QED BY <1>15, <1>16

\* No launch ever stops a container that the operator runs, nor one that another
\* launch put there in the place of nothing of its own: what it stops is its own,
\* or bears the name of one it made and belongs to a launch, or bears the name
\* of the default container of a variant (cleanup_service, start_service).
THEOREM OwnStoppedOnly == Spec => OnlyOwnStopped
<1> DEFINE A == \A l \in Launches : run'[l] # run[l] =>
       \A c \in Containers \ {Guardrail} :
         box[c].state \in Running /\ box'[c].state \notin Running =>
           \/ box[c].by = l
           \/ box[c].by \in Launches /\ (At(l, "reap") \/ Head(run[l].todo) \in run[l].started)
           \/ /\ run[l].phase \in {"stop", "remove"} /\ Head(run[l].todo) \in run[l].started
              /\ run[l].made[Head(run[l].todo)] # c
<1>1. LaunchInv /\ [Next]_vars => A
  BY StepMayStop DEF MayStop, Stops
<1>2. Spec => [][A]_vars
  BY <1>1, LaunchInvariant, PTL DEF Spec
<1> QED BY <1>2 DEF OnlyOwnStopped
-----------------------------------------------------------------------------
(* The environment of the guardrail: where each of its variables comes from. *)

Passed(d) == LauncherMetadata[d].passthroughs
SurrogateVariables == {"USE_FAKER", "FAKER_LOCALE", "SURROGATE_SALT"}
Sides == {"VAULT_REDIS_URL", "CACHE_REDIS_URL"}

LEMMA PassedSets ==
    /\ Passed("regex") = {"REGEX_PATTERNS_PATH", "REGEX_PATTERNS_REGISTRY", "REGEX_OVERLAP_STRATEGY"}
    /\ Passed("denylist") = {"DENYLIST_PATH", "DENYLIST_REGISTRY", "DENYLIST_BACKEND"}
    /\ Passed("privacy_filter") =
         {"PRIVACY_FILTER_URL", "PRIVACY_FILTER_TIMEOUT_S", "PRIVACY_FILTER_FAIL_CLOSED",
        "PRIVACY_FILTER_MAX_CONCURRENCY", "PRIVACY_FILTER_INPUT_MODE",
        "PRIVACY_FILTER_CACHE_MAX_SIZE", "PRIVACY_FILTER_CACHE_BACKEND",
        "PRIVACY_FILTER_CACHE_TTL_S"}
    /\ Passed("gliner_pii") =
         {"GLINER_PII_URL", "GLINER_PII_TIMEOUT_S", "GLINER_PII_LABELS",
        "GLINER_PII_THRESHOLD", "GLINER_PII_FAIL_CLOSED", "GLINER_PII_MAX_CONCURRENCY",
        "GLINER_PII_INPUT_MODE", "GLINER_PII_CACHE_MAX_SIZE", "GLINER_PII_CACHE_BACKEND",
        "GLINER_PII_CACHE_TTL_S"}
    /\ Passed("llm") =
         {"LLM_API_BASE", "LLM_API_KEY", "LLM_MODEL", "LLM_TIMEOUT_S",
        "LLM_USE_FORWARDED_KEY", "LLM_SYSTEM_PROMPT_PATH", "LLM_SYSTEM_PROMPT_REGISTRY",
        "LLM_MAX_CHARS", "LLM_MAX_CONCURRENCY", "LLM_FAIL_CLOSED", "LLM_INPUT_MODE",
        "LLM_CACHE_MAX_SIZE", "LLM_CACHE_BACKEND", "LLM_CACHE_TTL_S"}
<1>1. /\ Passed("regex") = RegexSpec.passthroughs /\ Passed("denylist") = DenylistSpec.passthroughs
      /\ Passed("privacy_filter") = PrivacyFilterSpec.passthroughs
      /\ Passed("gliner_pii") = GlinerSpec.passthroughs /\ Passed("llm") = LlmSpec.passthroughs
  BY Metadata DEF Passed
<1>2. ASSUME NEW p, NEW s, NEW v PROVE LauncherSpec(p, s, v).passthroughs = p
  BY DEF LauncherSpec
<1>3. RegexSpec.passthroughs =
        {"REGEX_PATTERNS_PATH", "REGEX_PATTERNS_REGISTRY", "REGEX_OVERLAP_STRATEGY"}
  BY <1>2, Zenon DEF RegexSpec
<1>4. DenylistSpec.passthroughs = {"DENYLIST_PATH", "DENYLIST_REGISTRY", "DENYLIST_BACKEND"}
  BY <1>2, Zenon DEF DenylistSpec
<1>5. PrivacyFilterSpec.passthroughs =
         {"PRIVACY_FILTER_URL", "PRIVACY_FILTER_TIMEOUT_S", "PRIVACY_FILTER_FAIL_CLOSED",
        "PRIVACY_FILTER_MAX_CONCURRENCY", "PRIVACY_FILTER_INPUT_MODE",
        "PRIVACY_FILTER_CACHE_MAX_SIZE", "PRIVACY_FILTER_CACHE_BACKEND",
        "PRIVACY_FILTER_CACHE_TTL_S"}
  BY <1>2, Zenon DEF PrivacyFilterSpec
<1>6. GlinerSpec.passthroughs =
         {"GLINER_PII_URL", "GLINER_PII_TIMEOUT_S", "GLINER_PII_LABELS",
        "GLINER_PII_THRESHOLD", "GLINER_PII_FAIL_CLOSED", "GLINER_PII_MAX_CONCURRENCY",
        "GLINER_PII_INPUT_MODE", "GLINER_PII_CACHE_MAX_SIZE", "GLINER_PII_CACHE_BACKEND",
        "GLINER_PII_CACHE_TTL_S"}
  BY <1>2, Zenon DEF GlinerSpec
<1>7. LlmSpec.passthroughs =
         {"LLM_API_BASE", "LLM_API_KEY", "LLM_MODEL", "LLM_TIMEOUT_S",
        "LLM_USE_FORWARDED_KEY", "LLM_SYSTEM_PROMPT_PATH", "LLM_SYSTEM_PROMPT_REGISTRY",
        "LLM_MAX_CHARS", "LLM_MAX_CONCURRENCY", "LLM_FAIL_CLOSED", "LLM_INPUT_MODE",
        "LLM_CACHE_MAX_SIZE", "LLM_CACHE_BACKEND", "LLM_CACHE_TTL_S"}
  BY <1>2, Zenon DEF LlmSpec
<1> QED BY <1>1, <1>3, <1>4, <1>5, <1>6, <1>7

\* No variable of one detector is one of another, of a side or of the surrogates.
LEMMA OwnVariables ==
    /\ \A d \in Remote, e \in Detectors : DetectorUrl[d] \in Passed(e) <=> d = e
    /\ \A d \in Remote : DetectorUrl[d] \notin SurrogateVariables \cup Sides \cup CrossCutting
    /\ \A d \in Detectors : Passed(d) \cap (CrossCutting \cup SurrogateVariables) = {}
    /\ Sides \subseteq CrossCutting /\ CrossCutting \cap SurrogateVariables = {}
<1>1. DetectorUrl["llm"] = "LLM_API_BASE" /\ DetectorUrl["privacy_filter"] = "PRIVACY_FILTER_URL"
      /\ DetectorUrl["gliner_pii"] = "GLINER_PII_URL"
  BY DEF DetectorUrl
<1>2. \A d \in Remote, e \in Detectors : DetectorUrl[d] \in Passed(e) <=> d = e
  <2>1. \A e \in Detectors : "LLM_API_BASE" \in Passed(e) <=> e = "llm"
    BY PassedSets, DetectorNames
  <2>2. \A e \in Detectors : "PRIVACY_FILTER_URL" \in Passed(e) <=> e = "privacy_filter"
    BY PassedSets, DetectorNames
  <2>3. \A e \in Detectors : "GLINER_PII_URL" \in Passed(e) <=> e = "gliner_pii"
    BY PassedSets, DetectorNames
  <2> QED BY <1>1, <2>1, <2>2, <2>3 DEF Remote
<1>3. \A d \in Remote : DetectorUrl[d] \notin SurrogateVariables \cup Sides \cup CrossCutting
  BY <1>1 DEF Remote, SurrogateVariables, Sides, CrossCutting
<1>4. \A d \in Detectors : Passed(d) \cap (CrossCutting \cup SurrogateVariables) = {}
  <2>1. Passed("regex") \cap (CrossCutting \cup SurrogateVariables) = {}
    BY PassedSets DEF CrossCutting, SurrogateVariables
  <2>2. Passed("denylist") \cap (CrossCutting \cup SurrogateVariables) = {}
    BY PassedSets DEF CrossCutting, SurrogateVariables
  <2>3. Passed("privacy_filter") \cap (CrossCutting \cup SurrogateVariables) = {}
    BY PassedSets DEF CrossCutting, SurrogateVariables
  <2>4. Passed("gliner_pii") \cap (CrossCutting \cup SurrogateVariables) = {}
    BY PassedSets DEF CrossCutting, SurrogateVariables
  <2>5. Passed("llm") \cap (CrossCutting \cup SurrogateVariables) = {}
    BY PassedSets DEF CrossCutting, SurrogateVariables
  <2> QED BY <2>1, <2>2, <2>3, <2>4, <2>5, DetectorNames
<1>5. Sides \subseteq CrossCutting /\ CrossCutting \cap SurrogateVariables = {}
  BY DEF Sides, CrossCutting, SurrogateVariables
<1> QED BY <1>2, <1>3, <1>4, <1>5

LEMMA ForwardedGet ==
    ASSUME NEW cfg, NEW environ, NEW vars_
    PROVE  LET f == Forwarded(cfg, environ, vars_)
           IN /\ DOMAIN f \subseteq vars_
              /\ \A v \in DOMAIN f : f[v] # Unset
                                     /\ f[v] = Given(EnvGet(cfg.env, v), EnvGet(environ, v))
              /\ \A v \in vars_ : EnvGet(f, v) = Given(EnvGet(cfg.env, v), EnvGet(environ, v))
BY DEF Forwarded, EnvGet

LEMMA SurrogateGet ==
    ASSUME NEW cfg
    PROVE  /\ DOMAIN SurrogateEnv(cfg) \subseteq SurrogateVariables
           /\ "USE_FAKER" \in DOMAIN SurrogateEnv(cfg) => SurrogateEnv(cfg)["USE_FAKER"] = "false"
           /\ EnvGet(SurrogateEnv(cfg), "USE_FAKER") = IF cfg.faker THEN Unset ELSE "false"
           /\ EnvGet(SurrogateEnv(cfg), "FAKER_LOCALE") = cfg.locale
<1>1. PICK f : f = (IF cfg.faker THEN EmptyEnv ELSE [USE_FAKER |-> "false"])
  OBVIOUS
<1>2. PICK g : g = Option("FAKER_LOCALE", cfg.locale)
  OBVIOUS
<1>3. PICK h : h = Option("SURROGATE_SALT", cfg.salt)
  OBVIOUS
<1>4. DOMAIN f \subseteq {"USE_FAKER"} /\ ("USE_FAKER" \in DOMAIN f => f["USE_FAKER"] = "false")
  BY <1>1 DEF EmptyEnv
<1>5. DOMAIN g \subseteq {"FAKER_LOCALE"} /\ DOMAIN h \subseteq {"SURROGATE_SALT"}
  BY <1>2, <1>3, OptionGet
<1> DEFINE k == f ++ g
           m == k ++ h
<1>6. DOMAIN k = DOMAIN f \cup DOMAIN g /\ \A v \in DOMAIN f : k[v] = f[v]
  BY Over
<1>7. SurrogateEnv(cfg) = m
  BY <1>1, <1>2, <1>3 DEF SurrogateEnv
<1> HIDE DEF k
<1>8. DOMAIN m = DOMAIN k \cup DOMAIN h /\ \A v \in DOMAIN k : m[v] = k[v]
  BY Over
<1>9. \A v \in DOMAIN g : v \notin DOMAIN f => k[v] = g[v]
  BY Over DEF k
<1> HIDE DEF m
<1>10. EnvGet(m, "USE_FAKER") = IF cfg.faker THEN Unset ELSE "false"
  <2>1. "USE_FAKER" \in DOMAIN m <=> "USE_FAKER" \in DOMAIN f
    BY <1>5, <1>6, <1>8
  <2>2. "USE_FAKER" \in DOMAIN f <=> ~cfg.faker
    BY <1>1 DEF EmptyEnv
  <2>3. "USE_FAKER" \in DOMAIN m => m["USE_FAKER"] = "false"
    BY <1>4, <1>6, <1>8, <2>1
  <2> QED BY <2>1, <2>2, <2>3 DEF EnvGet
<1>11. EnvGet(m, "FAKER_LOCALE") = cfg.locale
  <2>1. "FAKER_LOCALE" \in DOMAIN m <=> "FAKER_LOCALE" \in DOMAIN g
    BY <1>4, <1>5, <1>6, <1>8
  <2>2. "FAKER_LOCALE" \in DOMAIN g => m["FAKER_LOCALE"] = g["FAKER_LOCALE"]
    BY <1>4, <1>6, <1>8, <1>9
  <2>3. EnvGet(g, "FAKER_LOCALE") = cfg.locale
    BY <1>2 DEF EnvGet, Option, Bound, EmptyEnv
  <2> QED BY <2>1, <2>2, <2>3 DEF EnvGet
<1> QED BY <1>4, <1>5, <1>6, <1>7, <1>8, <1>10, <1>11 DEF SurrogateVariables

\* Each side that asked for it, and no other, is told of the Redis.
LEMMA RedisGet ==
    ASSUME NEW cfg, NEW started
    PROVE  LET f == RedisEnv(cfg, started)
               on == RedisName \in started
           IN /\ DOMAIN f \subseteq Sides
              /\ "VAULT_REDIS_URL" \in DOMAIN f <=> on /\ cfg.vaultSource = "service"
              /\ "CACHE_REDIS_URL" \in DOMAIN f <=> on /\ cfg.cacheSource = "service"
              /\ "VAULT_REDIS_URL" \in DOMAIN f => f["VAULT_REDIS_URL"] = VaultDb
              /\ "CACHE_REDIS_URL" \in DOMAIN f => f["CACHE_REDIS_URL"] = CacheDb
<1>1. CASE RedisName \notin started
  BY <1>1 DEF RedisEnv, EmptyEnv
<1>2. CASE RedisName \in started
  <2>1. PICK f : f = (IF cfg.vaultSource = "service" THEN [VAULT_REDIS_URL |-> VaultDb] ELSE EmptyEnv)
    OBVIOUS
  <2>2. PICK g : g = (IF cfg.cacheSource = "service" THEN [CACHE_REDIS_URL |-> CacheDb] ELSE EmptyEnv)
    OBVIOUS
  <2>3. /\ DOMAIN f = IF cfg.vaultSource = "service" THEN {"VAULT_REDIS_URL"} ELSE {}
        /\ cfg.vaultSource = "service" => f["VAULT_REDIS_URL"] = VaultDb
    BY <2>1 DEF EmptyEnv
  <2>4. /\ DOMAIN g = IF cfg.cacheSource = "service" THEN {"CACHE_REDIS_URL"} ELSE {}
        /\ cfg.cacheSource = "service" => g["CACHE_REDIS_URL"] = CacheDb
    BY <2>2 DEF EmptyEnv
  <2> DEFINE h == f ++ g
  <2>6. /\ DOMAIN h = DOMAIN f \cup DOMAIN g
        /\ \A v \in DOMAIN f : h[v] = f[v]
        /\ \A v \in DOMAIN g : v \notin DOMAIN f => h[v] = g[v]
    BY Over
  <2>7. RedisEnv(cfg, started) = h
    BY <1>2, <2>1, <2>2 DEF RedisEnv
  <2> HIDE DEF h
  <2> QED BY <1>2, <2>3, <2>4, <2>6, <2>7 DEF Sides
<1> QED BY <1>1, <1>2

\* What a started service tells the guardrail.
Told(d, x) == StartedAs(d, x).guardrailEnv

LEMMA ToldVariables ==
    ASSUME NEW d \in Remote, NEW x
    PROVE  /\ DOMAIN Told(d, x) \subseteq Passed(d)
           /\ DetectorUrl[d] \in DOMAIN Told(d, x)
           /\ Told(d, x)[DetectorUrl[d]] \in DOMAIN HostOf
           /\ HostOf[Told(d, x)[DetectorUrl[d]]] = StartedAs(d, x).container
           /\ \A v \in DOMAIN Told(d, x) : Told(d, x)[v] # Unset
           /\ \A v \in DOMAIN Told(d, x) : v = DetectorUrl[d] \/ (d = "llm" /\ v \in {"LLM_API_KEY", "LLM_MODEL"})
<1>1. DetectorUrl["llm"] = "LLM_API_BASE" /\ DetectorUrl["privacy_filter"] = "PRIVACY_FILTER_URL"
      /\ DetectorUrl["gliner_pii"] = "GLINER_PII_URL"
  BY DEF DetectorUrl
<1>2. /\ DOMAIN HostOf = {VaultDb, CacheDb, "http://privacy-filter-service:8001",
          "http://privacy-filter-hf-service:8003", "http://gliner-pii-service:8002",
          "http://fake-llm:4000/v1"}
      /\ HostOf["http://fake-llm:4000/v1"] = "fake-llm"
      /\ HostOf["http://gliner-pii-service:8002"] = "gliner-pii-service"
      /\ HostOf["http://privacy-filter-service:8001"] = "privacy-filter-service"
      /\ HostOf["http://privacy-filter-hf-service:8003"] = "privacy-filter-hf-service"
  BY DEF HostOf, VaultDb, CacheDb
<1>3. CASE d = "llm"
  <2>1. PICK t : t = Told(d, x)
    OBVIOUS
  <2>2. /\ DOMAIN t = {"LLM_API_BASE", "LLM_API_KEY", "LLM_MODEL"}
        /\ t["LLM_API_BASE"] = "http://fake-llm:4000/v1"
        /\ t["LLM_API_KEY"] = "any-non-empty" /\ t["LLM_MODEL"] = "fake"
    BY <1>3, <2>1, LlmStarted DEF Told
  <2>3. StartedAs(d, x).container = "fake-llm" /\ DOMAIN t \subseteq Passed(d)
    BY <1>3, <2>2, LlmStarted, PassedSets
  <2>4. \A v \in DOMAIN t : t[v] # Unset
    BY <2>2 DEF Unset
  <2> QED BY <1>1, <1>2, <1>3, <2>1, <2>2, <2>3, <2>4
<1>4. CASE d = "gliner_pii"
  <2>1. PICK t : t = Told(d, x)
    OBVIOUS
  <2>2. DOMAIN t = {"GLINER_PII_URL"} /\ t["GLINER_PII_URL"] = "http://gliner-pii-service:8002"
    BY <1>4, <2>1, GlinerStarted DEF Told
  <2>3. StartedAs(d, x).container = "gliner-pii-service" /\ DOMAIN t \subseteq Passed(d)
    BY <1>4, <2>2, GlinerStarted, PassedSets
  <2>4. \A v \in DOMAIN t : t[v] # Unset
    BY <2>2 DEF Unset
  <2> QED BY <1>1, <1>2, <1>4, <2>1, <2>2, <2>3, <2>4
<1>5. CASE d = "privacy_filter"
  <2>1. PICK t : t = Told(d, x)
    OBVIOUS
  <2>2. PICK c : c = StartedAs(d, x).container
    OBVIOUS
  <2>3. /\ DOMAIN t = {"PRIVACY_FILTER_URL"}
        /\ \/ c = "privacy-filter-service" /\ t["PRIVACY_FILTER_URL"] = "http://privacy-filter-service:8001"
           \/ c = "privacy-filter-hf-service"
              /\ t["PRIVACY_FILTER_URL"] = "http://privacy-filter-hf-service:8003"
    BY <1>5, <2>1, <2>2, PrivacyFilterStarted DEF Told
  <2> QED BY <1>1, <1>2, <1>5, <2>1, <2>2, <2>3, PassedSets DEF Unset
<1> QED BY <1>3, <1>4, <1>5 DEF Remote

\* What the operator set for a variable, in the configuration or around the launcher.
SetFor(cfg, environ, v) == Given(EnvGet(cfg.env, v), EnvGet(environ, v))
ToldFor(cfg, started, d, v, value) ==
  /\ d \in started \cap Remote
  /\ v \in DOMAIN Told(d, VariantOf(cfg, d)) /\ value = Told(d, VariantOf(cfg, d))[v]

\* The variables of one detector: those of its service if it was started, for
\* the others what the operator set.
LEMMA DetectorEnvGet ==
    ASSUME NEW cfg, NEW environ, NEW started \in SUBSET ServiceNames, NEW d \in Detectors
    PROVE  LET e == DetectorEnv(cfg, environ, started, d)
           IN /\ DOMAIN e \subseteq Passed(d)
              /\ \A v \in DOMAIN e : /\ e[v] # Unset
                                     /\ \/ e[v] = SetFor(cfg, environ, v)
                                        \/ ToldFor(cfg, started, d, v, e[v])
              /\ d \in started =>
                   \A v \in DOMAIN Told(d, VariantOf(cfg, d)) :
                     v \in DOMAIN e /\ e[v] = Told(d, VariantOf(cfg, d))[v]
<1>1. PICK x : x = VariantOf(cfg, d)
  OBVIOUS
<1>2. PICK f : f = Forwarded(cfg, environ, Passed(d))
  OBVIOUS
<1>3. /\ DOMAIN f \subseteq Passed(d)
      /\ \A v \in DOMAIN f : f[v] # Unset /\ f[v] = SetFor(cfg, environ, v)
  BY <1>2, ForwardedGet DEF SetFor
<1>4. CASE d \in started
  <2>1. d \in Remote /\ d # RedisName
    BY <1>4, DetectorNames DEF ServiceNames, RedisName, Remote
  <2>2. PICK t : t = Told(d, x)
    OBVIOUS
  <2>3. DOMAIN t \subseteq Passed(d) /\ \A v \in DOMAIN t : t[v] # Unset
    BY <2>1, <2>2, ToldVariables
  <2>4. StartedAs(d, x) # NoService /\ StartedAs(d, x) = ResolveService(LauncherMetadata[d], x)
    BY <2>1, LlmStarted, GlinerStarted, PrivacyFilterStarted DEF Remote, StartedAs
  <2> DEFINE h == t ++ f
  <2>5. DetectorEnv(cfg, environ, started, d) = h
    BY <1>1, <1>2, <1>4, <2>2, <2>4 DEF DetectorEnv, Told, Passed
  <2>6. /\ DOMAIN h = DOMAIN t \cup DOMAIN f
        /\ \A v \in DOMAIN t : h[v] = t[v]
        /\ \A v \in DOMAIN f : v \notin DOMAIN t => h[v] = f[v]
    BY Over
  <2> HIDE DEF h
  <2> QED BY <1>1, <1>3, <1>4, <2>1, <2>2, <2>3, <2>5, <2>6 DEF ToldFor
<1>5. CASE d \notin started
  <2>1. DetectorEnv(cfg, environ, started, d) = f
    BY <1>2, <1>5 DEF DetectorEnv, Passed
  <2> QED BY <1>3, <1>5, <2>1
<1> QED BY <1>4, <1>5

\* What each name of the mode adds.
LEMMA DetectorArgsGet ==
    ASSUME NEW cfg, IsList(cfg.mode), NEW environ, NEW started \in SUBSET ServiceNames
    PROVE  LET q == DetectorArgs(cfg, environ, started)
           IN /\ DOMAIN q = 1..Len(cfg.mode) /\ Len(cfg.mode) \in Nat
              /\ \A i \in 1..Len(cfg.mode) : \A v \in DOMAIN q[i] :
                   LET d == cfg.mode[i]
                   IN /\ d \in Detectors /\ v \in Passed(d) /\ q[i][v] # Unset
                      /\ \/ q[i][v] = SetFor(cfg, environ, v)
                         \/ ToldFor(cfg, started, d, v, q[i][v])
              /\ \A i \in 1..Len(cfg.mode) :
                   LET d == cfg.mode[i]
                   IN d \in started \cap Remote /\ (\A k \in 1..(i - 1) : cfg.mode[k] # d) =>
                        \A v \in DOMAIN Told(d, VariantOf(cfg, d)) :
                          v \in DOMAIN q[i] /\ q[i][v] = Told(d, VariantOf(cfg, d))[v]
<1>1. PICK q : q = DetectorArgs(cfg, environ, started)
  OBVIOUS
<1>2. DOMAIN q = 1..Len(cfg.mode) /\ Len(cfg.mode) \in Nat /\ DOMAIN cfg.mode = 1..Len(cfg.mode)
  BY <1>1 DEF DetectorArgs, IsList
<1>3. ASSUME NEW i \in 1..Len(cfg.mode)
      PROVE  LET d == cfg.mode[i]
             IN /\ d \notin Detectors => q[i] = EmptyEnv
                /\ d \in Detectors /\ (\E k \in 1..(i - 1) : cfg.mode[k] = d) =>
                     q[i] = Forwarded(cfg, environ, Passed(d))
                /\ d \in Detectors /\ (\A k \in 1..(i - 1) : cfg.mode[k] # d) =>
                     q[i] = DetectorEnv(cfg, environ, started, d)
  BY <1>1, <1>2 DEF DetectorArgs, Passed
<1>4. ASSUME NEW i \in 1..Len(cfg.mode), NEW v \in DOMAIN q[i]
      PROVE  LET d == cfg.mode[i]
             IN /\ d \in Detectors /\ v \in Passed(d) /\ q[i][v] # Unset
                /\ \/ q[i][v] = SetFor(cfg, environ, v)
                   \/ ToldFor(cfg, started, d, v, q[i][v])
  <2>1. PICK d : d = cfg.mode[i]
    OBVIOUS
  <2>2. d \in Detectors
    BY <1>3, <2>1 DEF EmptyEnv
  <2>3. CASE \E k \in 1..(i - 1) : cfg.mode[k] = d
    <3>1. q[i] = Forwarded(cfg, environ, Passed(d))
      BY <1>3, <2>1, <2>2, <2>3
    <3> QED BY <2>1, <2>2, <3>1, ForwardedGet DEF SetFor
  <2>4. CASE \A k \in 1..(i - 1) : cfg.mode[k] # d
    <3>1. q[i] = DetectorEnv(cfg, environ, started, d)
      BY <1>3, <2>1, <2>2, <2>4
    <3> QED BY <2>1, <2>2, <3>1, DetectorEnvGet
  <2> QED BY <2>3, <2>4
<1>5. ASSUME NEW i \in 1..Len(cfg.mode), cfg.mode[i] \in started \cap Remote,
             \A k \in 1..(i - 1) : cfg.mode[k] # cfg.mode[i]
      PROVE  \A v \in DOMAIN Told(cfg.mode[i], VariantOf(cfg, cfg.mode[i])) :
               v \in DOMAIN q[i] /\ q[i][v] = Told(cfg.mode[i], VariantOf(cfg, cfg.mode[i]))[v]
  <2>1. PICK d : d = cfg.mode[i]
    OBVIOUS
  <2>2. d \in Detectors /\ d \in started
    BY <1>5, <2>1, DetectorNames DEF Remote
  <2>3. PICK e : e = DetectorEnv(cfg, environ, started, d)
    OBVIOUS
  <2>4. \A v \in DOMAIN Told(d, VariantOf(cfg, d)) :
          v \in DOMAIN e /\ e[v] = Told(d, VariantOf(cfg, d))[v]
    BY <2>2, <2>3, DetectorEnvGet
  <2>5. q[i] = e
    BY <1>3, <1>5, <2>1, <2>2, <2>3
  <2> QED BY <2>1, <2>4, <2>5
<1> QED BY <1>1, <1>2, <1>4, <1>5

\* A list in which a name occurs has a first place for it.
LEMMA FirstPlace ==
    ASSUME NEW q, IsList(q), NEW d, \E i \in DOMAIN q : q[i] = d
    PROVE  \E i \in 1..Len(q) : q[i] = d /\ \A k \in 1..(i - 1) : q[k] # d
<1> DEFINE T == {i \in DOMAIN q : q[i] = d}
<1>1. T \in SUBSET Nat /\ T # {} /\ DOMAIN q = 1..Len(q) /\ Len(q) \in Nat
  BY DEF IsList
<1>2. PICK n \in T : \A k \in T : n <= k
  <2> HIDE DEF T
  <2> QED BY <1>1, LeastExists
<1>3. ASSUME NEW k \in 1..(n - 1) PROVE q[k] # d
  <2>1. n \in 1..Len(q) /\ k \in 1..Len(q) /\ ~(n <= k)
    BY <1>1, <1>3
  <2> QED BY <1>1, <1>2, <2>1
<1> QED BY <1>1, <1>2, <1>3

\* All the detectors together.
LEMMA DetectorsGet ==
    ASSUME NEW cfg, IsList(cfg.mode), NEW environ, NEW started \in SUBSET ServiceNames
    PROVE  LET b == LastBound(DetectorArgs(cfg, environ, started))
           IN /\ \A v \in DOMAIN b :
                   /\ b[v] # Unset
                   /\ \E d \in Detectors : /\ v \in Passed(d)
                                           /\ \/ b[v] = SetFor(cfg, environ, v)
                                              \/ ToldFor(cfg, started, d, v, b[v])
              /\ \A d \in started \cap Remote :
                   /\ Active(cfg, d) => DetectorUrl[d] \in DOMAIN b
                   /\ Undisputed(cfg, environ, d) =>
                        /\ DetectorUrl[d] \in DOMAIN b
                        /\ b[DetectorUrl[d]] = Told(d, VariantOf(cfg, d))[DetectorUrl[d]]
<1>1. PICK q : q = DetectorArgs(cfg, environ, started)
  OBVIOUS
<1>2. PICK N : N = Len(cfg.mode)
  OBVIOUS
<1>3. PICK b : b = LastBound(q)
  OBVIOUS
<1>4. /\ DOMAIN q = 1..N /\ N \in Nat
      /\ \A i \in 1..N : \A v \in DOMAIN q[i] :
           LET d == cfg.mode[i]
           IN /\ d \in Detectors /\ v \in Passed(d) /\ q[i][v] # Unset
              /\ \/ q[i][v] = SetFor(cfg, environ, v)
                 \/ ToldFor(cfg, started, d, v, q[i][v])
      /\ \A i \in 1..N :
           LET d == cfg.mode[i]
           IN d \in started \cap Remote /\ (\A k \in 1..(i - 1) : cfg.mode[k] # d) =>
                \A v \in DOMAIN Told(d, VariantOf(cfg, d)) :
                  v \in DOMAIN q[i] /\ q[i][v] = Told(d, VariantOf(cfg, d))[v]
  BY <1>1, <1>2, DetectorArgsGet
<1>5. /\ \A i \in 1..N : DOMAIN q[i] \subseteq DOMAIN b
      /\ \A v \in DOMAIN b : \E i \in 1..N : v \in DOMAIN q[i] /\ b[v] = q[i][v]
  BY <1>3, <1>4, LastBoundGet
<1>6. ASSUME NEW v \in DOMAIN b
      PROVE  /\ b[v] # Unset
             /\ \E d \in Detectors : /\ v \in Passed(d)
                                     /\ \/ b[v] = SetFor(cfg, environ, v)
                                        \/ ToldFor(cfg, started, d, v, b[v])
  <2>1. PICK i \in 1..N : v \in DOMAIN q[i] /\ b[v] = q[i][v]
    BY <1>5
  <2>2. PICK d : d = cfg.mode[i]
    OBVIOUS
  <2>3. /\ d \in Detectors /\ v \in Passed(d) /\ q[i][v] # Unset
        /\ \/ q[i][v] = SetFor(cfg, environ, v)
           \/ ToldFor(cfg, started, d, v, q[i][v])
    BY <1>4, <2>1, <2>2
  <2> QED BY <2>1, <2>3
<1>7. ASSUME NEW d \in started \cap Remote, Active(cfg, d)
      PROVE  \E i \in 1..N : /\ cfg.mode[i] = d /\ DetectorUrl[d] \in DOMAIN q[i]
                              /\ q[i][DetectorUrl[d]] = Told(d, VariantOf(cfg, d))[DetectorUrl[d]]
  <2>1. PICK i \in 1..N : cfg.mode[i] = d /\ \A k \in 1..(i - 1) : cfg.mode[k] # d
    BY <1>2, <1>7, FirstPlace DEF Active
  <2>2. DetectorUrl[d] \in DOMAIN Told(d, VariantOf(cfg, d))
    BY ToldVariables
  <2> QED BY <1>4, <2>1, <2>2
<1>8. ASSUME NEW d \in started \cap Remote, Active(cfg, d) PROVE DetectorUrl[d] \in DOMAIN b
  BY <1>5, <1>7, <1>8
<1>9. ASSUME NEW d \in started \cap Remote, Undisputed(cfg, environ, d)
      PROVE  /\ DetectorUrl[d] \in DOMAIN b
             /\ b[DetectorUrl[d]] = Told(d, VariantOf(cfg, d))[DetectorUrl[d]]
  <2>1. Active(cfg, d) /\ DOMAIN cfg.mode = 1..N
    BY <1>2, <1>9 DEF Undisputed, ListedOnce, Active, IsList
  <2>2. PICK t : t = Told(d, VariantOf(cfg, d))
    OBVIOUS
  <2>3. PICK i \in 1..N : /\ cfg.mode[i] = d /\ DetectorUrl[d] \in DOMAIN q[i]
                          /\ q[i][DetectorUrl[d]] = Told(d, VariantOf(cfg, d))[DetectorUrl[d]]
    BY <1>7, <2>1
  <2>4. DetectorUrl[d] \in DOMAIN b
    BY <1>8, <2>1
  <2>5. PICK k \in 1..N : DetectorUrl[d] \in DOMAIN q[k] /\ b[DetectorUrl[d]] = q[k][DetectorUrl[d]]
    BY <1>5, <2>4
  <2>6. cfg.mode[k] \in Detectors /\ DetectorUrl[d] \in Passed(cfg.mode[k])
    BY <1>4, <2>5
  <2>7. cfg.mode[k] = d
    BY <2>6, OwnVariables
  <2>8. CASE ListedOnce(cfg, d)
    <3>1. k = i
      BY <2>1, <2>3, <2>7, <2>8 DEF ListedOnce
    <3> QED BY <2>3, <2>4, <2>5, <3>1
  <2>9. CASE SetFor(cfg, environ, DetectorUrl[d]) = Unset
    <3>1. /\ q[k][DetectorUrl[d]] # Unset
          /\ \/ q[k][DetectorUrl[d]] = SetFor(cfg, environ, DetectorUrl[d])
             \/ ToldFor(cfg, started, d, DetectorUrl[d], q[k][DetectorUrl[d]])
      BY <1>4, <2>5, <2>7
    <3>2. q[k][DetectorUrl[d]] = t[DetectorUrl[d]]
      BY <2>2, <2>9, <3>1 DEF ToldFor
    <3> QED BY <2>2, <2>4, <2>5, <3>2
  <2> QED BY <1>9, <2>8, <2>9 DEF Undisputed, SetFor
<1> QED BY <1>1, <1>3, <1>6, <1>8, <1>9

\* Where the variables of the guardrail come from, unless the operator adds
\* arguments of their own.
LEMMA GuardrailEnvGet ==
    ASSUME NEW cfg, IsList(cfg.mode), cfg.extra = EmptyEnv, NEW environ,
           NEW started \in SUBSET ServiceNames
    PROVE  LET e == GuardrailEnv(cfg, environ, started)
               b == LastBound(DetectorArgs(cfg, environ, started))
               r == RedisEnv(cfg, started)
           IN /\ \A d \in Detectors : \A v \in Passed(d) :
                   /\ v \in DOMAIN e <=> v \in DOMAIN b
                   /\ v \in DOMAIN b => e[v] = b[v]
              /\ \A v \in DOMAIN r : v \in DOMAIN e /\ e[v] = r[v]
              /\ \A v \in CrossCutting \ DOMAIN r : EnvGet(e, v) = SetFor(cfg, environ, v)
              /\ \A v \in SurrogateVariables : EnvGet(e, v) = EnvGet(SurrogateEnv(cfg), v)
              /\ \A v \in DOMAIN e :
                   \/ v \in SurrogateVariables /\ (v = "USE_FAKER" => e[v] = "false")
                   \/ v \in DOMAIN r
                   \/ e[v] # Unset /\ e[v] = SetFor(cfg, environ, v)
                   \/ \E d \in Detectors : ToldFor(cfg, started, d, v, e[v])
<1>1. PICK s : s = SurrogateEnv(cfg)
  OBVIOUS
<1>2. PICK r : r = RedisEnv(cfg, started)
  OBVIOUS
<1>3. PICK b : b = LastBound(DetectorArgs(cfg, environ, started))
  OBVIOUS
<1>4. PICK k : k = Forwarded(cfg, environ, CrossCutting)
  OBVIOUS
<1>5. PICK x : x = cfg.extra
  OBVIOUS
<1>6. DOMAIN x = {}
  BY <1>5 DEF EmptyEnv
<1>7. /\ DOMAIN s \subseteq SurrogateVariables
      /\ "USE_FAKER" \in DOMAIN s => s["USE_FAKER"] = "false"
  BY <1>1, SurrogateGet
<1>8. DOMAIN r \subseteq Sides
  BY <1>2, RedisGet
<1>9. \A v \in DOMAIN b :
        /\ b[v] # Unset
        /\ \E d \in Detectors : /\ v \in Passed(d)
                                /\ \/ b[v] = SetFor(cfg, environ, v)
                                   \/ ToldFor(cfg, started, d, v, b[v])
  BY <1>3, DetectorsGet
<1>10. /\ DOMAIN k \subseteq CrossCutting
       /\ \A v \in DOMAIN k : k[v] # Unset /\ k[v] = SetFor(cfg, environ, v)
       /\ \A v \in CrossCutting : EnvGet(k, v) = SetFor(cfg, environ, v)
  BY <1>4, ForwardedGet DEF SetFor
<1>11. /\ \A d \in Detectors : Passed(d) \cap (CrossCutting \cup SurrogateVariables) = {}
       /\ Sides \subseteq CrossCutting /\ CrossCutting \cap SurrogateVariables = {}
  BY OwnVariables
<1> DEFINE xs == x ++ s
           xsr == xs ++ r
           xsrb == xsr ++ b
           e == xsrb ++ k
<1>12. GuardrailEnv(cfg, environ, started) = e
  BY <1>1, <1>2, <1>3, <1>4, <1>5 DEF GuardrailEnv
<1>13. /\ DOMAIN e = DOMAIN x \cup DOMAIN s \cup DOMAIN r \cup DOMAIN b \cup DOMAIN k
       /\ \A v \in DOMAIN s \ DOMAIN x : e[v] = s[v]
       /\ \A v \in DOMAIN r \ (DOMAIN x \cup DOMAIN s) : e[v] = r[v]
       /\ \A v \in DOMAIN b \ (DOMAIN x \cup DOMAIN s \cup DOMAIN r) : e[v] = b[v]
       /\ \A v \in DOMAIN k \ (DOMAIN x \cup DOMAIN s \cup DOMAIN r \cup DOMAIN b) : e[v] = k[v]
  <2>1. /\ DOMAIN xs = DOMAIN x \cup DOMAIN s
        /\ \A v \in DOMAIN x : xs[v] = x[v]
        /\ \A v \in DOMAIN s : v \notin DOMAIN x => xs[v] = s[v]
    BY Over
  <2> HIDE DEF xs
  <2>2. /\ DOMAIN xsr = DOMAIN xs \cup DOMAIN r
        /\ \A v \in DOMAIN xs : xsr[v] = xs[v]
        /\ \A v \in DOMAIN r : v \notin DOMAIN xs => xsr[v] = r[v]
    BY Over
  <2> HIDE DEF xsr
  <2>3. /\ DOMAIN xsrb = DOMAIN xsr \cup DOMAIN b
        /\ \A v \in DOMAIN xsr : xsrb[v] = xsr[v]
        /\ \A v \in DOMAIN b : v \notin DOMAIN xsr => xsrb[v] = b[v]
    BY Over
  <2> HIDE DEF xsrb
  <2>4. /\ DOMAIN e = DOMAIN xsrb \cup DOMAIN k
        /\ \A v \in DOMAIN xsrb : e[v] = xsrb[v]
        /\ \A v \in DOMAIN k : v \notin DOMAIN xsrb => e[v] = k[v]
    BY Over
  <2> HIDE DEF e
  <2> QED BY <2>1, <2>2, <2>3, <2>4
<1> HIDE DEF e
<1>14. ASSUME NEW d \in Detectors, NEW v \in Passed(d)
       PROVE  (v \in DOMAIN e <=> v \in DOMAIN b) /\ (v \in DOMAIN b => e[v] = b[v])
  <2>1. v \notin DOMAIN x /\ v \notin DOMAIN s /\ v \notin DOMAIN r /\ v \notin DOMAIN k
    BY <1>6, <1>7, <1>8, <1>10, <1>11
  <2> QED BY <1>13, <2>1
<1>15. \A v \in DOMAIN b : v \notin CrossCutting
  BY <1>9, <1>11
<1>16. ASSUME NEW v \in DOMAIN r PROVE v \in DOMAIN e /\ e[v] = r[v]
  <2>1. v \notin DOMAIN x /\ v \notin DOMAIN s
    BY <1>6, <1>7, <1>8, <1>11
  <2> QED BY <1>13, <2>1
<1>17. ASSUME NEW v \in CrossCutting \ DOMAIN r PROVE EnvGet(e, v) = SetFor(cfg, environ, v)
  <2>1. v \notin DOMAIN x /\ v \notin DOMAIN s /\ v \notin DOMAIN b
    BY <1>6, <1>7, <1>11, <1>15
  <2>2. (v \in DOMAIN e <=> v \in DOMAIN k) /\ (v \in DOMAIN k => e[v] = k[v])
    BY <1>13, <2>1
  <2>3. EnvGet(e, v) = EnvGet(k, v)
    BY <2>2 DEF EnvGet
  <2> QED BY <1>10, <2>3
<1>18. ASSUME NEW v \in DOMAIN e
       PROVE  \/ v \in SurrogateVariables /\ (v = "USE_FAKER" => e[v] = "false")
              \/ v \in DOMAIN r
              \/ e[v] # Unset /\ e[v] = SetFor(cfg, environ, v)
              \/ \E d \in Detectors : ToldFor(cfg, started, d, v, e[v])
  <2>1. CASE v \in DOMAIN s
    BY <1>6, <1>7, <1>13, <2>1
  <2>2. CASE v \in DOMAIN b
    BY <1>9, <1>14, <2>2
  <2>3. CASE v \in DOMAIN k /\ v \notin DOMAIN r /\ v \notin DOMAIN s /\ v \notin DOMAIN b
    BY <1>6, <1>10, <1>13, <2>3
  <2> QED BY <1>6, <1>13, <2>1, <2>2, <2>3
<1>19. ASSUME NEW v \in SurrogateVariables PROVE EnvGet(e, v) = EnvGet(s, v)
  <2>1. v \notin DOMAIN x /\ v \notin DOMAIN r /\ v \notin DOMAIN b /\ v \notin DOMAIN k
    BY <1>6, <1>8, <1>9, <1>10, <1>11
  <2>2. (v \in DOMAIN e <=> v \in DOMAIN s) /\ (v \in DOMAIN s => e[v] = s[v])
    BY <1>13, <2>1
  <2> QED BY <2>2 DEF EnvGet
<1> QED BY <1>1, <1>2, <1>3, <1>12, <1>14, <1>16, <1>17, <1>18, <1>19
-----------------------------------------------------------------------------
(* The wiring.                                                               *)

\* A side is told of the Redis this launch started if it asked for the service,
\* and is left what the operator set if not.
LEMMA SideGet ==
    ASSUME NEW cfg, IsList(cfg.mode), cfg.extra = EmptyEnv, NEW environ,
           NEW started \in SUBSET ServiceNames
    PROVE  LET e == GuardrailEnv(cfg, environ, started)
               on == RedisName \in started
           IN /\ EnvGet(e, "VAULT_REDIS_URL") = IF on /\ cfg.vaultSource = "service" THEN VaultDb
                                                ELSE SetFor(cfg, environ, "VAULT_REDIS_URL")
              /\ EnvGet(e, "CACHE_REDIS_URL") = IF on /\ cfg.cacheSource = "service" THEN CacheDb
                                                ELSE SetFor(cfg, environ, "CACHE_REDIS_URL")
              /\ on /\ cfg.vaultSource = "service" => e["VAULT_REDIS_URL"] = VaultDb
              /\ on /\ cfg.cacheSource = "service" => e["CACHE_REDIS_URL"] = CacheDb
<1>1. PICK e : e = GuardrailEnv(cfg, environ, started)
  OBVIOUS
<1>2. PICK r : r = RedisEnv(cfg, started)
  OBVIOUS
<1>3. /\ \A v \in DOMAIN r : v \in DOMAIN e /\ e[v] = r[v]
      /\ \A v \in CrossCutting \ DOMAIN r : EnvGet(e, v) = SetFor(cfg, environ, v)
  BY <1>1, <1>2, GuardrailEnvGet
<1>4. LET on == RedisName \in started
      IN /\ "VAULT_REDIS_URL" \in DOMAIN r <=> on /\ cfg.vaultSource = "service"
         /\ "CACHE_REDIS_URL" \in DOMAIN r <=> on /\ cfg.cacheSource = "service"
         /\ "VAULT_REDIS_URL" \in DOMAIN r => r["VAULT_REDIS_URL"] = VaultDb
         /\ "CACHE_REDIS_URL" \in DOMAIN r => r["CACHE_REDIS_URL"] = CacheDb
  BY <1>2, RedisGet
<1>5. "VAULT_REDIS_URL" \in CrossCutting /\ "CACHE_REDIS_URL" \in CrossCutting
  BY DEF CrossCutting
<1>6. \A v \in DOMAIN e : EnvGet(e, v) = e[v]
  BY DEF EnvGet
<1> QED BY <1>1, <1>3, <1>4, <1>5, <1>6

LEMMA RedisHosts ==
    /\ VaultDb # CacheDb /\ VaultDb # Unset /\ CacheDb # Unset
    /\ VaultDb \in DOMAIN HostOf /\ HostOf[VaultDb] = "anonymizer-redis"
    /\ CacheDb \in DOMAIN HostOf /\ HostOf[CacheDb] = "anonymizer-redis"
    /\ \A x : StartedAs(RedisName, x).container = "anonymizer-redis"
<1>1. VaultDb # CacheDb /\ VaultDb # Unset /\ CacheDb # Unset
  BY DEF VaultDb, CacheDb, Unset
<1>2. \A x : StartedAs(RedisName, x).container = "anonymizer-redis"
  BY DEF StartedAs, RedisService, Service
<1>3. VaultDb \in DOMAIN HostOf /\ CacheDb \in DOMAIN HostOf
  BY DEF HostOf
<1>4. HostOf[VaultDb] = "anonymizer-redis" /\ HostOf[CacheDb] = "anonymizer-redis"
  BY DEF HostOf, VaultDb, CacheDb
<1> QED BY <1>1, <1>2, <1>3, <1>4

\* The invariant gives the wiring.
LEMMA WiringFollows == LaunchInv => GuardrailWired
<1> SUFFICES ASSUME LaunchInv, NEW l \in Launches, At(l, "serving"), run[l].cfg.extra = EmptyEnv
             PROVE  LET r == run[l]
                        Side(source, v) ==
                          IF source = "service" /\ RedisName \in r.started
                          THEN Dialled(r, v) = {r.made[RedisName]}
                          ELSE EnvGet(r.env, v) = Given(EnvGet(r.cfg.env, v), EnvGet(host.environ, v))
                    IN /\ \A d \in r.started \ {RedisName} :
                            Undisputed(r.cfg, host.environ, d) => Dialled(r, DetectorUrl[d]) = {r.made[d]}
                       /\ Side(r.cfg.vaultSource, "VAULT_REDIS_URL")
                       /\ Side(r.cfg.cacheSource, "CACHE_REDIS_URL")
                       /\ {r.cfg.vaultSource, r.cfg.cacheSource} = {"service"} /\ RedisName \in r.started =>
                            r.env["VAULT_REDIS_URL"] # r.env["CACHE_REDIS_URL"]
  BY DEF GuardrailWired
<1>1. PICK r : r = run[l]
  OBVIOUS
<1>2. PICK cfg : cfg = r.cfg
  OBVIOUS
<1>3. PICK started : started = r.started
  OBVIOUS
<1>4. /\ IsRun(r) /\ ConfigOk(cfg) /\ cfg.extra = EmptyEnv
      /\ r.env = GuardrailEnv(cfg, host.environ, started)
      /\ \A n \in started : MadeFor(r, n)
  BY <1>1, <1>2, <1>3 DEF LaunchInv, RunOk, At
<1>5. started \in SUBSET ServiceNames /\ IsList(cfg.mode)
  BY <1>3, <1>4 DEF IsRun, ConfigOk
<1>6. \A n \in started : r.made[n] = StartedAs(n, VariantOf(cfg, n)).container
  BY <1>2, <1>4 DEF MadeFor
<1>7. ASSUME NEW d \in started \ {RedisName}, Undisputed(cfg, host.environ, d)
      PROVE  Dialled(r, DetectorUrl[d]) = {r.made[d]}
  <2>1. d \in started \cap Remote /\ d \in Detectors
    BY <1>5, DetectorNames DEF ServiceNames, Remote
  <2>2. PICK b : b = LastBound(DetectorArgs(cfg, host.environ, started))
    OBVIOUS
  <2>3. PICK t : t = Told(d, VariantOf(cfg, d))
    OBVIOUS
  <2>4. DetectorUrl[d] \in DOMAIN b /\ b[DetectorUrl[d]] = t[DetectorUrl[d]]
    BY <1>5, <1>7, <2>1, <2>2, <2>3, DetectorsGet
  <2>5. DetectorUrl[d] \in Passed(d)
    BY <2>1, OwnVariables
  <2>6. DetectorUrl[d] \in DOMAIN r.env /\ r.env[DetectorUrl[d]] = t[DetectorUrl[d]]
    BY <1>4, <1>5, <2>1, <2>2, <2>4, <2>5, GuardrailEnvGet
  <2>7. t[DetectorUrl[d]] \in DOMAIN HostOf /\ HostOf[t[DetectorUrl[d]]] = r.made[d]
    BY <1>6, <2>1, <2>3, ToldVariables
  <2> QED BY <1>3, <2>1, <2>6, <2>7 DEF Dialled, EnvGet, OnSharedNetwork
<1>8. LET e == r.env
          on == RedisName \in started
      IN /\ EnvGet(e, "VAULT_REDIS_URL") = IF on /\ cfg.vaultSource = "service" THEN VaultDb
                                           ELSE SetFor(cfg, host.environ, "VAULT_REDIS_URL")
         /\ EnvGet(e, "CACHE_REDIS_URL") = IF on /\ cfg.cacheSource = "service" THEN CacheDb
                                           ELSE SetFor(cfg, host.environ, "CACHE_REDIS_URL")
         /\ on /\ cfg.vaultSource = "service" => e["VAULT_REDIS_URL"] = VaultDb
         /\ on /\ cfg.cacheSource = "service" => e["CACHE_REDIS_URL"] = CacheDb
  BY <1>4, <1>5, SideGet
<1>9. RedisName \in started => r.made[RedisName] = "anonymizer-redis" /\ OnSharedNetwork(started)
  BY <1>6, RedisHosts DEF OnSharedNetwork
<1>10. IF cfg.vaultSource = "service" /\ RedisName \in started
       THEN Dialled(r, "VAULT_REDIS_URL") = {r.made[RedisName]}
       ELSE EnvGet(r.env, "VAULT_REDIS_URL") = SetFor(cfg, host.environ, "VAULT_REDIS_URL")
  BY <1>3, <1>8, <1>9, RedisHosts DEF Dialled
<1>11. IF cfg.cacheSource = "service" /\ RedisName \in started
       THEN Dialled(r, "CACHE_REDIS_URL") = {r.made[RedisName]}
       ELSE EnvGet(r.env, "CACHE_REDIS_URL") = SetFor(cfg, host.environ, "CACHE_REDIS_URL")
  BY <1>3, <1>8, <1>9, RedisHosts DEF Dialled
<1>12. {cfg.vaultSource, cfg.cacheSource} = {"service"} /\ RedisName \in started =>
         r.env["VAULT_REDIS_URL"] # r.env["CACHE_REDIS_URL"]
  BY <1>8, RedisHosts
<1> QED BY <1>1, <1>2, <1>3, <1>7, <1>10, <1>11, <1>12 DEF SetFor

\* The guardrail dials the containers its launch ran for it: for a detector of
\* the mode the one of its variant, unless it is named twice and the operator set
\* its URL, and the Redis for each side that asked for the service, in a database
\* of its own, and no other side (build_run_argv, start_redis).
THEOREM WiredToOwn == Spec => []GuardrailWired
<1>1. LaunchInv => GuardrailWired
  BY WiringFollows
<1> QED BY <1>1, LaunchInvariant, PTL
-----------------------------------------------------------------------------
(* The configurations of the menu.                                           *)

LEMMA DefaultMenuOk == MenuConfig(DefaultConfig)
<1>1. PICK c : c = DefaultConfig
  OBVIOUS
<1>2. c.flavour = "default" /\ c.extra = EmptyEnv /\ c.env = EmptyEnv
      /\ c.vaultSource = Unset /\ c.cacheSource = Unset
  BY <1>1 DEF DefaultConfig
<1>3. DOMAIN c.env = {} /\ \A v : EnvGet(c.env, v) = Unset
  BY <1>2 DEF EmptyEnv, EnvGet
<1>4. Unset # Redis
  BY DEF Unset, Redis
<1>5. ~CacheIsRedis(c)
  BY <1>3, <1>4 DEF CacheIsRedis, Redis
<1> QED BY <1>1, <1>2, <1>3, <1>4, <1>5 DEF MenuConfig, BackendChoices

\* A step that leaves the configuration, and leaves the menu only to end or
\* with a valid one.
Kept(r, s) ==
  /\ s.cfg = r.cfg
  /\ \/ s.phase = r.phase
     \/ r.phase \notin {"idle", "menu", "ended"}
     \/ r.phase = "menu" /\ (s.phase = "ended" \/ Valid(r.cfg))

LEMMA KeptMenu ==
    ASSUME NEW l, MenuRunOk(l), UNCHANGED host, Kept(run[l], run'[l])
    PROVE  MenuRunOk(l)'
<1>1. PICK r : r = run[l]
  OBVIOUS
<1>2. PICK s : s = run'[l]
  OBVIOUS
<1>3. PICK f : f = host.flags
  OBVIOUS
<1>4. f = host'.flags
  BY <1>3
<1>5. /\ r.phase # "idle" => l \in DOMAIN f
      /\ r.phase # "idle" /\ f[l].menu => MenuConfig(r.cfg)
      /\ r.phase \notin {"idle", "menu", "ended"} /\ f[l].menu => Valid(r.cfg)
  BY <1>1, <1>3 DEF MenuRunOk
<1>6. Kept(r, s)
  BY <1>1, <1>2
<1>7. /\ s.phase # "idle" => l \in DOMAIN f
      /\ s.phase # "idle" /\ f[l].menu => MenuConfig(s.cfg)
      /\ s.phase \notin {"idle", "menu", "ended"} /\ f[l].menu => Valid(s.cfg)
  BY <1>5, <1>6 DEF Kept
<1> QED BY <1>2, <1>4, <1>7 DEF MenuRunOk

\* One launch moves; what it makes of its configuration is what is to be shown.
LEMMA SetMenu ==
    ASSUME LaunchInv, MenuInv, NEW l \in Launches, NEW s, Set(l, s), MenuRunOk(l)'
    PROVE  MenuInv'
<1>1. host' = host /\ \A m \in Launches : m # l => run'[m] = run[m]
  BY DEF Set, LaunchInv
<1>2. ASSUME NEW m \in Launches, m # l PROVE MenuRunOk(m)'
  BY <1>1, <1>2, KeptMenu DEF MenuInv, Kept
<1> QED BY <1>2 DEF MenuInv

LEMMA SetKept ==
    ASSUME LaunchInv, MenuInv, NEW l \in Launches, NEW r, r = run[l], NEW s, Set(l, s), Kept(r, s)
    PROVE  MenuInv'
<1>1. host' = host /\ run'[l] = s
  BY DEF Set, LaunchInv
<1>2. MenuRunOk(l)'
  BY <1>1, KeptMenu DEF MenuInv
<1> QED BY <1>2, SetMenu

LEMMA BeginMenu ==
    ASSUME LaunchInv, MenuInv, NEW l \in Launches, Begin(l)
    PROVE  MenuInv'
<1>1. l \in DOMAIN host.flags /\ run[l].phase = "idle"
  BY DEF Begin, At
<1>2. CASE host.flags[l].menu
  <2>1. PICK s : s = [Idle EXCEPT !.phase = "menu"]
    OBVIOUS
  <2>2. Set(l, s)
    BY <1>2, <2>1 DEF Begin, Step
  <2>3. s.phase = "menu" /\ s.cfg = DefaultConfig
    BY <2>1 DEF Idle
  <2>4. run'[l] = s /\ host' = host
    BY <2>2 DEF Set, LaunchInv
  <2>5. MenuRunOk(l)'
    BY <1>1, <2>3, <2>4, DefaultMenuOk DEF MenuRunOk
  <2> QED BY <2>2, <2>5, SetMenu
<1>3. CASE ~host.flags[l].menu
  <2>1. \E s : Set(l, s)
    BY <1>3 DEF Begin, Goto, Step
  <2>2. PICK s : Set(l, s)
    BY <2>1
  <2>3. host' = host
    BY <2>2 DEF Set
  <2>4. MenuRunOk(l)'
    BY <1>1, <1>3, <2>3 DEF MenuRunOk
  <2> QED BY <2>2, <2>4, SetMenu
<1> QED BY <1>2, <1>3

LEMMA EditMenu ==
    ASSUME LaunchInv, MenuInv, NEW l \in Launches, NEW key, Edit(l, key)
    PROVE  MenuInv'
<1>1. PICK r : r = run[l]
  OBVIOUS
<1>2. RunOk(r) /\ r.phase = "menu"
  BY <1>1 DEF LaunchInv, Edit, At
<1>3. PICK cfg \in EditSetting(r.cfg, key) : Step(l, [r EXCEPT !.cfg = cfg])
  BY <1>1 DEF Edit
<1>4. key \in AllRows
  BY RowNames DEF Edit
<1>5. PICK s : s = [r EXCEPT !.cfg = cfg]
  OBVIOUS
<1>6. s.phase = "menu" /\ s.cfg = cfg
  BY <1>2, <1>5 DEF RunOk, IsRun
<1>7. Set(l, s)
  BY <1>3, <1>5 DEF Step
<1>8. run'[l] = s /\ host' = host
  BY <1>7 DEF Set, LaunchInv
<1>9. ASSUME MenuConfig(r.cfg) PROVE MenuConfig(cfg)
  BY <1>2, <1>3, <1>4, <1>9, EditForms, EditMenuOk DEF RunOk
<1>10. MenuRunOk(l)'
  BY <1>1, <1>2, <1>6, <1>8, <1>9 DEF MenuInv, MenuRunOk
<1> QED BY <1>7, <1>10, SetMenu

LEMMA LaunchMenu ==
    ASSUME LaunchInv, MenuInv, NEW l \in Launches, Launch(l)
    PROVE  MenuInv'
<1>1. PICK r : r = run[l]
  OBVIOUS
<1>2. ConfigOk(r.cfg) /\ r.phase = "menu" /\ Valid(r.cfg)
  BY <1>1 DEF LaunchInv, RunOk, Launch, At
<1>3. PICK s : s = Prepared(Idle, r.cfg)
  OBVIOUS
<1>4. s.cfg = r.cfg
  BY <1>2, <1>3, PreparedOk
<1>5. Set(l, s) /\ Kept(r, s)
  BY <1>1, <1>2, <1>3, <1>4 DEF Launch, Step, Kept
<1> QED BY <1>1, <1>5, SetKept

LEMMA GotoMenu ==
    ASSUME LaunchInv, MenuInv, NEW l \in Launches, NEW p, Goto(l, p),
           run[l].phase # "idle", p = "ended" \/ run[l].phase \notin {"menu", "ended"}
    PROVE  MenuInv'
<1>1. PICK r : r = run[l]
  OBVIOUS
<1>2. PICK s : s = [r EXCEPT !.phase = p]
  OBVIOUS
<1>3. Set(l, s) /\ IsRun(r)
  BY <1>1, <1>2 DEF Goto, Step, LaunchInv, RunOk
<1>4. s.cfg = r.cfg /\ s.phase = p
  BY <1>2, <1>3 DEF IsRun
<1>5. Kept(r, s)
  BY <1>1, <1>4 DEF Kept
<1> QED BY <1>1, <1>3, <1>5, SetKept

\* From the services on a launch keeps its configuration.
LEMMA WorkMenu ==
    ASSUME LaunchInv, MenuInv, NEW l \in Launches,
           \/ Look(l) \/ Reap(l) \/ Create(l) \/ Wait(l) \/ RunGuardrail(l) \/ Stop(l)
           \/ RemoveStopped(l) \/ EngineFails(l) \/ GuardrailEnds(l)
    PROVE  MenuInv'
<1>1. PICK r : r = run[l]
  OBVIOUS
<1>2. IsRun(r)
  BY <1>1 DEF LaunchInv, RunOk
<1>3. r.phase \notin {"idle", "menu", "ended"}
  BY <1>1 DEF Look, Reap, Create, Wait, RunGuardrail, Stop, RemoveStopped, EngineFails,
              GuardrailEnds, At
<1>4. ASSUME NEW s, Set(l, s), s.cfg = r.cfg PROVE MenuInv'
  BY <1>1, <1>3, <1>4, SetKept DEF Kept
<1>5. ASSUME NEW p, Goto(l, p) PROVE MenuInv'
  BY <1>1, <1>3, <1>5, GotoMenu
<1>6. CASE Look(l)
  <2>1. ASSUME NEW x, Step(l, [r EXCEPT !.todo = x]) PROVE MenuInv'
    BY <1>2, <1>4, <2>1 DEF Step, IsRun
  <2>2. ASSUME NEW x, Step(l, [r EXCEPT !.phase = "guardrail", !.registered = x]) PROVE MenuInv'
    BY <1>2, <1>4, <2>2 DEF Step, IsRun
  <2> QED BY <1>1, <1>5, <1>6, <2>1, <2>2 DEF Look
<1>7. CASE Reap(l)
  BY <1>1, <1>2, <1>4, <1>7 DEF Reap, IsRun
<1>8. CASE Create(l) \/ EngineFails(l)
  <2>1. ASSUME NEW x, NEW y, NEW w, NEW z,
               Set(l, [r EXCEPT !.phase = x, !.waited = y, !.started = w, !.made = z])
        PROVE  MenuInv'
    BY <1>2, <1>4, <2>1 DEF IsRun
  <2>2. ASSUME Set(l, [r EXCEPT !.phase = "ended"]) PROVE MenuInv'
    BY <1>2, <1>4, <2>2 DEF IsRun
  <2> QED BY <1>1, <1>5, <1>8, <2>1, <2>2 DEF Create, EngineFails, Abort
<1>9. CASE Wait(l)
  <2>1. ASSUME NEW x, NEW y, Step(l, [r EXCEPT !.phase = x, !.todo = y]) PROVE MenuInv'
    BY <1>2, <1>4, <2>1 DEF Step, IsRun
  <2>2. ASSUME NEW x, Step(l, [r EXCEPT !.waited = x]) PROVE MenuInv'
    BY <1>2, <1>4, <2>2 DEF Step, IsRun
  <2> QED BY <1>1, <1>5, <1>9, <2>1, <2>2 DEF Wait, Abort
<1>10. CASE RunGuardrail(l) \/ GuardrailEnds(l)
  <2>1. ASSUME Set(l, AfterRun(r)) PROVE MenuInv'
    BY <1>2, <1>4, <2>1 DEF AfterRun, IsRun
  <2>2. ASSUME NEW x, Set(l, [r EXCEPT !.phase = "serving", !.env = x]) PROVE MenuInv'
    BY <1>2, <1>4, <2>2 DEF IsRun
  <2> QED BY <1>1, <1>10, <2>1, <2>2 DEF RunGuardrail, GuardrailEnds, Step
<1>11. CASE Stop(l) \/ RemoveStopped(l)
  <2>1. ASSUME NEW x, NEW y, Set(l, [r EXCEPT !.phase = x, !.todo = y]) PROVE MenuInv'
    BY <1>2, <1>4, <2>1 DEF IsRun
  <2>2. ASSUME NEW x, Set(l, [r EXCEPT !.todo = x]) PROVE MenuInv'
    BY <1>2, <1>4, <2>2 DEF IsRun
  <2>3. ASSUME NEW x, Set(l, [r EXCEPT !.phase = x]) PROVE MenuInv'
    BY <1>2, <1>4, <2>3 DEF IsRun
  <2> QED BY <1>1, <1>5, <1>11, <2>1, <2>2, <2>3 DEF Stop, RemoveStopped, Step
<1> QED BY <1>6, <1>7, <1>8, <1>9, <1>10, <1>11

LEMMA StillMenu ==
    ASSUME MenuInv, UNCHANGED <<host, run>>
    PROVE  MenuInv'
<1>1. ASSUME NEW l \in Launches PROVE MenuRunOk(l)'
  BY KeptMenu DEF MenuInv, Kept
<1> QED BY <1>1 DEF MenuInv

LEMMA MenuStep ==
    ASSUME LaunchInv, MenuInv, [Next]_vars
    PROVE  MenuInv'
<1>1. ASSUME NEW l \in Launches, Progress(l) PROVE MenuInv'
  BY <1>1, BeginMenu, WorkMenu DEF Progress
<1>2. ASSUME NEW l \in Launches, Launch(l) PROVE MenuInv'
  BY <1>2, LaunchMenu
<1>3. ASSUME NEW l \in Launches, Quit(l) PROVE MenuInv'
  BY <1>3, GotoMenu DEF Quit, At
<1>4. ASSUME NEW l \in Launches, EngineFails(l) \/ GuardrailEnds(l) PROVE MenuInv'
  BY <1>4, WorkMenu
<1>5. ASSUME NEW l \in Launches, Kill(l) PROVE MenuInv'
  BY <1>5, GotoMenu DEF Kill, Abort
<1>6. ASSUME NEW l \in Launches, NEW key \in host.rows, Edit(l, key) PROVE MenuInv'
  BY <1>6, EditMenu
<1>7. ASSUME NEW l \in Launches, Up(l) PROVE MenuInv'
  BY <1>7, StillMenu DEF Up
<1>8. ASSUME NEW c \in Containers, Ready(c) \/ Crash(c) PROVE MenuInv'
  BY <1>8, StillMenu DEF Ready, Crash
<1>9. CASE UNCHANGED vars
  BY <1>9, StillMenu DEF vars
<1> QED BY <1>1, <1>2, <1>3, <1>4, <1>5, <1>6, <1>7, <1>8, <1>9 DEF Next

LEMMA InitMenu ==
    ASSUME Init
    PROVE  MenuInv
<1>1. Idle.phase = "idle"
  BY DEF Idle
<1> QED BY <1>1 DEF Init, MenuInv, MenuRunOk

LEMMA MenuInvariant == Spec => []MenuInv
<1>1. Init => MenuInv
  BY InitMenu
<1>2. LaunchInv /\ MenuInv /\ [Next]_vars => MenuInv'
  BY MenuStep
<1> QED BY <1>1, <1>2, LaunchInvariant, PTL DEF Spec
-----------------------------------------------------------------------------
(* What the guardrail is started with from the menu.                         *)

LEMMA LiteralsGet ==
    /\ DOMAIN Literals =
         {"LLM_INPUT_MODE", "PRIVACY_FILTER_INPUT_MODE", "GLINER_PII_INPUT_MODE",
          "LLM_CACHE_BACKEND", "PRIVACY_FILTER_CACHE_BACKEND", "GLINER_PII_CACHE_BACKEND",
          "VAULT_BACKEND", "PIPELINE_CACHE_BACKEND", "STREAMING_FAKER_MODE",
          "REGEX_OVERLAP_STRATEGY", "DENYLIST_BACKEND"}
    /\ \A v \in {"LLM_CACHE_BACKEND", "PRIVACY_FILTER_CACHE_BACKEND", "GLINER_PII_CACHE_BACKEND",
                 "VAULT_BACKEND"} : Literals[v] = {"memory", Redis}
    /\ Literals["REGEX_OVERLAP_STRATEGY"] = {"longest", "priority"}
    /\ Literals["DENYLIST_BACKEND"] = {"regex", "aho"}
<1>1. PICK f : f = [v \in {"LLM_INPUT_MODE", "PRIVACY_FILTER_INPUT_MODE", "GLINER_PII_INPUT_MODE"} |->
                      {"per_text", "merged"}]
  OBVIOUS
<1>2. PICK g : g = [v \in {"LLM_CACHE_BACKEND", "PRIVACY_FILTER_CACHE_BACKEND", "GLINER_PII_CACHE_BACKEND",
                           "VAULT_BACKEND"} |-> {"memory", Redis}]
  OBVIOUS
<1>3. PICK h : h = [PIPELINE_CACHE_BACKEND |-> {"none", "memory", Redis},
                    STREAMING_FAKER_MODE |-> {"disabled", "buffer"},
                    REGEX_OVERLAP_STRATEGY |-> {"longest", "priority"},
                    DENYLIST_BACKEND |-> {"regex", "aho"}]
  OBVIOUS
<1> DEFINE fg == f ++ g
           m == fg ++ h
<1>4. /\ DOMAIN fg = DOMAIN f \cup DOMAIN g
      /\ \A v \in DOMAIN g : v \notin DOMAIN f => fg[v] = g[v]
  BY Over
<1>5. Literals = m
  BY <1>1, <1>2, <1>3 DEF Literals
<1> HIDE DEF fg
<1>6. /\ DOMAIN m = DOMAIN fg \cup DOMAIN h
      /\ \A v \in DOMAIN fg : m[v] = fg[v]
      /\ \A v \in DOMAIN h : v \notin DOMAIN fg => m[v] = h[v]
  BY Over
<1> HIDE DEF m
<1>7. /\ DOMAIN f = {"LLM_INPUT_MODE", "PRIVACY_FILTER_INPUT_MODE", "GLINER_PII_INPUT_MODE"}
      /\ DOMAIN g = {"LLM_CACHE_BACKEND", "PRIVACY_FILTER_CACHE_BACKEND", "GLINER_PII_CACHE_BACKEND",
                     "VAULT_BACKEND"}
      /\ \A v \in DOMAIN g : g[v] = {"memory", Redis}
      /\ DOMAIN h = {"PIPELINE_CACHE_BACKEND", "STREAMING_FAKER_MODE", "REGEX_OVERLAP_STRATEGY",
                     "DENYLIST_BACKEND"}
      /\ h["REGEX_OVERLAP_STRATEGY"] = {"longest", "priority"}
      /\ h["DENYLIST_BACKEND"] = {"regex", "aho"}
  BY <1>1, <1>2, <1>3
<1>8. DOMAIN m = {"LLM_INPUT_MODE", "PRIVACY_FILTER_INPUT_MODE", "GLINER_PII_INPUT_MODE",
          "LLM_CACHE_BACKEND", "PRIVACY_FILTER_CACHE_BACKEND", "GLINER_PII_CACHE_BACKEND",
          "VAULT_BACKEND", "PIPELINE_CACHE_BACKEND", "STREAMING_FAKER_MODE",
          "REGEX_OVERLAP_STRATEGY", "DENYLIST_BACKEND"}
  BY <1>4, <1>6, <1>7
<1>9. \A v \in DOMAIN g : m[v] = {"memory", Redis}
  BY <1>4, <1>6, <1>7
<1>10. m["REGEX_OVERLAP_STRATEGY"] = {"longest", "priority"} /\ m["DENYLIST_BACKEND"] = {"regex", "aho"}
  BY <1>4, <1>6, <1>7
<1> QED BY <1>5, <1>7, <1>8, <1>9, <1>10

\* A binding that every check of a single setting accepts.
FieldOk(v, x) ==
  /\ v \in DOMAIN Literals => x \in Literals[v]
  /\ v \in DOMAIN Switches => x \in Switches[v]
  /\ v \notin Counters
  /\ v \in Urls => x \notin Schemeless

LEMMA FieldsFollow ==
    ASSUME NEW env, \A v \in DOMAIN env : FieldOk(v, env[v])
    PROVE  FieldsParse(env) /\ LimitsUsable(env)
<1>1. DOMAIN Floor \subseteq Counters
  BY DEF Counters
<1>2. {"LLM_MAX_CONCURRENCY", "PRIVACY_FILTER_MAX_CONCURRENCY", "GLINER_PII_MAX_CONCURRENCY"}
        \subseteq Counters
  BY DEF Counters
<1>3. FieldsParse(env)
  BY <1>1 DEF FieldsParse, FieldOk
<1>4. LimitsUsable(env)
  BY <1>2 DEF LimitsUsable, FieldOk
<1> QED BY <1>3, <1>4

\* Which of the checks looks at a variable that the menu, the surrogates or a
\* service binds.
LEMMA FieldKinds ==
    /\ DOMAIN Switches = {"USE_FAKER", "DEANONYMIZE_SUBSTITUTE", "LLM_USE_FORWARDED_KEY",
                          "LLM_FAIL_CLOSED", "PRIVACY_FILTER_FAIL_CLOSED", "GLINER_PII_FAIL_CLOSED"}
    /\ \A v \in DOMAIN Switches : "true" \in Switches[v] /\ "false" \in Switches[v]
    /\ Counters \cap ({"USE_FAKER", "FAKER_LOCALE", "SURROGATE_SALT", "VAULT_REDIS_URL", "CACHE_REDIS_URL",
                      "REGEX_OVERLAP_STRATEGY", "REGEX_PATTERNS_PATH", "DENYLIST_PATH",
                      "DENYLIST_BACKEND", "PRIVACY_FILTER_URL", "GLINER_PII_URL", "LLM_API_BASE"}
                      \cup {"LLM_API_KEY", "LLM_MODEL", "LLM_SYSTEM_PROMPT_PATH", "GLINER_PII_LABELS",
                      "GLINER_PII_THRESHOLD", "VAULT_BACKEND", "LLM_CACHE_BACKEND",
                      "PRIVACY_FILTER_CACHE_BACKEND", "GLINER_PII_CACHE_BACKEND", "LLM_FAIL_CLOSED",
                      "PRIVACY_FILTER_FAIL_CLOSED", "GLINER_PII_FAIL_CLOSED",
                      "LLM_USE_FORWARDED_KEY"}) = {}
<1>1. /\ DOMAIN Switches = {"USE_FAKER", "DEANONYMIZE_SUBSTITUTE", "LLM_USE_FORWARDED_KEY",
                          "LLM_FAIL_CLOSED", "PRIVACY_FILTER_FAIL_CLOSED", "GLINER_PII_FAIL_CLOSED"}
      /\ \A v \in DOMAIN Switches : "true" \in Switches[v] /\ "false" \in Switches[v]
  BY DEF Switches, Off
<1>2. DOMAIN Floor = {"MAX_BODY_BYTES", "SURROGATE_FAKER_LRU_MAX"}
  BY DEF Floor
<1> QED BY <1>1, <1>2 DEF Counters

LEMMA TextVariables ==
    /\ DOMAIN TextVariable = {"regex_patterns", "denylist_path", "privacy_filter_url", "gliner_pii_url",
                              "gliner_pii_labels", "gliner_pii_threshold", "llm_api_base", "llm_model",
                              "llm_prompt", "vault_redis_url", "cache_redis_url"}
    /\ TextVariable["regex_patterns"] = "REGEX_PATTERNS_PATH"
    /\ TextVariable["denylist_path"] = "DENYLIST_PATH"
    /\ TextVariable["privacy_filter_url"] = "PRIVACY_FILTER_URL"
    /\ TextVariable["gliner_pii_url"] = "GLINER_PII_URL"
    /\ TextVariable["gliner_pii_labels"] = "GLINER_PII_LABELS"
    /\ TextVariable["gliner_pii_threshold"] = "GLINER_PII_THRESHOLD"
    /\ TextVariable["llm_api_base"] = "LLM_API_BASE"
    /\ TextVariable["llm_model"] = "LLM_MODEL"
    /\ TextVariable["llm_prompt"] = "LLM_SYSTEM_PROMPT_PATH"
    /\ TextVariable["vault_redis_url"] = "VAULT_REDIS_URL"
    /\ TextVariable["cache_redis_url"] = "CACHE_REDIS_URL"
BY DEF TextVariable

LEMMA MadeForms ==
    ASSUME NEW v, NEW x, Made(v, x)
    PROVE  \/ \E row \in DOMAIN TextVariable : v = TextVariable[row] /\ x \in Typed[row]
           \/ v = "REGEX_OVERLAP_STRATEGY" /\ x \in {"longest", "priority"}
           \/ v = "DENYLIST_BACKEND" /\ x \in {Unset, "regex", "aho"}
           \/ /\ v \in {"LLM_CACHE_BACKEND", "PRIVACY_FILTER_CACHE_BACKEND",
                        "GLINER_PII_CACHE_BACKEND", "VAULT_BACKEND"}
              /\ x \in {"memory", Redis}
           \/ /\ v \in {"LLM_FAIL_CLOSED", "PRIVACY_FILTER_FAIL_CLOSED", "GLINER_PII_FAIL_CLOSED",
                        "LLM_USE_FORWARDED_KEY"}
              /\ x \in {"true", "false"}
<1>1. /\ DOMAIN PickVariable = {"regex_overlap_strategy", "denylist_backend"}
      /\ PickVariable["regex_overlap_strategy"] = "REGEX_OVERLAP_STRATEGY"
      /\ PickVariable["denylist_backend"] = "DENYLIST_BACKEND"
      /\ PickChoices["regex_overlap_strategy"] = {"longest", "priority"}
      /\ PickChoices["denylist_backend"] = {Unset, "regex", "aho"}
  BY DEF PickVariable, PickChoices
<1>2. /\ DOMAIN CacheVariable = {"llm_cache", "pf_cache", "gliner_pii_cache"}
      /\ CacheVariable["llm_cache"] = "LLM_CACHE_BACKEND"
      /\ CacheVariable["pf_cache"] = "PRIVACY_FILTER_CACHE_BACKEND"
      /\ CacheVariable["gliner_pii_cache"] = "GLINER_PII_CACHE_BACKEND"
  BY DEF CacheVariable
<1>3. {FailVariable[row] : row \in DOMAIN FailVariable} =
        {"LLM_FAIL_CLOSED", "PRIVACY_FILTER_FAIL_CLOSED", "GLINER_PII_FAIL_CLOSED"}
  BY DEF FailVariable
<1>4. CASE \E row \in DOMAIN PickVariable : v = PickVariable[row] /\ x \in PickChoices[row]
  BY <1>1, <1>4
<1>5. CASE \E row \in DOMAIN CacheVariable : v = CacheVariable[row] /\ x \in {"memory", Redis}
  BY <1>2, <1>5
<1> QED BY <1>3, <1>4, <1>5 DEF Made

\* The texts of URL rows have a scheme.
UrlsTyped ==
  /\ \A row \in {"privacy_filter_url", "gliner_pii_url", "llm_api_base"} : Typed[row] \cap Schemeless = {}
  /\ \A row \in {"vault_redis_url", "cache_redis_url"} : Typed[row] \cap RefusedRedis = {}

LEMMA MadeFieldOk ==
    ASSUME UrlsTyped, NEW v, NEW x, x # Unset, Made(v, x)
    PROVE  FieldOk(v, x)
<1> USE DEF Redis
<1>1. Urls = {"LLM_API_BASE", "PRIVACY_FILTER_URL", "GLINER_PII_URL"}
  BY DEF Urls
<1>2. CASE \E row \in DOMAIN TextVariable : v = TextVariable[row] /\ x \in Typed[row]
  <2>1. PICK row \in DOMAIN TextVariable : v = TextVariable[row] /\ x \in Typed[row]
    BY <1>2
  <2>2. v \in {"REGEX_PATTERNS_PATH", "DENYLIST_PATH", "PRIVACY_FILTER_URL", "GLINER_PII_URL",
               "GLINER_PII_LABELS", "GLINER_PII_THRESHOLD", "LLM_API_BASE", "LLM_MODEL",
               "LLM_SYSTEM_PROMPT_PATH", "VAULT_REDIS_URL", "CACHE_REDIS_URL"}
    BY <2>1, TextVariables
  <2>3. v \notin DOMAIN Literals
    BY <2>2, LiteralsGet
  <2>4. v \notin DOMAIN Switches /\ v \notin Counters
    BY <2>2, FieldKinds
  <2>5. v \in Urls => row \in {"privacy_filter_url", "gliner_pii_url", "llm_api_base"}
    BY <1>1, <2>1, TextVariables
  <2> QED BY <2>1, <2>3, <2>4, <2>5 DEF FieldOk, UrlsTyped
<1>3. CASE v = "REGEX_OVERLAP_STRATEGY" /\ x \in {"longest", "priority"}
  BY <1>1, <1>3, LiteralsGet, FieldKinds DEF FieldOk
<1>4. CASE v = "DENYLIST_BACKEND" /\ x \in {Unset, "regex", "aho"}
  BY <1>1, <1>4, LiteralsGet, FieldKinds DEF FieldOk
<1>5. CASE /\ v \in {"LLM_CACHE_BACKEND", "PRIVACY_FILTER_CACHE_BACKEND",
                     "GLINER_PII_CACHE_BACKEND", "VAULT_BACKEND"}
           /\ x \in {"memory", Redis}
  BY <1>1, <1>5, LiteralsGet, FieldKinds DEF FieldOk
<1>6. CASE /\ v \in {"LLM_FAIL_CLOSED", "PRIVACY_FILTER_FAIL_CLOSED", "GLINER_PII_FAIL_CLOSED",
                     "LLM_USE_FORWARDED_KEY"}
           /\ x \in {"true", "false"}
  BY <1>1, <1>6, LiteralsGet, FieldKinds DEF FieldOk
<1> QED BY <1>2, <1>3, <1>4, <1>5, <1>6, MadeForms

\* A binding that the surrogates, a Redis or a service makes.
ToldBy(v, x) ==
  \/ v \in SurrogateVariables /\ (v = "USE_FAKER" => x = "false")
  \/ v \in Sides
  \/ \E d \in Remote : v = DetectorUrl[d] /\ x \in DOMAIN HostOf
  \/ v \in {"LLM_API_KEY", "LLM_MODEL"}

LEMMA ToldFieldOk ==
    ASSUME NEW v, NEW x, ToldBy(v, x)
    PROVE  FieldOk(v, x)
<1>1. Urls = {"LLM_API_BASE", "PRIVACY_FILTER_URL", "GLINER_PII_URL"}
  BY DEF Urls
<1>2. CASE v \in SurrogateVariables /\ (v = "USE_FAKER" => x = "false")
  BY <1>1, <1>2, LiteralsGet, FieldKinds DEF FieldOk, SurrogateVariables
<1>3. CASE v \in Sides \cup {"LLM_API_KEY", "LLM_MODEL"}
  BY <1>1, <1>3, LiteralsGet, FieldKinds DEF FieldOk, Sides
<1>4. CASE \E d \in Remote : v = DetectorUrl[d] /\ x \in DOMAIN HostOf
  <2>1. v \in {"LLM_API_BASE", "PRIVACY_FILTER_URL", "GLINER_PII_URL"}
    BY <1>4 DEF Remote, DetectorUrl
  <2>2. x \notin Schemeless
    BY <1>4, SchemesGiven
  <2> QED BY <2>1, <2>2, LiteralsGet, FieldKinds DEF FieldOk
<1> QED BY <1>2, <1>3, <1>4 DEF ToldBy

LEMMA MenuEnvGet ==
    ASSUME NEW cfg, ConfigOk(cfg), MenuConfig(cfg), NEW started \in SUBSET ServiceNames,
           NEW env, env = GuardrailEnv(cfg, EmptyEnv, started)
    PROVE  \A v \in DOMAIN env :
             \/ v \in DOMAIN cfg.env /\ env[v] = cfg.env[v] /\ env[v] # Unset /\ Made(v, env[v])
             \/ ToldBy(v, env[v])
<1>1. IsList(cfg.mode) /\ cfg.extra = EmptyEnv
  BY DEF ConfigOk, MenuConfig
<1>2. PICK r : r = RedisEnv(cfg, started)
  OBVIOUS
<1>3. DOMAIN r \subseteq Sides
  BY <1>2, RedisGet
<1>4. \A v \in DOMAIN env :
        \/ v \in SurrogateVariables /\ (v = "USE_FAKER" => env[v] = "false")
        \/ v \in DOMAIN r
        \/ env[v] # Unset /\ env[v] = SetFor(cfg, EmptyEnv, v)
        \/ \E d \in Detectors : ToldFor(cfg, started, d, v, env[v])
  BY <1>1, <1>2, GuardrailEnvGet
<1>5. ASSUME NEW v, SetFor(cfg, EmptyEnv, v) # Unset
      PROVE  v \in DOMAIN cfg.env /\ cfg.env[v] = SetFor(cfg, EmptyEnv, v)
  BY <1>5 DEF SetFor, Given, EnvGet, EmptyEnv
<1>6. ASSUME NEW v, NEW x, NEW d \in Detectors, ToldFor(cfg, started, d, v, x) PROVE ToldBy(v, x)
  <2>1. PICK t : t = Told(d, VariantOf(cfg, d))
    OBVIOUS
  <2>2. d \in Remote /\ v \in DOMAIN t /\ x = t[v]
    BY <1>6, <2>1 DEF ToldFor
  <2>3. /\ t[DetectorUrl[d]] \in DOMAIN HostOf
        /\ v = DetectorUrl[d] \/ (d = "llm" /\ v \in {"LLM_API_KEY", "LLM_MODEL"})
    BY <2>1, <2>2, ToldVariables
  <2> QED BY <2>2, <2>3 DEF ToldBy
<1> TAKE v \in DOMAIN env
<1>7. CASE env[v] # Unset /\ env[v] = SetFor(cfg, EmptyEnv, v)
  <2>1. v \in DOMAIN cfg.env /\ cfg.env[v] = env[v]
    BY <1>5, <1>7
  <2>2. Made(v, cfg.env[v])
    BY <2>1 DEF MenuConfig
  <2> QED BY <1>7, <2>1, <2>2
<1>8. CASE \/ v \in SurrogateVariables /\ (v = "USE_FAKER" => env[v] = "false")
           \/ v \in DOMAIN r
  BY <1>3, <1>8 DEF ToldBy
<1>9. CASE \E d \in Detectors : ToldFor(cfg, started, d, v, env[v])
  BY <1>6, <1>9
<1> QED BY <1>4, <1>7, <1>8, <1>9

\* Every single setting is accepted.
LEMMA MenuFields ==
    ASSUME NEW cfg, ConfigOk(cfg), MenuConfig(cfg), NEW started \in SUBSET ServiceNames,
           NEW env, env = GuardrailEnv(cfg, EmptyEnv, started), UrlsTyped
    PROVE  FieldsParse(env) /\ LimitsUsable(env)
<1>1. ASSUME NEW v \in DOMAIN env PROVE FieldOk(v, env[v])
  <2>1. CASE env[v] # Unset /\ Made(v, env[v])
    BY <2>1, MadeFieldOk
  <2>2. CASE ToldBy(v, env[v])
    BY <2>2, ToldFieldOk
  <2> QED BY <2>1, <2>2, MenuEnvGet
<1> QED BY <1>1, FieldsFollow

\* A variable that no row, no service and no surrogate setting binds is unset,
\* and one that only a row binds has what the row made of it.
LEMMA ToldNames ==
    ASSUME NEW v, NEW x, ToldBy(v, x)
    PROVE  v \in {"USE_FAKER", "FAKER_LOCALE", "SURROGATE_SALT", "VAULT_REDIS_URL", "CACHE_REDIS_URL",
                  "LLM_API_BASE", "PRIVACY_FILTER_URL", "GLINER_PII_URL", "LLM_API_KEY", "LLM_MODEL"}
BY DEF ToldBy, SurrogateVariables, Sides, Remote, DetectorUrl

LEMMA MadeNames ==
    ASSUME NEW v, NEW x, Made(v, x)
    PROVE  v \in {"REGEX_PATTERNS_PATH", "DENYLIST_PATH", "PRIVACY_FILTER_URL", "GLINER_PII_URL",
               "GLINER_PII_LABELS", "GLINER_PII_THRESHOLD", "LLM_API_BASE", "LLM_MODEL",
               "LLM_SYSTEM_PROMPT_PATH", "VAULT_REDIS_URL", "CACHE_REDIS_URL"}
             \cup {"REGEX_OVERLAP_STRATEGY", "DENYLIST_BACKEND", "LLM_CACHE_BACKEND",
                   "PRIVACY_FILTER_CACHE_BACKEND", "GLINER_PII_CACHE_BACKEND", "VAULT_BACKEND",
                   "LLM_FAIL_CLOSED", "PRIVACY_FILTER_FAIL_CLOSED", "GLINER_PII_FAIL_CLOSED",
                   "LLM_USE_FORWARDED_KEY"}
<1>1. CASE \E row \in DOMAIN TextVariable : v = TextVariable[row] /\ x \in Typed[row]
  BY <1>1, TextVariables
<1> QED BY <1>1, MadeForms

\* What a path or the URL of a Redis of the menu can be.
LEMMA MadePath ==
    ASSUME NEW v, NEW x, Made(v, x)
    PROVE  /\ v = "REGEX_PATTERNS_PATH" => x \in Typed["regex_patterns"]
           /\ v = "DENYLIST_PATH" => x \in Typed["denylist_path"]
           /\ v = "LLM_SYSTEM_PROMPT_PATH" => x \in Typed["llm_prompt"]
           /\ v = "VAULT_REDIS_URL" => x \in Typed["vault_redis_url"]
           /\ v = "CACHE_REDIS_URL" => x \in Typed["cache_redis_url"]
<1>1. CASE \E row \in DOMAIN TextVariable : v = TextVariable[row] /\ x \in Typed[row]
  BY <1>1, TextVariables
<1>2. CASE \A row \in DOMAIN TextVariable : ~(v = TextVariable[row] /\ x \in Typed[row])
  <2>1. v \notin {"REGEX_PATTERNS_PATH", "DENYLIST_PATH", "LLM_SYSTEM_PROMPT_PATH",
                   "VAULT_REDIS_URL", "CACHE_REDIS_URL"}
    BY <1>2, MadeForms
  <2> QED BY <2>1
<1> QED BY <1>1, <1>2

\* The files the menu can name are there, as are the bundled ones, and there is
\* no registry.
FilesThere(disk) ==
  LET Path(row) == {PlaceOf(disk, t) : t \in Typed[row] \ {Unset}}
  IN /\ \A p \in {RegexDefault} \cup Path("regex_patterns") : LoadPatterns(disk, p).ok
     /\ \A p \in Path("denylist_path") : LoadEntries(disk, p)
     /\ \A p \in {PromptDefault} \cup Path("llm_prompt") : LoadSystemPrompt(disk, p)

LEMMA NoRegistry ==
    ASSUME NEW disk, NEW env, NEW v, EnvGet(env, v) = Unset
    PROVE  LET entries == EntriesOf(disk, env, v)
           IN RegistryParses(entries) /\ DOMAIN Registry(entries) = {}
<1>1. PICK entries : entries = EntriesOf(disk, env, v)
  OBVIOUS
<1>2. entries = <<>>
  BY <1>1 DEF EntriesOf
<1>3. Used(entries) = {}
  BY <1>2 DEF Used
<1> QED BY <1>1, <1>3 DEF RegistryParses, Registry

LEMMA MenuFiles ==
    ASSUME NEW cfg, ConfigOk(cfg), MenuConfig(cfg), NEW started \in SUBSET ServiceNames,
           NEW env, env = GuardrailEnv(cfg, EmptyEnv, started), NEW disk, FilesThere(disk)
    PROVE  PatternsLoad(disk, env) /\ DenylistsLoad(disk, env) /\ PromptsLoad(disk, env)
<1>1. \A v \in DOMAIN env : (env[v] # Unset /\ Made(v, env[v])) \/ ToldBy(v, env[v])
  BY MenuEnvGet
<1>2. ASSUME NEW v \in {"REGEX_PATTERNS_REGISTRY", "DENYLIST_REGISTRY", "LLM_SYSTEM_PROMPT_REGISTRY"}
      PROVE  EnvGet(env, v) = Unset
  <2>1. \A x : ~Made(v, x)
    BY MadeNames
  <2>2. \A x : ~ToldBy(v, x)
    BY ToldNames
  <2> QED BY <1>1, <2>1, <2>2 DEF EnvGet
<1>3. ASSUME NEW v \in {"REGEX_PATTERNS_PATH", "DENYLIST_PATH", "LLM_SYSTEM_PROMPT_PATH"},
             EnvGet(env, v) # Unset
      PROVE  Made(v, EnvGet(env, v))
  <2>1. v \in DOMAIN env /\ EnvGet(env, v) = env[v]
    BY <1>3 DEF EnvGet
  <2>2. ~ToldBy(v, env[v])
    BY ToldNames
  <2> QED BY <1>1, <2>1, <2>2
<1>4. PatternsLoad(disk, env)
  <2>1. PICK path : path = EnvGet(env, "REGEX_PATTERNS_PATH")
    OBVIOUS
  <2>2. path # Unset => path \in Typed["regex_patterns"]
    BY <1>3, <2>1, MadePath
  <2>3. LoadPatterns(disk, RootPatterns(disk, env)).ok
    BY <2>1, <2>2 DEF FilesThere, RootPatterns
  <2> QED BY <1>2, <2>3, NoRegistry DEF PatternsLoad
<1>5. DenylistsLoad(disk, env)
  <2>1. PICK path : path = EnvGet(env, "DENYLIST_PATH")
    OBVIOUS
  <2>2. path # Unset => path \in Typed["denylist_path"]
    BY <1>3, <2>1, MadePath
  <2>3. path # Unset => LoadEntries(disk, PlaceOf(disk, path))
    BY <2>2 DEF FilesThere
  <2> QED BY <1>2, <2>1, <2>3, NoRegistry DEF DenylistsLoad
<1>6. PromptsLoad(disk, env)
  <2>1. PICK path : path = EnvGet(env, "LLM_SYSTEM_PROMPT_PATH")
    OBVIOUS
  <2>2. path # Unset => path \in Typed["llm_prompt"]
    BY <1>3, <2>1, MadePath
  <2>3. LoadSystemPrompt(disk, IF path = Unset THEN PromptDefault ELSE PlaceOf(disk, path))
    BY <2>2 DEF FilesThere
  <2> QED BY <1>2, <2>1, <2>3, NoRegistry DEF PromptsLoad
<1> QED BY <1>4, <1>5, <1>6
-----------------------------------------------------------------------------
(* A detector or a side that chose the service has it started.               *)

LEMMA ToSetConcat ==
    ASSUME NEW S, NEW a \in Seq(S), NEW b \in Seq(S)
    PROVE  /\ a \o b \in Seq(S)
           /\ ToSet(a) \cup ToSet(b) \subseteq ToSet(a \o b)
<1> DEFINE c == a \o b
<1>1. /\ c \in Seq(S) /\ Len(c) = Len(a) + Len(b)
      /\ \A i \in 1..(Len(a) + Len(b)) : c[i] = IF i <= Len(a) THEN a[i] ELSE b[i - Len(a)]
  BY ConcatProperties
<1> HIDE DEF c
<1>2. /\ DOMAIN a = 1..Len(a) /\ DOMAIN b = 1..Len(b) /\ DOMAIN c = 1..(Len(a) + Len(b))
      /\ Len(a) \in Nat /\ Len(b) \in Nat
  BY <1>1, LenProperties
<1>3. ASSUME NEW i \in DOMAIN a PROVE a[i] \in ToSet(c)
  <2>1. i \in DOMAIN c /\ c[i] = a[i]
    BY <1>1, <1>2
  <2> QED BY <2>1 DEF ToSet
<1>4. ASSUME NEW i \in DOMAIN b PROVE b[i] \in ToSet(c)
  <2>1. i + Len(a) \in DOMAIN c /\ c[i + Len(a)] = b[i]
    BY <1>1, <1>2
  <2> QED BY <2>1 DEF ToSet
<1>5. ToSet(a) \cup ToSet(b) \subseteq ToSet(c)
  BY <1>3, <1>4 DEF ToSet
<1> QED BY <1>1, <1>5 DEF c

LEMMA ToStartAll ==
    ASSUME NEW cfg, ConfigOk(cfg)
    PROVE  /\ "service" \in {cfg.vaultSource, cfg.cacheSource} => RedisName \in ToSet(ToStart(cfg))
           /\ \A i \in 1..3 : ToSet(ServiceAt(cfg.backends, i)) \subseteq ToSet(ToStart(cfg))
<1>1. PICK r : r = (IF "service" \in {cfg.vaultSource, cfg.cacheSource} THEN <<RedisName>> ELSE <<>>)
  OBVIOUS
<1>2. PICK x : x = ServiceAt(cfg.backends, 1)
  OBVIOUS
<1>3. PICK y : y = ServiceAt(cfg.backends, 2)
  OBVIOUS
<1>4. PICK z : z = ServiceAt(cfg.backends, 3)
  OBVIOUS
<1>5. ToStart(cfg) = r \o x \o y \o z
  BY <1>1, <1>2, <1>3, <1>4 DEF ToStart
<1>6. /\ r \in Seq(ServiceNames) /\ x \in Seq(ServiceNames)
      /\ y \in Seq(ServiceNames) /\ z \in Seq(ServiceNames)
  <2>1. cfg.backends \in Seq(Remote \X Sources)
    BY DEF ConfigOk, BackendsOk
  <2>2. <<RedisName>> \in Seq(ServiceNames) /\ <<>> \in Seq(ServiceNames)
    BY DEF ServiceNames
  <2> QED BY <1>1, <1>2, <1>3, <1>4, <2>1, <2>2, ServiceAtType
<1>7. PICK rx : rx = r \o x
  OBVIOUS
<1>8. PICK rxy : rxy = rx \o y
  OBVIOUS
<1>9. rx \in Seq(ServiceNames) /\ ToSet(r) \cup ToSet(x) \subseteq ToSet(rx)
  BY <1>6, <1>7, ToSetConcat
<1>10. rxy \in Seq(ServiceNames) /\ ToSet(rx) \cup ToSet(y) \subseteq ToSet(rxy)
  BY <1>6, <1>8, <1>9, ToSetConcat
<1>11. ToSet(rxy) \cup ToSet(z) \subseteq ToSet(ToStart(cfg))
  BY <1>5, <1>6, <1>7, <1>8, <1>10, ToSetConcat
<1>12. "service" \in {cfg.vaultSource, cfg.cacheSource} => RedisName \in ToSet(r)
  BY <1>1 DEF ToSet
<1>13. 1..3 = {1, 2, 3}
  OBVIOUS
<1> QED BY <1>2, <1>3, <1>4, <1>9, <1>10, <1>11, <1>12, <1>13

\* There are only three detectors to have a backend.
LEMMA ThreeBackends ==
    ASSUME NEW backends, BackendsOk(backends)
    PROVE  DOMAIN backends \subseteq 1..3
<1>1. Len(backends) \in Nat /\ DOMAIN backends = 1..Len(backends)
  BY LenProperties DEF BackendsOk
<1>2. ASSUME NEW i \in DOMAIN backends PROVE backends[i][1] \in Remote
  <2>1. backends[i] \in Remote \X Sources
    BY ElementOfSeq, LenProperties DEF BackendsOk
  <2> QED BY <2>1
<1>3. ASSUME Len(backends) >= 4 PROVE FALSE
  <2>1. 1 \in DOMAIN backends /\ 2 \in DOMAIN backends /\ 3 \in DOMAIN backends /\ 4 \in DOMAIN backends
    BY <1>1, <1>3
  <2>2. /\ backends[1][1] # backends[2][1] /\ backends[1][1] # backends[3][1]
        /\ backends[1][1] # backends[4][1] /\ backends[2][1] # backends[3][1]
        /\ backends[2][1] # backends[4][1] /\ backends[3][1] # backends[4][1]
    BY <2>1 DEF BackendsOk
  <2> QED BY <1>2, <2>1, <2>2 DEF Remote
<1> QED BY <1>1, <1>3

LEMMA ChosenBackend ==
    ASSUME NEW cfg, ConfigOk(cfg), NEW d, BackendOf(cfg.backends, d) # Unset
    PROVE  /\ BackendOf(cfg.backends, d) \in Sources
           /\ BackendOf(cfg.backends, d) = "service" => d \in ToSet(ToStart(cfg))
<1>1. PICK b : b = cfg.backends
  OBVIOUS
<1>2. BackendsOk(b)
  BY <1>1 DEF ConfigOk
<1> DEFINE at == {i \in DOMAIN b : b[i][1] = d}
<1>3. at # {} /\ BackendOf(b, d) = b[CHOOSE i \in at : TRUE][2]
  BY <1>1 DEF BackendOf
<1>4. PICK i \in at : BackendOf(b, d) = b[i][2]
  BY <1>3
<1>5. i \in DOMAIN b /\ b[i][1] = d /\ i \in 1..3
  BY <1>2, <1>4, ThreeBackends
<1>6. b[i] \in Remote \X Sources
  BY <1>2, <1>5, ElementOfSeq, LenProperties DEF BackendsOk
<1>7. ASSUME b[i][2] = "service" PROVE d \in ToSet(ToStart(cfg))
  <2>1. ServiceAt(b, i) = <<d>>
    BY <1>5, <1>7 DEF ServiceAt
  <2>2. d \in ToSet(ServiceAt(b, i))
    BY <2>1 DEF ToSet
  <2> QED BY <1>1, <1>5, <2>2, ToStartAll
<1> QED BY <1>1, <1>4, <1>6, <1>7

\* What the operator set for a variable of a detector in the mode is passed on,
\* or the service's value in its place.
LEMMA SetBound ==
    ASSUME NEW cfg, IsList(cfg.mode), NEW environ, NEW started \in SUBSET ServiceNames,
           NEW d \in Detectors, Active(cfg, d), NEW v \in Passed(d), SetFor(cfg, environ, v) # Unset
    PROVE  v \in DOMAIN LastBound(DetectorArgs(cfg, environ, started))
<1>1. PICK q : q = DetectorArgs(cfg, environ, started)
  OBVIOUS
<1>2. DOMAIN q = 1..Len(cfg.mode) /\ Len(cfg.mode) \in Nat /\ DOMAIN cfg.mode = 1..Len(cfg.mode)
  BY <1>1 DEF DetectorArgs, IsList
<1>3. PICK i \in 1..Len(cfg.mode) : cfg.mode[i] = d
  BY <1>2 DEF Active
<1>4. PICK f : f = Forwarded(cfg, environ, Passed(d))
  OBVIOUS
<1>5. v \in DOMAIN f
  BY <1>4 DEF Forwarded, SetFor
<1>6. PICK t : t = ResolveService(LauncherMetadata[d], VariantOf(cfg, d)).guardrailEnv
  OBVIOUS
<1> DEFINE h == t ++ f
<1>7. q[i] = f \/ q[i] = h
  BY <1>1, <1>2, <1>3, <1>4, <1>6 DEF DetectorArgs, DetectorEnv, Passed
<1>8. DOMAIN h = DOMAIN t \cup DOMAIN f
  BY Over
<1> HIDE DEF h
<1>9. v \in DOMAIN q[i]
  BY <1>5, <1>7, <1>8
<1> QED BY <1>1, <1>2, <1>9, LastBoundGet

\* The URL of an active detector is set: by its service, or in its row.
LEMMA UrlSet ==
    ASSUME NEW cfg, ConfigOk(cfg), MenuConfig(cfg), NEW started \in SUBSET ServiceNames,
           NEW env, env = GuardrailEnv(cfg, EmptyEnv, started),
           NEW d \in Remote, Active(cfg, d), BackendOf(cfg.backends, d) # Unset,
           ToSet(ToStart(cfg)) \subseteq started,
           BackendOf(cfg.backends, d) = "external" => EnvGet(cfg.env, DetectorUrl[d]) # Unset
    PROVE  EnvGet(env, DetectorUrl[d]) # Unset
<1>1. PICK b : b = LastBound(DetectorArgs(cfg, EmptyEnv, started))
  OBVIOUS
<1>2. IsList(cfg.mode) /\ cfg.extra = EmptyEnv /\ d \in Detectors
  BY DetectorNames DEF ConfigOk, MenuConfig, Remote
<1>3. DetectorUrl[d] \in Passed(d)
  BY <1>2, OwnVariables
<1>4. DetectorUrl[d] \in DOMAIN b
  <2>1. CASE BackendOf(cfg.backends, d) = "service"
    <3>1. d \in started \cap Remote
      BY <2>1, ChosenBackend
    <3> QED BY <1>1, <1>2, <3>1, DetectorsGet
  <2>2. CASE BackendOf(cfg.backends, d) = "external"
    <3>1. SetFor(cfg, EmptyEnv, DetectorUrl[d]) # Unset
      BY <2>2 DEF SetFor, Given
    <3> QED BY <1>1, <1>2, <1>3, <3>1, SetBound
  <2> QED BY <2>1, <2>2, ChosenBackend DEF Sources
<1>5. b[DetectorUrl[d]] # Unset
  BY <1>1, <1>2, <1>4, DetectorsGet
<1>6. DetectorUrl[d] \in DOMAIN env /\ env[DetectorUrl[d]] = b[DetectorUrl[d]]
  BY <1>1, <1>2, <1>3, <1>4, GuardrailEnvGet
<1> QED BY <1>5, <1>6 DEF EnvGet

\* The factories have their URLs.
LEMMA MenuFactories ==
    ASSUME NEW cfg, ConfigOk(cfg), MenuConfig(cfg), Valid(cfg), Filled(cfg),
           NEW started \in SUBSET ServiceNames, ToSet(ToStart(cfg)) \subseteq started,
           NEW env, env = GuardrailEnv(cfg, EmptyEnv, started)
    PROVE  FactoriesSucceed(BuildDetectors(cfg.mode), env)
<1>1. ASSUME NEW d \in {"privacy_filter", "gliner_pii"}, d \in BuildDetectors(cfg.mode)
      PROVE  EnvGet(env, DetectorUrl[d]) # Unset
  <2>1. Active(cfg, d) /\ d \in Remote /\ d \in Detectors
    BY <1>1, DetectorNames DEF BuildDetectors, ToSet, Active, Remote
  <2>2. BackendOf(cfg.backends, d) # Unset
    BY <2>1 DEF Valid, BackendChosen, MenuConfig
  <2>3. ASSUME BackendOf(cfg.backends, d) = "external" PROVE EnvGet(cfg.env, DetectorUrl[d]) # Unset
    <3>1. CASE d = "privacy_filter"
      <4>1. "privacy_filter_url" \in DetectorRows(cfg, d)
        BY <2>3, <3>1 DEF DetectorRows, RowsIf
      <4>2. "privacy_filter_url" \in BuildOptions(cfg)
        BY <2>1, <4>1 DEF BuildOptions
      <4>3. EnvGet(cfg.env, "PRIVACY_FILTER_URL") # Unset
        BY <4>2, TextVariables DEF Filled
      <4> QED BY <3>1, <4>3 DEF DetectorUrl
    <3>2. CASE d = "gliner_pii"
      <4>1. "gliner_pii_url" \in DetectorRows(cfg, d)
        BY <2>3, <3>2 DEF DetectorRows, RowsIf
      <4>2. "gliner_pii_url" \in BuildOptions(cfg)
        BY <2>1, <4>1 DEF BuildOptions
      <4>3. EnvGet(cfg.env, "GLINER_PII_URL") # Unset
        BY <4>2, TextVariables DEF Filled
      <4> QED BY <3>2, <4>3 DEF DetectorUrl
    <3> QED BY <3>1, <3>2
  <2> QED BY <2>1, <2>2, <2>3, UrlSet
<1>2. DetectorUrl["privacy_filter"] = "PRIVACY_FILTER_URL" /\ DetectorUrl["gliner_pii"] = "GLINER_PII_URL"
  BY DEF DetectorUrl
<1> QED BY <1>1, <1>2 DEF FactoriesSucceed

\* A side that is switched to Redis has its URL.
LEMMA MenuUrls ==
    ASSUME NEW cfg, ConfigOk(cfg), MenuConfig(cfg), Filled(cfg),
           NEW started \in SUBSET ServiceNames, ToSet(ToStart(cfg)) \subseteq started,
           NEW env, env = GuardrailEnv(cfg, EmptyEnv, started)
    PROVE  UrlsGiven(env)
<1>1. IsList(cfg.mode) /\ cfg.extra = EmptyEnv
  BY DEF ConfigOk, MenuConfig
<1>2. \A v : SetFor(cfg, EmptyEnv, v) = EnvGet(cfg.env, v)
  BY DEF SetFor, Given, EnvGet, EmptyEnv
<1>3. LET on == RedisName \in started
      IN /\ EnvGet(env, "VAULT_REDIS_URL") = IF on /\ cfg.vaultSource = "service" THEN VaultDb
                                             ELSE SetFor(cfg, EmptyEnv, "VAULT_REDIS_URL")
         /\ EnvGet(env, "CACHE_REDIS_URL") = IF on /\ cfg.cacheSource = "service" THEN CacheDb
                                             ELSE SetFor(cfg, EmptyEnv, "CACHE_REDIS_URL")
  BY <1>1, SideGet
<1>4. "service" \in {cfg.vaultSource, cfg.cacheSource} => RedisName \in started
  BY ToStartAll
<1>5. ASSUME NEW v \in {"VAULT_BACKEND", "LLM_CACHE_BACKEND", "PRIVACY_FILTER_CACHE_BACKEND",
                        "GLINER_PII_CACHE_BACKEND", "PIPELINE_CACHE_BACKEND"},
             EnvGet(env, v) = Redis
      PROVE  EnvGet(cfg.env, v) = Redis /\ v # "PIPELINE_CACHE_BACKEND"
  <2>1. v \in DOMAIN env /\ env[v] = Redis
    BY <1>5 DEF EnvGet, Redis, Unset
  <2>2. ~ToldBy(v, env[v])
    BY ToldNames
  <2>3. v \in DOMAIN cfg.env /\ cfg.env[v] = env[v] /\ Made(v, env[v])
    BY <2>1, <2>2, MenuEnvGet
  <2>4. v # "PIPELINE_CACHE_BACKEND"
    BY <2>3, MadeNames
  <2> QED BY <2>1, <2>3, <2>4 DEF EnvGet
<1>6. ASSUME EnvGet(env, "VAULT_BACKEND") = Redis PROVE EnvGet(env, "VAULT_REDIS_URL") # Unset
  <2>1. EnvGet(cfg.env, "VAULT_BACKEND") = Redis
    BY <1>5, <1>6
  <2>2. cfg.vaultSource \in Sources
    BY <2>1 DEF MenuConfig, BackendChoices
  <2>3. CASE cfg.vaultSource = "service"
    BY <1>3, <1>4, <2>3, RedisHosts
  <2>4. CASE cfg.vaultSource = "external"
    <3>1. "vault_redis_url" \in RedisRows(cfg)
      BY <2>1, <2>4 DEF RedisRows, RowsIf, Redis
    <3>2. "vault_redis_url" \in BuildOptions(cfg)
      BY <3>1 DEF BuildOptions
    <3>3. EnvGet(cfg.env, "VAULT_REDIS_URL") # Unset
      BY <3>2, TextVariables DEF Filled
    <3> QED BY <1>2, <1>3, <2>4, <3>3
  <2> QED BY <2>2, <2>3, <2>4 DEF Sources
<1>7. ASSUME NEW v \in CacheBackends, EnvGet(env, v) = Redis
      PROVE  EnvGet(env, "CACHE_REDIS_URL") # Unset
  <2>1. v \in {"LLM_CACHE_BACKEND", "PRIVACY_FILTER_CACHE_BACKEND", "GLINER_PII_CACHE_BACKEND"}
        /\ EnvGet(cfg.env, v) = "redis"
    BY <1>5, <1>7 DEF CacheBackends, Redis
  <2>2. CacheIsRedis(cfg)
    BY <2>1, CacheRedis
  <2>3. cfg.cacheSource \in Sources
    BY <2>2 DEF MenuConfig, BackendChoices
  <2>4. CASE cfg.cacheSource = "service"
    BY <1>3, <1>4, <2>4, RedisHosts
  <2>5. CASE cfg.cacheSource = "external"
    <3>1. "cache_redis_url" \in RedisRows(cfg)
      BY <2>2, <2>5 DEF RedisRows, RowsIf
    <3>2. "cache_redis_url" \in BuildOptions(cfg)
      BY <3>1 DEF BuildOptions
    <3>3. EnvGet(cfg.env, "CACHE_REDIS_URL") # Unset
      BY <3>2, TextVariables DEF Filled
    <3> QED BY <1>2, <1>3, <2>5, <3>3
  <2> QED BY <2>3, <2>4, <2>5 DEF Sources
<1> QED BY <1>6, <1>7 DEF UrlsGiven

\* A Redis the guardrail is told of is one its clients can be made for.
LEMMA MenuClients ==
    ASSUME NEW cfg, ConfigOk(cfg), MenuConfig(cfg), UrlsTyped,
           NEW started \in SUBSET ServiceNames, NEW env, env = GuardrailEnv(cfg, EmptyEnv, started),
           UrlsGiven(env), NEW detectors
    PROVE  ClientsMade(detectors, env)
<1>1. IsList(cfg.mode) /\ cfg.extra = EmptyEnv
  BY DEF ConfigOk, MenuConfig
<1>2. ASSUME NEW v \in Sides, EnvGet(cfg.env, v) # Unset PROVE EnvGet(cfg.env, v) \notin RefusedRedis
  <2>1. v \in DOMAIN cfg.env /\ Made(v, EnvGet(cfg.env, v))
    BY <1>2 DEF EnvGet, MenuConfig
  <2> QED BY <2>1, MadePath DEF Sides, UrlsTyped
<1>3. ASSUME NEW v \in Sides, EnvGet(env, v) # Unset PROVE EnvGet(env, v) \notin RefusedRedis
  <2>1. EnvGet(env, v) \in {VaultDb, CacheDb, SetFor(cfg, EmptyEnv, v)}
    BY <1>1, SideGet DEF Sides
  <2>2. SetFor(cfg, EmptyEnv, v) = EnvGet(cfg.env, v)
    BY DEF SetFor, Given, EnvGet, EmptyEnv
  <2> QED BY <1>2, <1>3, <2>1, <2>2, SchemesGiven
<1>4. \A d \in DOMAIN CacheOf : CacheOf[d] \in CacheBackends
  BY DEF CacheOf, CacheBackends
<1>5. "PIPELINE_CACHE_BACKEND" \in CacheBackends
  BY DEF CacheBackends
<1> QED BY <1>3, <1>4, <1>5 DEF ClientsMade, UrlsGiven, Sides

\* The guardrail is told whether Faker is in use, and of the locale as it was typed.
LEMMA MenuLocale ==
    ASSUME NEW cfg, ConfigOk(cfg), MenuConfig(cfg), NEW started \in SUBSET ServiceNames,
           NEW env, env = GuardrailEnv(cfg, EmptyEnv, started)
    PROVE  LocaleKnown(env) <=> ~(cfg.faker /\ cfg.locale \in UnknownLocales)
<1>1. IsList(cfg.mode) /\ cfg.extra = EmptyEnv
  BY DEF ConfigOk, MenuConfig
<1>2. \A v \in SurrogateVariables : EnvGet(env, v) = EnvGet(SurrogateEnv(cfg), v)
  BY <1>1, GuardrailEnvGet
<1>3. /\ EnvGet(env, "USE_FAKER") = IF cfg.faker THEN Unset ELSE "false"
      /\ EnvGet(env, "FAKER_LOCALE") = cfg.locale
  BY <1>2, SurrogateGet DEF SurrogateVariables
<1>4. "false" \in Off /\ Unset \notin Off
  BY DEF Off, Unset
<1> QED BY <1>3, <1>4 DEF LocaleKnown

LEMMA BootFollows ==
    ASSUME MenuInputsSound, LaunchInv, MenuInv
    PROVE  MenuLaunchBoots
<1> SUFFICES ASSUME NEW l \in Launches, At(l, "serving"), host.flags[l].menu, Filled(run[l].cfg),
                    ToSet(ToStart(run[l].cfg)) \subseteq run[l].started
             PROVE  BootsHere(l) <=> ~(run[l].cfg.faker /\ run[l].cfg.locale \in UnknownLocales)
  BY DEF MenuLaunchBoots
<1>1. PICK r : r = run[l]
  OBVIOUS
<1>2. PICK cfg : cfg = r.cfg
  OBVIOUS
<1>3. PICK started : started = r.started
  OBVIOUS
<1>4. PICK env : env = r.env
  OBVIOUS
<1>5. IsRun(r) /\ ConfigOk(cfg) /\ env = GuardrailEnv(cfg, host.environ, started)
  BY <1>1, <1>2, <1>3, <1>4 DEF LaunchInv, RunOk, At
<1>6. l \in DOMAIN host.flags /\ MenuConfig(cfg) /\ Valid(cfg)
  BY <1>1, <1>2 DEF MenuInv, MenuRunOk, At
<1>7. PICK disk : disk = host.disk
  OBVIOUS
<1>8. host.environ = EmptyEnv /\ FilesThere(disk) /\ UrlsTyped
  BY <1>6, <1>7 DEF MenuInputsSound, LaunchInv, FilesThere, UrlsTyped
<1>9. started \in SUBSET ServiceNames /\ env = GuardrailEnv(cfg, EmptyEnv, started)
  BY <1>3, <1>5, <1>8 DEF IsRun
<1>10. Filled(cfg) /\ ToSet(ToStart(cfg)) \subseteq started
  BY <1>1, <1>2, <1>3
<1>11. FieldsParse(env) /\ LimitsUsable(env)
  BY <1>5, <1>6, <1>8, <1>9, MenuFields
<1>12. UrlsGiven(env)
  BY <1>5, <1>6, <1>9, <1>10, MenuUrls
<1>13. PatternsLoad(disk, env) /\ DenylistsLoad(disk, env) /\ PromptsLoad(disk, env)
  BY <1>5, <1>6, <1>8, <1>9, MenuFiles
<1>14. FactoriesSucceed(BuildDetectors(cfg.mode), env)
  BY <1>5, <1>6, <1>9, <1>10, MenuFactories
<1>15. ClientsMade(BuildDetectors(cfg.mode), env)
  BY <1>5, <1>6, <1>8, <1>9, <1>12, MenuClients
<1>16. LocaleKnown(env) <=> ~(cfg.faker /\ cfg.locale \in UnknownLocales)
  BY <1>5, <1>6, <1>9, MenuLocale
<1>17. Boots(disk, cfg.mode, env) <=> ~(cfg.faker /\ cfg.locale \in UnknownLocales)
  BY <1>11, <1>12, <1>13, <1>14, <1>15, <1>16 DEF Boots
<1> QED BY <1>1, <1>2, <1>4, <1>7, <1>17 DEF BootsHere

\* Whatever is edited in whatever order, a configuration that the menu's check
\* accepts starts the guardrail, if the URL rows it shows are filled in and the
\* services it asks for were started: except, and that always, when Faker is in
\* use with a locale it does not know (_edit_setting, _validate, build_run_argv,
\* SurrogateGenerator).
THEOREM MenuBoots == MenuInputsSound /\ Spec => []MenuLaunchBoots
<1> SUFFICES ASSUME MenuInputsSound PROVE Spec => []MenuLaunchBoots
  OBVIOUS
<1>1. LaunchInv /\ MenuInv => MenuLaunchBoots
  BY BootFollows
<1> QED BY <1>1, LaunchInvariant, MenuInvariant, PTL
=============================================================================
