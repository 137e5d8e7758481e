--------------------------- MODULE DetectionCaches ---------------------------
(***************************************************************************)
(* The two result caches around detection and the prewarm that fills them  *)
(* from responses (pipeline.py: _detect_one, _prewarm_caches; the          *)
(* get_or_compute and put of the memory and the Redis backends).           *)
(*                                                                         *)
(* A session is one round trip with one text: anonymize looks the text up  *)
(* in the pipeline cache, on a miss asks every per-text detector, each of  *)
(* which may have a cache of its own; the response restores some text and  *)
(* seeds both layers from the vault entry.  Lookups and writes are steps of*)
(* their own: other sessions run while a detector computes.                *)
(*                                                                         *)
(* Detection is context free here: a detector reports an entity wherever   *)
(* the text holds it.  LRU eviction, TTL expiry and a flushed server are   *)
(* one action: a slot may vanish at any time.                              *)
(***************************************************************************)
EXTENDS Naturals, Sequences, FiniteSets, SequencesExt

CONSTANTS Session, Text, Entity, Detector, EType,
          Absent,     \* no type: the entity is not reported
          None,       \* no slot
          Corrupt,    \* a slot whose payload does not decode
          Holds,      \* [Text -> SUBSET Entity]
          Reports,    \* [Detector -> [Entity -> EType \cup {Absent}]]
          Cached,     \* detectors with a result cache of their own
          Worlds      \* deployments, see Deployment

\* A deployment: the backend of both layers, the detectors with input_mode
\* merged, the active detector lists requests may resolve to, whether a Redis
\* GET or SET may fail, whether a bad payload is in Redis from the start, the
\* detectors that fail and are set to fail open, and whether the model repeats
\* only entities of the request.
Deployment == [backend : {"memory", "redis"}, merged : SUBSET Detector,
               modes : SUBSET Seq(Detector), redis_fails : BOOLEAN, corrupted : BOOLEAN,
               fail_open : SUBSET Detector, echo_only : BOOLEAN]

Verdict == [Entity -> EType \cup {Absent}]
DKey == Detector \X Text
\* Per entity its type and the detectors that reported it.
Finding == [Entity -> [type : EType \cup {Absent}, sources : SUBSET Detector]]

ASSUME DetectionCachesAssumption ==
    /\ Holds \in [Text -> SUBSET Entity]
    /\ Reports \in [Detector -> Verdict]
    /\ Cached \subseteq Detector
    /\ "pipeline" \notin Detector
    /\ None \notin Finding /\ Corrupt \notin Finding
    /\ \A w \in Worlds : w \in Deployment /\ \A m \in w.modes : m # <<>> /\ IsInjective(m)

VARIABLES world,   \* the deployment
          pcache,  \* pipeline cache: slots that exist or have existed
          dcache,  \* per-detector caches
          ses      \* per session: where its round trip is

vars == <<world, pcache, dcache, ses>>

Nothing == [e \in Entity |-> Absent]
Empty == [e \in Entity |-> [type |-> Absent, sources |-> {}]]

\* The list comprehensions that part the active detectors by input_mode: m
\* without the members in out.  A recursive function, for the proofs' sake.
Without(m, out) ==
    LET kept[i \in 0..Len(m)] ==
            IF i = 0 THEN <<>>
            ELSE IF m[i] \in out THEN kept[i - 1] ELSE Append(kept[i - 1], m[i])
    IN kept[Len(m)]
PerText(m) == Without(m, world.merged)
MergedOf(m) == Without(m, Detector \ world.merged)

\* The places in ds of the detectors that reported e.
By(ds, found, e) == {i \in 1..Len(ds) : found[ds[i]][e] # Absent}

\* Slip: only the detector that named the type is kept as a source.
DedupFirstOnly(ds, found) ==
    [e \in Entity |->
        LET by == By(ds, found, e)
        IN IF by = {} THEN [type |-> Absent, sources |-> {}]
           ELSE [type |-> found[ds[Min(by)]][e], sources |-> {ds[Min(by)]}]]

\* _dedup_with_sources: the first detector in order names the type, every one
\* that reported the entity is a source.
Dedup(ds, found) ==
    [e \in Entity |->
        LET by == By(ds, found, e)
        IN [type |-> IF by = {} THEN Absent ELSE found[ds[Min(by)]][e],
            sources |-> {ds[i] : i \in by}]]

\* anonymize's union over the per-text result and the merged ones.
Union(per, more) ==
    [e \in Entity |-> [type |-> IF per[e].type # Absent THEN per[e].type ELSE more[e].type,
                       sources |-> per[e].sources \cup more[e].sources]]

\* What a real call of the detector on the text reports.
Real(d, t) == [e \in Entity |-> IF e \in Holds[t] THEN Reports[d][e] ELSE Absent]
RealDedup(t, ds) == Dedup(ds, [d \in Detector |-> Real(d, t)])

PSlot(k) == IF k \in DOMAIN pcache THEN pcache[k] ELSE None
Readable(slot) == slot \notin {None, Corrupt}
WithSlot(k, v) == [j \in DOMAIN pcache \cup {k} |-> IF j = k THEN v ELSE pcache[j]]

\* get_or_compute's write: memory overwrites, Redis sets only an absent key.
Overwrites(slot) == world.backend = "memory" \/ slot = None
RedisFails == world.backend = "redis" /\ world.redis_fails

Idle == [pc |-> "idle", text |-> None, mode |-> <<>>, slot |-> None, keep |-> FALSE,
         asked |-> {}, busy |-> {}, unsaved |-> {}, found |-> [d \in Detector |-> Nothing],
         entry |-> Empty, out |-> None, todo |-> {}]

Init == /\ world \in Worlds
        /\ \/ /\ ~(world.corrupted /\ world.backend = "redis")
              /\ pcache = <<>>
           \/ /\ world.corrupted /\ world.backend = "redis"
              /\ \E t \in Text, m \in world.modes :
                    pcache = [k \in {<<t, PerText(m)>>} |-> Corrupt]
        /\ dcache = [k \in DKey |-> None]
        /\ ses = [s \in Session |-> Idle]

SetSes(s, r) == ses' = [ses EXCEPT ![s] = r]

\* anonymize: the pipeline cache is asked for the per-text detectors' slot.
\* When a Redis GET fails the result is computed and not stored (keep).
Anonymize(s, t, m) ==
    LET ds == PerText(m)
        slot == PSlot(<<t, ds>>)
        begun == [Idle EXCEPT !.pc = "detecting", !.text = t, !.mode = m]
    IN /\ ses[s].pc = "idle"
       /\ \/ /\ Readable(slot) \/ ds = <<>>
             /\ SetSes(s, [begun EXCEPT !.slot = IF ds = <<>> THEN Empty ELSE slot,
                                        !.asked = ToSet(ds)])
          \/ /\ ~Readable(slot) /\ ds # <<>>
             /\ SetSes(s, [begun EXCEPT !.keep = TRUE])
          \/ /\ RedisFails /\ ds # <<>>
             /\ SetSes(s, begun)
       /\ UNCHANGED <<world, pcache, dcache>>

\* A detector starts: its own cache is asked first, if it has one.
Ask(s, d) ==
    LET r == ses[s]
        slot == dcache[<<d, r.text>>]
        asked == [r EXCEPT !.asked = @ \cup {d}]
        computing == [asked EXCEPT !.busy = @ \cup {d}]
    IN /\ r.pc = "detecting"
       /\ d \in ToSet(r.mode) \ r.asked
       /\ \/ /\ d \in Cached /\ Readable(slot)
             /\ SetSes(s, [asked EXCEPT !.found[d] = slot])
          \/ /\ d \in Cached => ~Readable(slot)
             /\ SetSes(s, computing)
          \/ /\ d \in Cached /\ RedisFails
             /\ SetSes(s, [computing EXCEPT !.unsaved = @ \cup {d}])
       /\ UNCHANGED <<world, pcache, dcache>>

\* The detector answers; its cache is written unless the write is lost.
Answer(s, d) ==
    LET r == ses[s]
        v == Real(d, r.text)
    IN /\ d \in r.busy
       /\ SetSes(s, [r EXCEPT !.busy = @ \ {d}, !.found[d] = v])
       /\ \/ /\ d \in Cached \ r.unsaved /\ Overwrites(dcache[<<d, r.text>>])
             /\ dcache' = [dcache EXCEPT ![<<d, r.text>>] = v]
          \/ /\ \/ d \notin Cached \/ d \in r.unsaved
                \/ ~Overwrites(dcache[<<d, r.text>>])
                \/ RedisFails
             /\ UNCHANGED dcache
       /\ UNCHANGED <<world, pcache>>

\* Slip: the error is caught around all the detectors of the text.
DegradeAll(s, d) ==
    /\ d \in ses[s].busy \cap world.fail_open
    /\ SetSes(s, [ses[s] EXCEPT !.busy = {}])
    /\ UNCHANGED <<world, pcache, dcache>>

\* The detector raises under fail-open: _run_detector turns it into no match,
\* outside the detector's own cache.
Degrade(s, d) ==
    /\ d \in ses[s].busy \cap world.fail_open
    /\ SetSes(s, [ses[s] EXCEPT !.busy = @ \ {d}])
    /\ UNCHANGED <<world, pcache, dcache>>

\* The per-text detectors are done: their deduped result goes into the slot.
Store(s) ==
    LET r == ses[s]
        ds == PerText(r.mode)
        k == <<r.text, ds>>
        v == Dedup(ds, r.found)
    IN /\ r.pc = "detecting" /\ r.slot = None
       /\ ToSet(ds) \subseteq r.asked \ r.busy
       /\ SetSes(s, [r EXCEPT !.slot = v])
       /\ \/ /\ r.keep /\ Overwrites(PSlot(k))
             /\ pcache' = WithSlot(k, v)
          \/ /\ ~r.keep \/ ~Overwrites(PSlot(k)) \/ (RedisFails)
             /\ UNCHANGED pcache
       /\ UNCHANGED <<world, dcache>>

\* Every detector is done: the vault entry is what was found.
Finish(s) ==
    LET r == ses[s]
    IN /\ r.pc = "detecting" /\ r.slot # None
       /\ ToSet(r.mode) \subseteq r.asked /\ r.busy = {}
       /\ SetSes(s, [Idle EXCEPT !.pc = "sent", !.text = r.text, !.mode = r.mode,
                        !.entry = Union(r.slot, Dedup(MergedOf(r.mode), r.found))])
       /\ UNCHANGED <<world, pcache, dcache>>

\* The response carries the text t once restored, with what a failed detector
\* let through.  deanonymize prewarms the pipeline slot and the cache of each
\* active detector that has one; without a vault entry it returns at once.
MayAnswer(s, t) ==
    world.echo_only => \A e \in Holds[t] :
        (\E d \in ToSet(ses[s].mode) : Reports[d][e] # Absent) => e \in Holds[ses[s].text]
Respond(s, t) ==
    LET r == ses[s]
    IN /\ r.pc = "sent"
       /\ MayAnswer(s, t)
       /\ SetSes(s, IF r.entry = Empty THEN Idle
                    ELSE [r EXCEPT !.pc = "warming", !.out = t,
                             !.todo = {"pipeline"} \cup (ToSet(r.mode) \cap Cached)])
       /\ UNCHANGED <<world, pcache, dcache>>

\* Slips: the whole entry under each text; every restored entity in each slot.
SynthWhole(r) == r.entry
SynthForAll(r, d) == [e \in Entity |-> IF e \in Holds[r.out] THEN r.entry[e].type ELSE Absent]

\* What the vault entry says about the text: every restored original in it.
Synth(r) == [e \in Entity |-> IF e \in Holds[r.out] THEN r.entry[e] ELSE Empty[e]]
SynthFor(r, d) ==
    [e \in Entity |-> IF d \in Synth(r)[e].sources THEN Synth(r)[e].type ELSE Absent]

WarmDone(s, item) ==
    LET left == ses[s].todo \ {item}
    IN SetSes(s, IF left = {} THEN Idle ELSE [ses[s] EXCEPT !.todo = left])

\* The slot is that of the restored text and every active detector.
WarmKey(r) == <<r.out, r.mode>>

\* put: only an absent slot is written.
WarmPipeline(s) ==
    LET r == ses[s]
        k == WarmKey(r)
    IN /\ "pipeline" \in r.todo
       /\ \/ /\ PSlot(k) = None
             /\ pcache' = WithSlot(k, Synth(r))
          \/ /\ PSlot(k) # None \/ (RedisFails)
             /\ UNCHANGED pcache
       /\ WarmDone(s, "pipeline")
       /\ UNCHANGED <<world, dcache>>

WarmDetector(s, d) ==
    LET r == ses[s]
        k == <<d, r.out>>
    IN /\ d \in r.todo
       /\ \/ /\ dcache[k] = None
             /\ dcache' = [dcache EXCEPT ![k] = SynthFor(r, d)]
          \/ /\ dcache[k] # None \/ (RedisFails)
             /\ UNCHANGED dcache
       /\ WarmDone(s, d)
       /\ UNCHANGED <<world, pcache>>

EvictPipeline(k) == /\ PSlot(k) # None
                    /\ pcache' = [j \in DOMAIN pcache \ {k} |-> pcache[j]]
                    /\ UNCHANGED <<world, dcache, ses>>
EvictDetector(k) == /\ dcache[k] # None
                    /\ dcache' = [dcache EXCEPT ![k] = None]
                    /\ UNCHANGED <<world, pcache, ses>>

Next == \/ \E s \in Session, t \in Text, m \in world.modes : Anonymize(s, t, m)
        \/ \E s \in Session, d \in Detector : Ask(s, d) \/ Answer(s, d) \/ Degrade(s, d)
        \/ \E s \in Session : Store(s) \/ Finish(s) \/ WarmPipeline(s)
        \/ \E s \in Session, t \in Text : Respond(s, t)
        \/ \E s \in Session, d \in Detector : WarmDetector(s, d)
        \/ \E k \in DOMAIN pcache : EvictPipeline(k)
        \/ \E k \in DKey : EvictDetector(k)

Spec == Init /\ [][Next]_vars
-----------------------------------------------------------------------------
SessionState ==
    [pc : {"idle", "detecting", "sent", "warming"}, text : Text \cup {None},
     mode : Seq(Detector), slot : Finding \cup {None}, keep : BOOLEAN,
     asked : SUBSET Detector, busy : SUBSET Detector, unsaved : SUBSET Detector,
     found : [Detector -> Verdict], entry : Finding, out : Text \cup {None},
     todo : SUBSET ({"pipeline"} \cup Detector)]

TypeOK ==
    /\ world \in Worlds
    /\ \A k \in DOMAIN pcache : /\ k \in Text \X Seq(Detector)
                                /\ pcache[k] \in Finding \cup {Corrupt}
    /\ dcache \in [DKey -> Verdict \cup {None}]
    /\ ses \in [Session -> SessionState]

\* No detector's failure is hidden and the model makes nothing up.
Sound == world.fail_open = {} /\ world.echo_only

\* A pipeline slot, whoever wrote it, holds exactly what running its detectors
\* on its text gives: the entities, their types and their sources.  "Real
\* detection produces a deterministic result for a fixed cache key"
\* (pipeline_cache.py) and a prewarmed slot "matches what real detection on
\* that text alone would produce" (_prewarm_caches).
PipelineSlotsTruthful ==
    Sound => \A k \in DOMAIN pcache : pcache[k] # Corrupt => pcache[k] = RealDedup(k[1], k[2])

\* A detector's slot holds what that detector reports for the text: prewarm
\* must "match what a real det.detect(text) call would have produced".
DetectorSlotsTruthful ==
    Sound => \A k \in DKey : Readable(dcache[k]) => dcache[k] = Real(k[1], k[2])

\* Even when detectors fail open and the model says what it likes, no slot
\* claims an entity for a detector that would not have reported it.
SlotsNeverInvent ==
    /\ \A k \in DOMAIN pcache : pcache[k] # Corrupt =>
          \A e \in Entity : pcache[k][e].sources \subseteq RealDedup(k[1], k[2])[e].sources
    /\ \A k \in DKey : dcache[k] # None =>
          \A e \in Entity : dcache[k][e] \in {Absent, Real(k[1], k[2])[e]}

\* What a request anonymizes is what fresh detection would find, from whatever
\* mix of slots and computed answers the result came.
NothingMissed ==
    Sound => \A s \in Session : ses[s].pc = "sent" =>
        \A e \in Holds[ses[s].text] :
            ses[s].entry[e].sources = {d \in ToSet(ses[s].mode) : Reports[d][e] # Absent}

\* An outage that fails open costs what the failed detector alone reports and no
\* more, now or later: its incomplete result stays in the slots of both layers and
\* goes into those a prewarm writes, where other sessions take it for a clean one,
\* and still every fail-closed detector's findings are anonymized ("degrades
\* silently (other detectors still contribute)", docs/detector-bench.md:286).
FailOpenContained ==
    world.echo_only => \A s \in Session : ses[s].pc = "sent" =>
        \A e \in Holds[ses[s].text], d \in ToSet(ses[s].mode) \ world.fail_open :
            Reports[d][e] # Absent => d \in ses[s].entry[e].sources
=============================================================================
