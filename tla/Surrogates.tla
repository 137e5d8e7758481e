----------------------------- MODULE Surrogates -----------------------------
(***************************************************************************)
(* SurrogateGenerator (surrogate.py) and the loop of Pipeline.anonymize    *)
(* that uses it: a process-wide LRU cache from (type, text, overrides) to  *)
(* surrogate, the set of surrogates in use, the LRU of per-locale Faker    *)
(* instances, and the request being mapped.  The loop has no await, so one *)
(* request is mapped at a time, one match per action.                      *)
(*                                                                         *)
(* What a generator prints is data: gen maps a type, a text, the source of *)
(* the value (a Faker, or the keyed hash) and the attempt to a value, and  *)
(* is fixed when the process starts, as the salt is.                       *)
(***************************************************************************)
EXTENDS Integers, Sequences, FiniteSets, SequencesExt

CONSTANTS Text,            \* original values the detectors report
          EType,           \* entity types
          AlwaysOpaque,    \* the types whose _GENERATOR_SPEC entry is None
          Value,           \* what generators print; may hold originals too
          Locale,          \* faker_locale overrides a request may carry
          ValidLocale,     \* those Faker accepts
          NoLocale, NoFaker, DefaultFaker, Hash,
          UseFaker,        \* USE_FAKER
          CacheMaxSize,    \* SURROGATE_CACHE_MAX_SIZE as configured
          FakerLruMax,     \* SURROGATE_FAKER_LRU_MAX
          MaxAttempts,     \* _MAX_COLLISION_ATTEMPTS
          Generators,      \* the candidate functions a salt can give
          Fallback(_, _),  \* the 64-bit token after the last attempt
          MaxRequestSize   \* bound: distinct texts in one request

Attempt == 0..(MaxAttempts - 1)
Source == {Hash, DefaultFaker} \cup ValidLocale
Key == [etype : EType, text : Text, faker : BOOLEAN, locale : Locale \cup {NoLocale}]
Token == {Fallback(e, t) : e \in EType, t \in Text}
Record == [key : Key, sur : Value \cup Token]

ASSUME SurrogatesAssumption ==
    /\ CacheMaxSize \in Int
    /\ FakerLruMax \in Nat \ {0}
    /\ MaxAttempts \in Nat
    /\ MaxRequestSize \in Nat
    /\ ValidLocale \subseteq Locale
    /\ NoLocale \notin Locale
    /\ UseFaker \in BOOLEAN
    /\ Generators \subseteq [EType \X Text \X Source \X Attempt -> Value]
\* A fallback is "[TYPE_" and 16 lower-case hex digits of a 64-bit keyed hash:
\* no generator prints that form, no two entities share it and none is its own.
ASSUME FallbackAssumption ==
    /\ Token \cap Value = {}
    /\ \A e \in EType, t \in Text : Fallback(e, t) # t
    /\ \A e1, e2 \in EType, t1, t2 \in Text :
          Fallback(e1, t1) = Fallback(e2, t2) => e1 = e2 /\ t1 = t2

VARIABLES gen,       \* the candidate function of this process
          fake,      \* _fake: the default Faker, or NoFaker
          cache,     \* _cache, least recently used first
          used,      \* _used_surrogates
          fakers,    \* _faker_by_locale, least recently used first
          req,       \* overrides of the request being mapped
          mapping,   \* original_to_surrogate, in insertion order
          outcome    \* how the last request left the loop

vars == <<gen, fake, cache, used, fakers, req, mapping, outcome>>

Cap == IF CacheMaxSize < 1 THEN 1 ELSE CacheMaxSize
Idle == [open |-> FALSE, faker |-> FALSE, locale |-> NoLocale]
NoOutcome == [state |-> "none", originals |-> {}, restores |-> {}]

\* effective_locale collapses to None when the request is opaque.
KeyOf(e, t) == [etype |-> e, text |-> t, faker |-> req.faker,
                locale |-> IF req.faker THEN req.locale ELSE NoLocale]

Keys == {cache[i].key : i \in 1..Len(cache)}
Surrogates(s) == {s[i].sur : i \in 1..Len(s)}
Texts(s) == {s[i].key.text : i \in 1..Len(s)}
Slot(k) == CHOOSE i \in 1..Len(cache) : cache[i].key = k

\* _resolve_faker_locked: an unknown locale falls back to the default Faker.
FakerFor(k) ==
    IF ~k.faker THEN NoFaker
    ELSE IF k.locale \in ValidLocale THEN k.locale
    ELSE fake

\* Slips: the fallback cached under the bad locale; no move_to_end and no cap.
FakersKeepInvalid(k) == IF k.faker /\ k.locale # NoLocale THEN <<k.locale>> ELSE fakers
FakersUnbounded(k) == IF k.faker /\ k.locale \in ValidLocale \ ToSet(fakers)
                      THEN Append(fakers, k.locale) ELSE fakers

\* The per-locale LRU after resolving k: a Faker found moves to the end, a new
\* one pushes out the oldest.
FakersAfter(k) ==
    LET at == CHOOSE i \in 1..Len(fakers) : fakers[i] = k.locale
        grown == Append(fakers, k.locale)
    IN IF ~k.faker \/ k.locale \notin ValidLocale THEN fakers
       ELSE IF \E i \in 1..Len(fakers) : fakers[i] = k.locale
       THEN Append(RemoveAt(fakers, at), k.locale)
       ELSE IF Len(grown) > FakerLruMax THEN Tail(grown) ELSE grown

\* The generator table of the request has a Faker lambda for this type.
Realistic(k) == k.faker /\ k.etype \notin AlwaysOpaque
\* ... which raises AttributeError when it is handed no Faker.
Raises(k) == Realistic(k) /\ FakerFor(k) = NoFaker

Candidate(k, n) ==
    gen[k.etype, k.text, IF Realistic(k) THEN FakerFor(k) ELSE Hash, n]
\* Slips: one half of the retry loop's test.
NotItself(k, n) == Candidate(k, n) # k.text
NotUsed(k, n) == Candidate(k, n) \notin used
Accepted(k, n) == Candidate(k, n) # k.text /\ Candidate(k, n) \notin used
FirstAccepted(k) ==
    CHOOSE n \in Attempt : Accepted(k, n) /\ \A m \in 0..(n - 1) : ~Accepted(k, m)
Surrogate(k) == IF \E n \in Attempt : Accepted(k, n)
                THEN Candidate(k, FirstAccepted(k))
                ELSE Fallback(k.etype, k.text)

\* An invalid FAKER_LOCALE stops the boot only under USE_FAKER=true.
Init == /\ gen \in Generators
        /\ fake \in IF UseFaker THEN {DefaultFaker} ELSE {DefaultFaker, NoFaker}
        /\ cache = <<>> /\ used = {} /\ fakers = <<>>
        /\ req = Idle /\ mapping = <<>>
        /\ outcome = NoOutcome

Begin(f, l) ==
    /\ ~req.open
    /\ req' = [open |-> TRUE, faker |-> f, locale |-> l]
    /\ mapping' = <<>>
    /\ outcome' = NoOutcome
    /\ UNCHANGED <<gen, fake, cache, used, fakers>>

\* A match whose text the request has not mapped yet.
Unmapped(t) == req.open /\ Len(mapping) < MaxRequestSize /\ t \notin Texts(mapping)

\* Slip: a hit does not refresh the record.
HitInPlace(e, t) ==
    /\ Unmapped(t)
    /\ KeyOf(e, t) \in Keys
    /\ mapping' = Append(mapping, cache[Slot(KeyOf(e, t))])
    /\ UNCHANGED <<gen, fake, cache, used, fakers, req, outcome>>

\* for_match finds the key: move_to_end, no Faker is resolved.
Hit(e, t) ==
    LET k == KeyOf(e, t)
    IN /\ Unmapped(t)
       /\ k \in Keys
       /\ cache' = Append(RemoveAt(cache, Slot(k)), cache[Slot(k)])
       /\ mapping' = Append(mapping, cache[Slot(k)])
       /\ UNCHANGED <<gen, fake, used, fakers, req, outcome>>

\* Slip: eviction leaves the surrogate in the used set.
IssueKeepUsed(e, t) ==
    LET k == KeyOf(e, t)
        r == [key |-> k, sur |-> Surrogate(k)]
        grown == Append(cache, r)
    IN /\ Unmapped(t) /\ k \notin Keys /\ ~Raises(k)
       /\ mapping' = Append(mapping, r)
       /\ fakers' = FakersAfter(k)
       /\ cache' = IF Len(grown) > Cap THEN Tail(grown) ELSE grown
       /\ used' = used \cup {r.sur}
       /\ UNCHANGED <<gen, fake, req, outcome>>

\* for_match issues a surrogate and evicts the least recently used record.
Issue(e, t) ==
    LET k == KeyOf(e, t)
        r == [key |-> k, sur |-> Surrogate(k)]
        grown == Append(cache, r)
    IN /\ Unmapped(t)
       /\ k \notin Keys
       /\ ~Raises(k)
       /\ mapping' = Append(mapping, r)
       /\ fakers' = FakersAfter(k)
       /\ IF Len(grown) > Cap
          THEN /\ cache' = Tail(grown)
               /\ used' = (used \cup {r.sur}) \ {Head(grown).sur}
          ELSE /\ cache' = grown
               /\ used' = used \cup {r.sur}
       /\ UNCHANGED <<gen, fake, req, outcome>>

\* The generator raises; anonymize propagates it and the request is BLOCKED.
Fail(e, t) ==
    /\ Unmapped(t)
    /\ KeyOf(e, t) \notin Keys
    /\ Raises(KeyOf(e, t))
    /\ outcome' = [NoOutcome EXCEPT !.state = "raised"]
    /\ req' = Idle
    /\ mapping' = <<>>
    /\ UNCHANGED <<gen, fake, cache, used, fakers>>

\* reverse_mapping = {v: k ...}: of two originals with one surrogate the later
\* stays.
Restorable(m) == {m[i].key.text : i \in {i \in 1..Len(m) :
                    \A j \in (i + 1)..Len(m) : m[j].sur # m[i].sur}}

Finish == /\ req.open
          /\ outcome' = [state |-> "mapped",
                         originals |-> Texts(mapping),
                         restores |-> Restorable(mapping)]
          /\ req' = Idle
          /\ mapping' = <<>>
          /\ UNCHANGED <<gen, fake, cache, used, fakers>>

Next == \/ \E f \in BOOLEAN, l \in Locale \cup {NoLocale} : Begin(f, l)
        \/ \E e \in EType, t \in Text : Hit(e, t) \/ Issue(e, t) \/ Fail(e, t)
        \/ Finish

Spec == Init /\ [][Next]_vars
-----------------------------------------------------------------------------
TypeOK == /\ gen \in Generators
          /\ fake \in {DefaultFaker, NoFaker}
          /\ cache \in Seq(Record)
          /\ used \subseteq Value \cup Token
          /\ fakers \in Seq(ValidLocale)
          /\ req \in [open : BOOLEAN, faker : BOOLEAN, locale : Locale \cup {NoLocale}]
          /\ mapping \in Seq(Record)

IsFallback(r) == r.sur = Fallback(r.key.etype, r.key.text)

\* One record per key, and neither LRU ever holds more than its cap.
CacheSound == /\ \A i, j \in 1..Len(cache) : cache[i].key = cache[j].key => i = j
              /\ Len(cache) <= Cap
              /\ Len(fakers) <= FakerLruMax

\* Every generated surrogate the cache holds is known as used, so it is never
\* handed out again, and nothing is marked used that the cache has let go.
UsedTracked == /\ \A i \in 1..Len(cache) : IsFallback(cache[i]) \/ cache[i].sur \in used
               /\ used \subseteq Surrogates(cache)

\* No surrogate in the cache stands for two different originals, whatever the
\* order of requests, overrides and evictions.
CacheInjective ==
    \A i, j \in 1..Len(cache) : cache[i].sur = cache[j].sur =>
        i = j \/ (/\ cache[i].key.etype = cache[j].key.etype
                  /\ cache[i].key.text = cache[j].key.text)

\* Within a request of at most one text more than the cache holds, two originals
\* never get one surrogate: the LRU evicts nothing the request has just touched
\* before the last of them has its surrogate.
Injective(s) == \A i, j \in 1..Len(s) : s[i].sur = s[j].sur => s[i].key.text = s[j].key.text
RequestInjective == Len(mapping) <= Cap + 1 => Injective(mapping)

\* The vault entry of a finished request restores every original it replaced.
\* config.py says of SURROGATE_CACHE_MAX_SIZE that zero is fine when per-request
\* consistency is enough, and surrogate.py that eviction does not touch it.
VaultComplete == outcome.restores = outcome.originals

\* No surrogate is the original it hides.
NeverIdentity == \A i \in 1..Len(cache) : cache[i].sur # cache[i].key.text

\* "The override always works, regardless of config default."
OverrideWorks == outcome.state # "raised"
=============================================================================
