# Verification of anonymizer_guardrail

anonymizer_guardrail is a LiteLLM guardrail: before a model call it replaces the
sensitive values of the request by surrogates, and after the call it puts the
originals back into the reply. This directory holds TLA+ models of it, the TLC
configurations that check them, and proofs that TLAPS checks.

Paths below are relative to `src/src/anonymizer_guardrail/` unless they begin with
`docs/`, `services/` or `tools/`.

## 1. The system

One asyncio process answers `POST /beta/litellm_basic_guardrail_api` (`main.py`).
A call with `input_type` "request" runs `Pipeline.anonymize`, one with "response"
runs `Pipeline.deanonymize`; the two are tied by LiteLLM's call id. Several replicas may
share a Redis vault and Redis caches. The launcher starts one guardrail and the
services its detectors need as containers.

    LiteLLM --request--> body limit, main.guardrail --> parse_overrides
                           Pipeline.anonymize
                             |  detection (TaskGroups, semaphores)
                             |    pipeline cache -> detector caches -> detectors
                             |  surrogate per match (SurrogateGenerator)
                             |  vault.put(call id, surrogate -> original)
    LiteLLM --response-> main.guardrail --> Pipeline.deanonymize
                (samples of a stream)  |  vault.peek, substitution
                                       |  prewarm of both cache layers

| component | state | operations | hard behaviour | what makes it correct |
|---|---|---|---|---|
| vault contract, `vault.py`; in-process vault, `vault_memory.py` | OrderedDict of (timestamp, entry) | put, peek, pop, sweep, LRU cap | expiry against re-puts, early exit of the sweep, loss on restart, cap | entries shown are those put; nothing lost before its TTL unless the cap forces it |
| Redis vault, `vault_redis.py` | keys with a TTL on a server | SET EX, GET, GETDEL, encode, decode | lost answers, late and repeated commands, foreign payloads, replicas | the same contract; nothing forwarded unstored |
| surrogate generator, `surrogate.py` | LRU cache, used set, Faker LRU | `for_match` | collisions, eviction freeing a value still needed, missing Faker | one surrogate never stands for two originals |
| detection dispatch, `pipeline.py` | semaphores, in-flight counters, task trees | `_run_detection`, `_detect_one`, `_run_detector` | cancellation at every await, error policy, shared permits | no permit lost, no detector skipped, every request answered |
| pipeline cache and detector caches, `pipeline_cache*.py`, `detector/cache*.py`; prewarm in `pipeline.py` | slots in memory or Redis | get_or_compute, put | lookup and write apart, failing Redis, two writers of one slot (detection, prewarm) | a slot holds what real detection gives |
| response endpoint, `main.py` | none of its own | WAIT / NONE / INTERVENED / BLOCKED | arbitrary cuts of a growing reply, vault gone in between | LiteLLM's cursor: nothing shown is taken back |
| request endpoint, `main.py`; override parsing, `api.py` | none | body limit, bearer, validators | chunked bodies, malformed and conflicting parameters | a bad field is dropped alone and the request goes on (but for one value, disagreement 10) |
| regex and denylist detectors | compiled patterns | candidates, overlap strategies | overlaps, character folding, boundaries | every detected value is claimed, none twice |
| LLM, GLiNER and privacy-filter detectors | HTTP client, result cache | post, parse the reply, merge spans, cache key | half-usable replies, offsets, parameters that miss the key | what an answer reports is anonymized; a non-answer is an error |
| configuration, registries, resource files | read at boot | validation, `extends:` chains | bad values, cycles, precedence | a sound environment boots, with every pattern |
| launcher, `tools/launcher` | containers on the host, LaunchConfig | menu edits, start, wait, run, stop | partial start, name collisions, kills, other launches | what was started is wired and stopped; nothing else is |
| sidecars under `services/` | a loaded model | detect | — | — |
| benchmarks, image builder under `tools/` | — | — | — | — |

`PROJECT.json` lists the same components with their status, and under "hazards"
each thing that is hard to test in this code, at its line, with the property that
would catch it.

## 2. The modules

An operator introduced by a comment that begins with "Slip" is not part of a model. It
is the definition below it with a plausible error (a dropped test, an off-by-one, a
swapped order), kept to show that the property named in "mutants" of `PROJECT.json`
fails when the code is wrong in this way. Modules named `MC...` give the constants
their values for TLC.

### Vault, MemoryVault

`Vault` is the abstract contract: `visible[c]` is what a peek of call `c` shows; a
backend may forget an entry at any time, but never shows another one and never
brings one back. `MemoryVault` is `vault_memory.py`: `store` is the OrderedDict as a
sequence, oldest first. `Put` is the whole of `put`: sweep (`EvictExpired`),
pop-and-reinsert (`Drop`, `Append`), LRU cap (`KeepNewest`). The two clock reads
of `put` may be a tick apart. `last` and `later` are auxiliary: they remember what
was put, so that `Retained` can say what must still be there. `Restart` is a new
process. The refinement maps `visible[c]` to what `peek` would return now.

### VaultWire, RedisVault, RoundTrip

`VaultWire` is the wire format: an entry as JSON, and what `_decode_entry` makes of any
payload, in tagged values; it is where tuples become lists and back. `RedisVault` is
`vault_redis.py` over a connection: a task sends a command, the server executes it in
one step at some later moment (`Serve`), and the answer is delivered or the connection
breaks first. A command whose task gave up may still be on its way (`late`), and the
client library may send one again (`Resend`). Entries expire on the server's clock;
`Flush` and `Corrupt` are other users of the instance. A `scope` fixes the TTL, the tasks and
three bounds: how often a command is sent, how many abandoned ones are under way, when the
clock stops. `RoundTrip` EXTENDS it with both halves of the endpoint on any
replica: `Anonymize` ends in the put, `AnswerRequest` forwards or blocks; `Deanonymize` peeks
for every sample, `AnswerResponse` shows it. `PopUtility` is a task that pops, which the
contract allows. `stored` and `gone` are auxiliary: when the SET was last executed, and which
entries the outside has taken away since. At the server, every execution is a step of `Vault`.

### Surrogates

`surrogate.py` and the loop of `anonymize` (`pipeline.py:943-968`). The loop has no
await, so one request is mapped at a time, and each match is one action: `Hit`
(move_to_end), `Issue` (retries, fallback, insert, eviction) or `Fail` (the generator
raises). What a generator prints is data: a function `gen` of type, text, source of
the value and attempt, fixed with the salt. The fallback token is assumed unique per
(type, text), different from its own text and not a value any generator prints
(`FallbackAssumption`): it is a 64-bit keyed hash in a form nothing else has.

### Dispatch

The task tree of a request: an outer TaskGroup with one task per text and one call
per merged-mode detector, and in each text task an inner TaskGroup with one call per
per-text detector. A step is what a task does between two awaits. A cancelled task is
only `marked`; it unwinds in a step of its own, from wherever it is: not started,
queued at the semaphore, handed a permit but not resumed, or inside `detect`. A task that
has ended is collected by its group in a step of its own (`Collected`), which is when an
error cancels the siblings. A TaskGroup's rule that an error goes before its own cancellation
is in `TextFinish`. Which merged detectors are demoted for size is chosen freely at `Begin`.

`Wake`, `Release`, `LeaveQueue`, `Waiters` and `Locked` are asyncio's semaphore, which is
not part of the repository; they follow CPython 3.12, the version of the images
(`python:3.12-slim`). `pyproject.toml` also allows 3.11, whose semaphore wakes
waiters differently.

### DetectionCaches

A session is one round trip with one text through the two cache layers: `Anonymize`
(pipeline lookup), `Ask`/`Answer`/`Degrade` (detector cache and call), `Store`
(pipeline write), `Finish` (the vault entry), `Respond` and the two `Warm` actions
(prewarm). Lookup and write are separate steps, so other sessions come in between.
Memory overwrites a slot, Redis sets only an absent key (`Overwrites`). With Redis a
GET or SET may fail and a slot may hold an undecodable payload. LRU order, TTL and
flushes are one action: a slot may vanish at any time. Detection is context free: a
detector reports an entity wherever the text holds it. `Worlds` is the set of deployments
a behaviour may start in.

### Streaming

The response branch of the endpoint with `deanonymize`: `Sample` is a call with
`is_final` false and any prefix of the replies, `Final` the last call (or the only one).
`Replace` is `_build_replacer` (longest surrogate first, one pass), `HasPartialSuffix`
the suffix pattern. A text is a sequence of symbols, where a run of `[A-Z0-9_]` is one
symbol. A deployment is opaque, buffered Faker (also with opaque surrogates from an
override) or redaction only.

### Detection and its parts

What is found and what is let pass, as algorithms over small texts. A text is a sequence of
characters with Python's offsets (`TextMatch`); a character may stand for one
whose lower case is two characters, since that is where offsets go wrong.

- `RegexDetector`: `finditer`, the validators, capture groups, candidates. A pattern is a
  label and a value, both literal: what an expression may match beyond a literal
  does not matter to what becomes of a match.
- `Denylist`: loading a list, and both backends.
- `PrivacyFilter`: spans extracted, merged over gaps, split at paragraph breaks.
- `RemoteDetectors`: what the three services are asked and what each reply becomes:
  matches, the typed error, or an exception nobody wrote.
- `RequestParams`: the override table and its validators over JSON values of every kind.
- `Intake`: the body limit over ASGI messages, and the forwarded bearer.
- `DetectorCalls`: an override's kwargs, cache keys and posted requests.
- `PyLists`: `sorted`, a filtering comprehension and `dict.fromkeys`, by where each element
  ends up, because the prover knows nothing of the community operators for them.
- `Detection` composes them into one request: `Receive`, `Refuse`, `Trip` (the parse of the
  overrides raises), per call `Scan`, `Claim` (candidate by candidate), `Settle`, `Post`, `Hear`
  (any reply), then `Release` or `Block`. Order of tasks, permits and cancellation belong to `Dispatch`. Its two
  assumptions say what a process that booted and a JSON document make sure of (section 4).

### Launcher and its parts

- `LauncherSpecs`: each detector's `LAUNCHER_SPEC` and the Redis service.
- `LaunchConfig`: command line, preset and operator environment to a LaunchConfig, and that
  to the guardrail's environment.
- `Menu`: the rows shown for a configuration, what editing one does, the check.
- `ResourceFiles`, `Boot`: what the guardrail then reads, and whether it starts.
- `Launcher`: processes of the launcher on one host. `box` maps a container name to its
  state and to who ran it, which the launcher cannot see. A launch looks at a name, reaps,
  creates, waits (`WaitOn`, `Wait`), runs the guardrail in the foreground and, when that ends,
  walks its exit handler. `Ready`, `Crash`, `RemoveStopped` and `Kill` come from outside.

Left out: wording, ports, image tags' text, log level. Detector names are lower case as typed.
The refusal of a `run` by the engine is one step with the engine's check of the name.

## 3. The runs

| run | bounds | question |
|---|---|---|
| memory_vault | 3 calls, 2 entries, cap 2, TTL 1, clock to 3 | do expiry, cap and re-puts keep what must be kept, and is the contract of `Vault` implemented? |
| round_trip | 2 calls or a call and a popping task, 2 samples, a command sent twice, one late command, TTL 1 and the 0 that Redis rejects | what does the client get when commands are lost, late or repeated? |
| surrogates | 3 texts, 2 types, 3 locales (1 invalid), cap 2, 2 attempts | can two originals meet under one surrogate? |
| surrogates_small_cache, surrogates_override | as above with one type; cache size 0; no Faker | disagreements 1 and 2 |
| dispatch | 2 requests, 2 texts, a fail-closed per-text detector with 2 permits, a fail-open merged one with 1 | can a permit, a detector or a cancelled call be lost? |
| dispatch_live | 2 requests, 2 texts, one merged fail-closed detector | is every request answered and every waiter served? |
| detection | groups of worlds: local detectors, privacy-filter spans, the two services apart and merged | is what is detected claimed, and what is reported found? |
| detection_dots | a merged reply that reports a full stop | disagreement 3 |
| detection_caches | 2 sessions, 2 nested texts, 3 entities, 2 detectors, six deployments | does any slot differ from real detection, and what does an outage cost? |
| streaming | 2 completions, 14 replies, 4 deployments, every cut | is the cursor monotonic, and the end result the whole restoration? |
| launcher | 1 or 2 launches, 1 poll before the deadline, scenes of menu, command line, environment and files | is what was started wired and stopped, and does what the menu accepts boot? |

Why the bounds are enough. Three calls are one more than the vault's cap, and the clock
passes the TTL twice. Over Redis, one command sent twice and one abandoned command are
the least that let a SET be executed after its task gave up and after a later command; one
call beside a popping task and two calls meet it. Three texts are one more than the
surrogate cache holds, and their two attempts draw from two usable values, so retries,
fallbacks, reuse after eviction and an evicted fallback whose twin stays all happen. Two
permits are the smallest number with which one is free while a call queues behind another
that was handed the other; one permit and two requests are the smallest case in which a
waiter of one request is handed the permit of another's cancelled call. Two sessions let a
prewarm and a computation race for a slot; of the two texts one holds a subset of the other's
entities, and of the two detectors each knows an entity the other does not. The texts of
`detection` are short, but hold overlapping candidates, both kinds of boundary, a
character with a longer lower case and a paragraph break. Two launches are needed for one to
find, reuse or reap what another started; the pattern files form every graph of a root that
extends up to two files and one beside it that extends up to one.

The six deployments of `detection_caches`: Redis with failing calls and a corrupt slot; Redis,
and memory, with requests of two different detector lists; memory with a cached detector that
fails open, once with a model that adds entities and once with one that does not; a
merged-mode detector. Symmetry is used for requests and
texts of `dispatch`, sessions of `detection_caches` and valid locales of `surrogates`, which
the models do not tell apart, and never in a run with liveness properties.

CHECK_DEADLOCK FALSE is set in `detection`, `detection_dots`, `launcher`, `round_trip` and
`streaming`, because a request, a launch, a call and a reply end. `Dispatch` stutters
explicitly once every request is answered; the other systems never stop.

### Fairness

`dispatch_live`: weak fairness of each task's step. The event loop runs every ready task, and
a running call ends because each detector has a timeout of its own (the clients' timeouts in
`detector/llm.py`, `detector/remote_*.py`). No fairness is assumed for the arrival of requests.

`launcher`: weak fairness of `Progress(l)`, what a launch does by itself: every engine command
returns, and the readiness loop has a deadline. None for the operator at the menu, for
the guardrail's end, nor for services becoming ready. Safety properties assume none.

### Properties

- `StoreSound`, `SweepComplete`: the sweep exits at the first live entry; this is complete
  only because every put re-inserts at the end with the newest timestamp.
- `Retained`: an entry that is not expired and has fewer than cap other calls put after it
  is found unchanged.
- `ForwardedIsStored`: no text with surrogates goes to the model before its entry was stored.
  `RawForCause`: a sample goes back unrestored only after expiry or an outsider's doing.
  `RestoredByOwnEntry`: what restores a sample is the entry of its own request, to the field.
- `ImplementsVault` (both vaults): each operation is one of the contract's, or only forgets.
- `CacheSound`, `UsedTracked`, `CacheInjective`, `RequestInjective`, `NeverIdentity`: section 4.
- `PermitsConserved`, `InflightExact`, `NoIdlePermit`: permits add up in every state, and
  none is free while a call waits, save for the moment before a handover.
- `NothingSkipped`, `BlockedForCause`, `NoCallOutlivesRequest`: what a TaskGroup gives over
  gather, and what fail-closed means. `EveryRequestAnswered`, `EveryWaiterServed`: liveness.
- `ClaimsSettled`: no character is claimed twice, and no candidate is dropped but for a
  claimed one that overlaps it (and, longest first, is no shorter).
- `ParagraphsRespected`: merging and splitting spans loses no character but blanks and never
  crosses a paragraph break.
- `ReportedIsFound`: a request let through had an answer from every fail-closed service it
  asked, and all that an answer reports is anonymized.
- `OverridesHarmless`: of all a client may send only an integer too large for a float ends its
  request (disagreement 10). Otherwise no local detector trips, at least one configured detector
  runs, and GLiNER is asked for the client's threshold if it is a number from 0 to 1, for the
  configured one if it is anything else, a bool among them. `KeysTellRequestsApart`: equal cache
  keys mean equal questions (not the converse: a key may tell more apart than it must).
- `PipelineSlotsTruthful`, `DetectorSlotsTruthful`, `NothingMissed`: a cache hit equals
  detection. They hold where nothing fails open and the model repeats only entities of the request,
  and for detectors that agree on types. `SlotsNeverInvent` holds without the first two
  provisos. `FailOpenContained` holds without the first: an outage that fails open costs what
  the failed detector alone reports, although its incomplete result stays in both layers,
  is prewarmed, and is read by others; the rest is anonymized.
- `CursorMonotonic`, `StreamedEqualsWhole`, `NoSurrogateShown`, `WarmedIsFinal`: streaming is
  indistinguishable from one final answer. They are stated while the vault has the entry.
- `GuardrailWired`: the guardrail dials the containers its launch ran, whatever URL the operator
  set, and each Redis side a database of its own. A detector named twice whose URL the operator
  set is excepted (disagreement 14). `MenuLaunchBoots`: what the menu's check accepts, with the URL rows
  filled and nothing reused, boots in an empty environment, unless Faker is in use with a locale
  it does not know: then the guardrail never boots, and the check does not see it.
- `OnlyOwnStopped`: no running container is stopped by a launch that did not run it. Names
  are all the launcher knows, so two cases are excepted by name: another launch's
  container under a name this launch used, and variants (section 5).
- `EveryLaunchEnds`: a launch comes to its guardrail or ends, and ends without leftovers if it
  reaches its exit handler and is not killed there.
- `PatternsLoaded`: a chain of pattern files loads exactly if each is there, sound and none
  extends itself; then no pattern is lost, and the root file's come first.

The type invariants of the modules of section 4 (`TypeOK`, `RTTypeOK`) are theorems, so no run
lists them.

## 4. What is proved

The theorems hold for every value of the constants that satisfies the assumptions of the
module: types of the constants, a natural TTL, a positive Faker cap, unique fallbacks, kwargs
without lists, at least one permit per gated detector, finitely many requests, texts and
detectors, and those of Detection and Launcher named below. TLC evaluates them in every run.

**MemoryVault_proofs.** `StoreIsSound`: the type invariant and `StoreSound` are inductive
together. `Put` is the only hard step: the sweep returns a suffix of the store, dropping a
call and keeping the newest preserve order and distinctness, and the new record has the
newest timestamp. `SweepIsComplete` follows from chronology: what stands behind a live
record is live. `EntriesRetained` needs `RetainedInv`: the last record put for a call, unless
expired or pushed out, is in the store, and behind it stand only calls put later. By
the pigeonhole principle fewer than cap calls put later leave it in reach of the cap.
`VaultImplemented`: with `visible[c]` as the refinement mapping each action
is an abstract step or a stutter; sweeping and the cap only forget.

**Surrogates_proofs.** One inductive invariant, `IInv`, gives all five theorems. The listed
invariants alone are not inductive. Eviction discards a surrogate from the used set, which
would break `UsedTracked` if another record had the same one. So `CacheInv` adds that two
records with equal surrogates are both fallbacks, and that everything else is a value in
the used set. A fallback may be discarded while a twin is left in the cache, but no generator
prints a fallback, so it cannot be issued to another entity. `RequestInjective` needs
`MappingIsTail`: as long as the request fits the cache, what it has mapped is the recent end
of the cache in order, because hits move to the end. The next surrogate is therefore fresh
against all of it. That is the bound in `RequestInjective`: one text more than the cap, since
eviction comes after the surrogate is chosen.

**RoundTrip_proofs, first part: the Redis vault.** `EntryRead`: what `_decode_entry` reads of an encoded entry is that
entry, for every entry the pipeline builds. `TypeCorrect`; `VaultImplemented`: whatever is lost,
late or repeated, each execution on the server is a step of `Vault`, with `visible[c]` the
decoded live payload.

**RoundTrip_proofs, second part: the round trip.** The invariant `RTInv` joins the types with three facts: `LateOwn`, an
abandoned SET that may still be executed carries the entry of its own call; `UtilityPops`,
utility tasks only pop; `OfCall`, per call, what its phase says about `stored`, `gone` and the
store: its key holds no other call's entry, and holds its own while it should; the command in
hand is the one its phase awaits. From it `StoredFirst`, `NothingRawWithoutCause`, `OwnEntry`; `RoundTripOnVault` comes
from the steps of RedisVault.

**Dispatch_proofs.** `DispatchInv` is `TypeOK`, `Structure` and `Semaphores`. `Structure` is
structured concurrency: what a request's phase says of its tasks, a text task's of its calls,
and who is marked when. `Semaphores` says per detector that free permits, handed ones
and running calls make up the cap, that the counter is the number of running calls, that
the queue holds each waiting call once, and that where one waits unmarked, no permit is free or
one is being handed over. The six safety properties follow. Cancellation is the hard step: it strikes a
set of calls at once.

**DetectionCaches_proofs.** All theorems but the types are about `CachesInv`: every slot and every
session's partial result is honest, that is it credits a detector with an entity only
if the detector would report it, with its type, and complete for each detector that does not
fail open, if the model adds nothing. Completeness is kept per detector: with one for all of them
a single fail-open detector would leave nothing to say, and `FailOpenIsContained` is what it
leaves. The theorems have the hypothesis `AgreeOnTypes`: detectors that report an
entity report it under one type. Without it prewarm makes slots untruthful (section 5).

**Streaming_proofs.** `CursorNeverBack` rests on `RestoresToPrefix`: a cut in which
`HasPartialSuffix` finds nothing restores to a prefix of what any longer cut restores to. A
surrogate that begins before the cut begins with a bracket and goes on in the charset, so it is
whole on both sides of the comparison or the cut would have a partial suffix (`KeysAgree`).
`Replace` then takes the same steps on both up to the cut. `StreamInv` says that the client has
nothing or the restoration of such a cut. The hypothesis `OpaqueOrBuffered` is what the
deployments of the run have in common: samples are held back, nothing is substituted, or every
surrogate has the opaque shape. The lower-case fallback of section 6 has not. `NoneShown` has
another, `ApartTexts`: what an original puts into a text has no piece of a surrogate in it.
Without it the restored text may well hold a surrogate, of the user's own making.

**Detection_proofs.** About algorithms, for texts of any length. Three inductive invariants:

- `LocalInv`: the overrides are what `ParseOverrides` makes of the request, every call is one of
  an active detector, and of a local detector's candidates those behind the queue are settled:
  each has its span, or an earlier one that overlaps it has. `ClaimsAreSettled` follows because
  the candidates are in the order of the strategy; `KeysTellApart` because each part of a question
  is a part of its key.
- `AskedInv`: a request failed only because the parse of its overrides raises, and ran only if
  it does not; what a call asked GLiNER for is what the client's threshold comes to
  (`ThresholdParsed`). `NoOverrideHarms` follows from it and `LocalInv`, because every strict
  validator yields its type or drops the field, and a field of unknown detectors falls back to
  the configured ones.
- `HeardInv`: a call that heard a reply has the outcome of that reply and its matches, and what
  is let through is `Union` of all calls. For `ReportedFound` a reported value is followed
  through the parse of the reply, the trimming of `Match` (`MatchStands`), the filter of the
  merged path and the deduplication (`UnionKeeps`), which may change its type but not lose its text.
  For `ParagraphsKept` the spans are followed through the merge, which keeps
  what it covers, and through `SplitAtBreaks`, whose pieces cover all but blanks and have no
  break inside.

What a fold computes is proved by unrolling it into the function of its partial results and
looking at the first of them at which a claim would fail.

`WorldsReady` assumes what holds in a guardrail that has booted: no pattern and no denylist
entry is empty (`regex.py:231-254`, `denylist.py:193-229`); at least one detector is configured,
none twice (`pipeline.py:123-161`); only detectors that ask a service have an input mode
(`pipeline.py:653-702`); the configured strategy is a known one (`regex.py:440-445`); no registry
has an empty name (`registry.py:49-60`); and what JSON is: strings and arrays of a request are sequences,
its numbers are integers (they count hundredths). `RepliesReady` assumes that a reply is JSON: strings and
arrays are sequences, offsets are integers where they are there, and every configured remote
detector has a set of replies.

**Launcher_proofs.** For any number of launches, any flags, files and edits, with the operator and
the other launches moving containers at any time. Two inductive invariants:

- `LaunchInv`: a configuration's backends are pairs over the three remote detectors, none twice,
  and what is still to be started is neither named twice nor started; each service started has
  in `made` the container of the variant that is still in the configuration; that container, if
  it runs, was run by some launch (`Ours`), never by the operator, who cannot take a name in
  use; and a serving guardrail has the environment that `GuardrailEnv` makes of the final
  configuration. `GuardrailWired` and `OnlyOwnStopped` say nothing of this for the phases
  before, so neither is inductive alone. `WiredToOwn` then is about `GuardrailEnv`: the
  bindings of a detector's service come last, since the variables of two detectors, of the
  Redis sides and of the surrogate are disjoint, and a detector named twice does not bind its
  URL again if the operator set none. `OwnStoppedOnly`: a stop goes to the container in `made`,
  or, for a variant, to the default container's name, and a reap to what was seen exited.
- `MenuInv`: what the edits can have bound (a typed text, an offered choice), a source of Redis
  whenever a side chose Redis, and `Valid` of a configuration that left the menu. Each setter is
  a case of its own, and so is each variable the guardrail reads at boot. `MenuBoots` has the
  hypothesis `MenuInputsSound`: what is typed in the menu can be used (the files can be read, the
  URLs have a scheme, the Redis ones one that the client accepts), nothing is set outside of it,
  the bundled files are there. Locales are left free: that a process boots exactly if Faker is
  off or knows the locale is what is proved. TLC evaluates the hypothesis on the scenes of the run.

`PresetsReady` and `ScenesReady` assume what the YAML reader and a sensible command line leave: modes are
sequences of names, every container the launcher knows has a state on the host, and a backend is
`service`, `external` or none. The options take any text, but another one starts nothing
and is left out. `SchemesGiven`: the launcher's own URLs have a scheme, and Redis
accepts its own; `NoLocaleKnown`: the empty text is no unknown locale. `OrdersReady`: the
orders of the menu's list are sequences.

Where a least element is needed (the first detector that reports, the last record that
stays), the proofs take it from the well-foundedness of < on Nat (`LeastExists`, from
`WFMin`), since the induction theorems of the library take an operator as parameter.

Model-checked only: `PatternsLoaded` and all liveness, `EveryLaunchEnds` among it. Out of reach of
the prover and left to TLC: liveness under fairness, ENABLED, and induction over data, which the
chains of `PatternsLoaded` would need; besides, it holds of chains up to `MaxExtendsDepth`, where
the loader gives up, and the scenes stay below. `NothingEmptyFound` is false (section 5).
No module declares a RECURSIVE operator.

## 5. Disagreements between the code and its text

`PROJECT.json` quotes the lines. With a run that TLC ends with a counterexample:

1. `surrogates_small_cache`: a cache smaller than one request (SURROGATE_CACHE_MAX_SIZE=0 is
   documented as fine) frees and re-issues surrogates within the request; one original is
   then lost from the vault entry. `RequestInjective` gives the size from which this cannot
   happen.
2. `surrogates_override`: USE_FAKER=false with an invalid FAKER_LOCALE, then a request with
   use_faker=true, is BLOCKED by an AttributeError where the comment promises opaque output.
3. `detection_dots`: a match trimmed to nothing survives the filter of the merged path, and
   its surrogate is then inserted between the characters of the text.

Met while modelling, without a run of their own. In the guardrail:

4. Prewarm keys the pipeline slot by all active detectors, detection by the per-text ones:
   with a merged-mode detector the prewarmed slot is never read (`pipeline.py:1224`).
5. Prewarm writes the winning type into every source detector's slot (`pipeline.py:1236`).
6. A demoted merged detector loses its rank in the type priority (`pipeline.py:820`).
7. After a Redis failure on the response side the reply is BLOCKED, where
   `vault_redis.py:61` says that it goes back with its surrogates.
8. `vault.py:5` says that post_call evicts the entry; it peeks, and nothing in the process pops.
9. An LLM reply that is an array of one object is cut to that object and passes as an answer
   without entities (`detector/llm.py:212`).
10. A JSON integer too large for a float in gliner_threshold raises OverflowError past the
    per-field handling (`api.py:143`). The endpoint answers 500; `Trip` is this step.
11. The denylist sorts by the length of the escaped expression, not of the value
    (`detector/denylist.py:157`); its two backends report different matches
    (`detector/denylist.py:306`); entries that differ in word_boundary alone are collapsed,
    against the comment (`detector/denylist.py:215`).
12. A privacy-filter span without usable offsets is merged all the same
    (`detector/remote_privacy_filter.py:281`).
13. A pattern file's relative `extends:` is resolved against the working directory when the file
    is itself extended (`detector/regex.py:174`).

In the launcher:

14. A detector named twice in `--detector-mode` has its operator-set URL appended once more, after
    the service's; only the first binding is then replaced, and the engine takes the last, so
    the operator's URL wins against the comment "These OVERRIDE any operator-set values"
    (`tools/launcher/runner.py:168`). A scene of `launcher` has it.
15. Cleanup of a variant stops the default container's name and leaves the variant
    (`tools/launcher/services.py:512`).
16. The exit handler is registered only after all services are up, so a failing one leaves
    the earlier ones running (`tools/launcher/main.py:819`).
17. Redis stops first, not last (`tools/launcher/services.py:543`).
18. A container that survived a hard kill is reused, never stopped, and not wired
    (`tools/launcher/services.py:184`).
19. The preset's gliner_pii backend is never read (`tools/launcher/main.py:775`).
20. `--gliner-pii-labels` does not reach the service that is started
    (`detector/launcher.py:119`).
21. Deactivating a detector in the menu leaves its URL and variant
    (`tools/launcher/menu.py:1173`); the cache's Redis rows count inactive detectors
    (`tools/launcher/menu.py:616`).

Noticed: the menu takes any text for the Faker locale and its check does not look at it
(`tools/launcher/menu.py:964`, `1214`), so a launch it accepts may not boot (`surrogate.py:263`);
a fail-open empty result is stored in the pipeline cache and served until it goes
(`pipeline.py:541-545`, `649-651`); a reply with an entity the request did not hold is
prewarmed with what the vault knows; an undecodable Redis slot stays until its TTL, since
SET NX does not replace it (`pipeline_cache_redis.py:274-277`), though the log says
"overwriting".

## 6. Not modelled

- The sidecars under `services/`: a model behind one endpoint, without state between requests.
  What they may answer is in `Detection`.
- The benchmarks and the image builder: developer tools outside the running system.
- The recency order and TTL of the result caches: `DetectionCaches` lets any slot vanish at any
  time, which covers them but cannot say that a recent slot stays. Hence "partly". Overrides are
  not told apart there either; `KeysTellRequestsApart` covers the keys.
- HTTP clients beyond their outcomes; IPv6 validation, which a library does.
- The last-resort surrogate's lower-case hex (`surrogate.py:445`), which the suffix pattern
  (`main.py:50`) does not match: a reply cut inside one would be answered. It takes a
  collision at every attempt, and `Streaming` has no such surrogate.
- Which detector's type wins after a demotion (`pipeline.py:820`): it changes a label only.
- Launcher output (the plan, tables, log diagnostics) and the choice of the container engine.

What would come next: an LRU cache with its recency order that implements the losses of
`DetectionCaches`; `PatternsLoaded` for chains of any length, once the prover has induction.

## 7. Running it

    tlc -config MemoryVault.cfg MemoryVault.tla
    tlc -config Dispatch.cfg MCDispatch.tla      # the other runs alike, see PROJECT.json
    tlapm Dispatch_proofs.tla                    # and MemoryVault_, Surrogates_,
                                                 # RoundTrip_, DetectionCaches_, Streaming_,
                                                 # Detection_, Launcher_proofs

`detection_caches` and `dispatch` take minutes, the other runs seconds to a minute or two;
each proof module is checked from nothing in one to a few minutes, Launcher_proofs in about five, Detection_proofs in about six.
