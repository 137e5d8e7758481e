---------------------------- MODULE LauncherSpecs ----------------------------
(***************************************************************************)
(* The launcher's view of the detectors: which environment variables it    *)
(* forwards to the guardrail for each, which service container it can      *)
(* start for each, in which variants, and what the guardrail is told when  *)
(* it did (detector/launcher.py, the LAUNCHER_SPEC of every detector, the  *)
(* Redis service of tools/launcher/services.py).  An environment is a      *)
(* function from the variables that are set to their values.               *)
(***************************************************************************)
EXTENDS Naturals, Sequences, FiniteSets

Unset == ""
EmptyEnv == [v \in {} |-> Unset]
EnvGet(env, v) == IF v \in DOMAIN env THEN env[v] ELSE Unset

\* One binding; and the bindings of two maps, of which the left one counts.
\* TLC evaluates an argument wherever it occurs, but a bound variable once.
Bound(v, value) == [w \in {v} |-> value]
f ++ g == CHOOSE h \in {[v \in DOMAIN l \cup DOMAIN r |-> IF v \in DOMAIN l THEN l[v] ELSE r[v]] :
                         l \in {f}, r \in {g}} : TRUE

\* Tags, volumes' paths, ports and probe texts tell nothing apart here; the
\* port is part of the URL the guardrail is given.
Service(name, images, volume, guardrailEnv, serviceEnv) ==
  [container |-> name, images |-> images, volume |-> volume,
   guardrailEnv |-> guardrailEnv, serviceEnv |-> serviceEnv]

LauncherSpec(passthroughs, service, variants) ==
  [passthroughs |-> passthroughs, service |-> service, variants |-> variants]

NoService == Service("", <<>>, "", EmptyEnv, EmptyEnv)
NoVariants == [v \in {} |-> NoService]

RegexSpec ==
  LauncherSpec({"REGEX_PATTERNS_PATH", "REGEX_PATTERNS_REGISTRY", "REGEX_OVERLAP_STRATEGY"},
       NoService, NoVariants)

DenylistSpec ==
  LauncherSpec({"DENYLIST_PATH", "DENYLIST_REGISTRY", "DENYLIST_BACKEND"}, NoService, NoVariants)

PrivacyFilterEnv ==
  [v \in {"PRIVACY_FILTER_DEVICE", "PRIVACY_FILTER_CALIBRATION"} |-> v]

PrivacyFilterService ==
  Service("privacy-filter-service",
          <<"privacy-filter-service:baked-cpu", "privacy-filter-service:cpu">>,
          "anonymizer-hf-cache",
          [PRIVACY_FILTER_URL |-> "http://privacy-filter-service:8001"], PrivacyFilterEnv)

PrivacyFilterHf ==
  Service("privacy-filter-hf-service", <<"privacy-filter-hf-service:cpu">>,
          "privacy-filter-hf-cache",
          [PRIVACY_FILTER_URL |-> "http://privacy-filter-hf-service:8003"], PrivacyFilterEnv)

PrivacyFilterSpec ==
  LauncherSpec({"PRIVACY_FILTER_URL", "PRIVACY_FILTER_TIMEOUT_S", "PRIVACY_FILTER_FAIL_CLOSED",
        "PRIVACY_FILTER_MAX_CONCURRENCY", "PRIVACY_FILTER_INPUT_MODE",
        "PRIVACY_FILTER_CACHE_MAX_SIZE", "PRIVACY_FILTER_CACHE_BACKEND",
        "PRIVACY_FILTER_CACHE_TTL_S"},
       PrivacyFilterService, [hf |-> PrivacyFilterHf])

GlinerSpec ==
  LauncherSpec({"GLINER_PII_URL", "GLINER_PII_TIMEOUT_S", "GLINER_PII_LABELS",
        "GLINER_PII_THRESHOLD", "GLINER_PII_FAIL_CLOSED", "GLINER_PII_MAX_CONCURRENCY",
        "GLINER_PII_INPUT_MODE", "GLINER_PII_CACHE_MAX_SIZE", "GLINER_PII_CACHE_BACKEND",
        "GLINER_PII_CACHE_TTL_S"},
       Service("gliner-pii-service",
               <<"gliner-pii-service:baked-cpu", "gliner-pii-service:cpu">>,
               "gliner-hf-cache",
               [GLINER_PII_URL |-> "http://gliner-pii-service:8002"],
               [DEFAULT_LABELS |-> "GLINER_PII_LABELS",
                DEFAULT_THRESHOLD |-> "GLINER_PII_THRESHOLD"]),
       NoVariants)

LlmSpec ==
  LauncherSpec({"LLM_API_BASE", "LLM_API_KEY", "LLM_MODEL", "LLM_TIMEOUT_S",
        "LLM_USE_FORWARDED_KEY", "LLM_SYSTEM_PROMPT_PATH", "LLM_SYSTEM_PROMPT_REGISTRY",
        "LLM_MAX_CHARS", "LLM_MAX_CONCURRENCY", "LLM_FAIL_CLOSED", "LLM_INPUT_MODE",
        "LLM_CACHE_MAX_SIZE", "LLM_CACHE_BACKEND", "LLM_CACHE_TTL_S"},
       Service("fake-llm", <<"fake-llm:latest">>, "",
               [LLM_API_BASE |-> "http://fake-llm:4000/v1",
                LLM_API_KEY |-> "any-non-empty", LLM_MODEL |-> "fake"],
               EmptyEnv),
       NoVariants)

CrossCutting ==
  {"VAULT_BACKEND", "VAULT_REDIS_URL", "VAULT_TTL_S", "VAULT_MAX_ENTRIES",
   "CACHE_REDIS_URL", "CACHE_SALT", "MAX_BODY_BYTES"}

\* REGISTERED_SPECS: the canonical order of the detectors.
Registered == <<"regex", "denylist", "privacy_filter", "gliner_pii", "llm">>
Detectors == {Registered[i] : i \in DOMAIN Registered}

LauncherMetadata ==
  [regex |-> RegexSpec, denylist |-> DenylistSpec, privacy_filter |-> PrivacyFilterSpec,
   gliner_pii |-> GlinerSpec, llm |-> LlmSpec]

\* Redis is no detector: it has a service of its own, under a sentinel name
\* that no detector bears, and one database per side.
RedisName == "_redis_infra"
RedisService == Service("anonymizer-redis", <<"redis:7-alpine">>, "", EmptyEnv, EmptyEnv)
VaultDb == "redis://anonymizer-redis:6379/0"
CacheDb == "redis://anonymizer-redis:6379/1"

HasService(spec) == spec.service # NoService

\* An unknown variant is taken for the default one.
ResolveService(spec, variant) ==
  IF variant \in DOMAIN spec.variants THEN spec.variants[variant] ELSE spec.service

\* What start_service starts for a name, and what cleanup_service stops for
\* it: the latter looks at the default service only.
StartedAs(n, variant) ==
  IF n = RedisName THEN RedisService ELSE ResolveService(LauncherMetadata[n], variant)
StoppedAs(n) == IF n = RedisName THEN RedisService ELSE LauncherMetadata[n].service

Services ==
  {RedisService}
    \cup ({LauncherMetadata[d].service : d \in Detectors} \ {NoService})
    \cup UNION {{LauncherMetadata[d].variants[v] : v \in DOMAIN LauncherMetadata[d].variants}
                  : d \in Detectors}

\* _resolve_image: the first candidate that is built here, else the last one,
\* whose run is bound to fail.  tagEnv holds the operator's TAG_* variables,
\* under the tags they replace.
ResolveImage(service, built, tagEnv) ==
  LET tag(i) == IF EnvGet(tagEnv, service.images[i]) # Unset
                THEN tagEnv[service.images[i]] ELSE service.images[i]
      there == {i \in DOMAIN service.images : tag(i) \in built}
  IN IF there # {} THEN tag(CHOOSE i \in there : \A j \in there : i <= j)
     ELSE service.images[Len(service.images)]
=============================================================================
