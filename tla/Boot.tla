-------------------------------- MODULE Boot --------------------------------
(***************************************************************************)
(* The start of the guardrail process in its environment: the settings of  *)
(* config.py and of every detector module, which are read and checked, the *)
(* files the modules load when they are imported, and the pipeline with    *)
(* its detectors, vault and caches (pipeline.py, vault.py, cache.py).  Any *)
(* error ends the process.  A variable's text is not looked into: which    *)
(* texts are URLs with a scheme, numerals, Redis URLs or locales that      *)
(* Faker knows is a matter of tables.                                      *)
(***************************************************************************)
EXTENDS LauncherSpecs, ResourceFiles

CONSTANTS Schemeless,      \* URL texts without http:// or https://
          Numerals,        \* integer texts -> their value
          RefusedRedis,    \* URL texts that redis.from_url refuses
          UnknownLocales   \* locale texts, one of whose locales Faker does not know

(***************************************************************************)
(* Settings.  An unset variable has its default, which is sound; a text    *)
(* stands for its lower case where the code folds it.                      *)
(***************************************************************************)
Redis == "redis"
Literals ==
  [v \in {"LLM_INPUT_MODE", "PRIVACY_FILTER_INPUT_MODE", "GLINER_PII_INPUT_MODE"} |->
     {"per_text", "merged"}]
  ++ [v \in {"LLM_CACHE_BACKEND", "PRIVACY_FILTER_CACHE_BACKEND", "GLINER_PII_CACHE_BACKEND",
             "VAULT_BACKEND"} |-> {"memory", Redis}]
  ++ [PIPELINE_CACHE_BACKEND |-> {"none", "memory", Redis},
      STREAMING_FAKER_MODE |-> {"disabled", "buffer"},
      REGEX_OVERLAP_STRATEGY |-> {"longest", "priority"},
      DENYLIST_BACKEND |-> {"regex", "aho"}]

Off == {"false", "f", "no", "n", "off", "0"}
Switches ==
  [v \in {"USE_FAKER", "DEANONYMIZE_SUBSTITUTE", "LLM_USE_FORWARDED_KEY", "LLM_FAIL_CLOSED",
          "PRIVACY_FILTER_FAIL_CLOSED", "GLINER_PII_FAIL_CLOSED"} |->
     {"true", "t", "yes", "y", "on", "1"} \cup Off]

\* Two counters have a floor; VAULT_TTL_S, the caps and the limits have none.
Floor == [MAX_BODY_BYTES |-> 1, SURROGATE_FAKER_LRU_MAX |-> 1]
Counters ==
  DOMAIN Floor
  \cup {"VAULT_TTL_S", "VAULT_MAX_ENTRIES", "SURROGATE_CACHE_MAX_SIZE",
        "PIPELINE_CACHE_MAX_SIZE", "PIPELINE_CACHE_TTL_S",
        "LLM_TIMEOUT_S", "LLM_MAX_CHARS", "LLM_MAX_CONCURRENCY", "LLM_CACHE_MAX_SIZE",
        "LLM_CACHE_TTL_S", "PRIVACY_FILTER_TIMEOUT_S", "PRIVACY_FILTER_MAX_CONCURRENCY",
        "PRIVACY_FILTER_CACHE_MAX_SIZE", "PRIVACY_FILTER_CACHE_TTL_S", "GLINER_PII_TIMEOUT_S",
        "GLINER_PII_MAX_CONCURRENCY", "GLINER_PII_CACHE_MAX_SIZE", "GLINER_PII_CACHE_TTL_S"}
Urls == {"LLM_API_BASE", "PRIVACY_FILTER_URL", "GLINER_PII_URL"}

FieldsParse(env) ==
  \A v \in DOMAIN env :
    /\ v \in DOMAIN Literals => env[v] \in Literals[v]
    /\ v \in DOMAIN Switches => env[v] \in Switches[v]
    /\ v \in Counters => env[v] \in DOMAIN Numerals
    /\ v \in DOMAIN Floor => env[v] \in DOMAIN Numerals /\ Numerals[env[v]] >= Floor[v]
    /\ v \in Urls => env[v] \notin Schemeless

\* The cross-field checks of Config.  Any variable named *_CACHE_BACKEND counts,
\* whether its detector is active or not.
CacheBackends == {"LLM_CACHE_BACKEND", "PRIVACY_FILTER_CACHE_BACKEND",
                  "GLINER_PII_CACHE_BACKEND", "PIPELINE_CACHE_BACKEND"}
UrlsGiven(env) ==
  /\ EnvGet(env, "VAULT_BACKEND") = Redis => EnvGet(env, "VAULT_REDIS_URL") # Unset
  /\ (\E v \in CacheBackends : EnvGet(env, v) = Redis) => EnvGet(env, "CACHE_REDIS_URL") # Unset

(***************************************************************************)
(* The files.  Every detector module is imported, so every file is loaded, *)
(* whatever DETECTOR_MODE says.                                            *)
(***************************************************************************)
\* resolve_spec: disk.named is how the texts of the environment are spelled.
PlaceOf(disk, text) == IF text \in DOMAIN disk.named THEN disk.named[text] ELSE NoPath
RootPatterns(disk, env) ==
  LET path == EnvGet(env, "REGEX_PATTERNS_PATH")
  IN IF path = Unset THEN RegexDefault ELSE PlaceOf(disk, path)

EntriesOf(disk, env, v) ==
  IF EnvGet(env, v) = Unset THEN <<>>
  ELSE IF env[v] \in DOMAIN disk.registries THEN disk.registries[env[v]]
  ELSE <<Entry(FALSE, env[v], NoPath)>>

PatternsLoad(disk, env) ==
  LET entries == EntriesOf(disk, env, "REGEX_PATTERNS_REGISTRY")
  IN /\ LoadPatterns(disk, RootPatterns(disk, env)).ok
     /\ RegistryParses(entries)
     /\ \A n \in DOMAIN Registry(entries) : LoadPatterns(disk, Registry(entries)[n]).ok

DenylistsLoad(disk, env) ==
  LET path == EnvGet(env, "DENYLIST_PATH")
      entries == EntriesOf(disk, env, "DENYLIST_REGISTRY")
  IN /\ path # Unset => LoadEntries(disk, PlaceOf(disk, path))
     /\ RegistryParses(entries)
     /\ \A n \in DOMAIN Registry(entries) : LoadEntries(disk, Registry(entries)[n])

PromptsLoad(disk, env) ==
  LET path == EnvGet(env, "LLM_SYSTEM_PROMPT_PATH")
      entries == EntriesOf(disk, env, "LLM_SYSTEM_PROMPT_REGISTRY")
  IN /\ LoadSystemPrompt(disk, IF path = Unset THEN PromptDefault ELSE PlaceOf(disk, path))
     /\ RegistryParses(entries)
     /\ \A n \in DOMAIN Registry(entries) : LoadSystemPrompt(disk, Registry(entries)[n])

(***************************************************************************)
(* The pipeline.                                                           *)
(***************************************************************************)
\* _build_detectors: unknown names are skipped, duplicates collapsed, and a
\* mode without a detector left means regex.  Their order is nothing to the start.
BuildDetectors(mode) ==
  LET known == ToSet(mode) \cap Detectors
  IN IF known = {} THEN {"regex"} ELSE known

\* The factories of the two NER detectors refuse to do without a URL.
FactoriesSucceed(detectors, env) ==
  /\ "privacy_filter" \in detectors => EnvGet(env, "PRIVACY_FILTER_URL") # Unset
  /\ "gliner_pii" \in detectors => EnvGet(env, "GLINER_PII_URL") # Unset

\* SurrogateGenerator: a locale that Faker does not know is an error where Faker
\* is in use, as it is by default, and a warning where it is not.
LocaleKnown(env) ==
  EnvGet(env, "USE_FAKER") \in Off \/ EnvGet(env, "FAKER_LOCALE") \notin UnknownLocales

\* The Redis clients are made with the vault, the pipeline cache and the
\* detectors that are built; nothing is dialled yet.
CacheOf == [llm |-> "LLM_CACHE_BACKEND", privacy_filter |-> "PRIVACY_FILTER_CACHE_BACKEND",
            gliner_pii |-> "GLINER_PII_CACHE_BACKEND"]
ClientsMade(detectors, env) ==
  LET caches == {"PIPELINE_CACHE_BACKEND"} \cup {CacheOf[d] : d \in detectors \cap DOMAIN CacheOf}
  IN /\ EnvGet(env, "VAULT_BACKEND") = Redis =>
          EnvGet(env, "VAULT_REDIS_URL") \notin RefusedRedis
     /\ (\E v \in caches : EnvGet(env, v) = Redis) =>
          EnvGet(env, "CACHE_REDIS_URL") \notin RefusedRedis

\* A semaphore takes no negative count.
LimitsUsable(env) ==
  \A v \in {"LLM_MAX_CONCURRENCY", "PRIVACY_FILTER_MAX_CONCURRENCY",
            "GLINER_PII_MAX_CONCURRENCY"} :
    v \in DOMAIN env => Numerals[env[v]] >= 0

Boots(disk, mode, env) ==
  /\ FieldsParse(env) /\ UrlsGiven(env)
  /\ PatternsLoad(disk, env) /\ DenylistsLoad(disk, env) /\ PromptsLoad(disk, env)
  /\ FactoriesSucceed(BuildDetectors(mode), env) /\ ClientsMade(BuildDetectors(mode), env)
  /\ LocaleKnown(env) /\ LimitsUsable(env)

\* Where a running guardrail sends the calls of a detector.
DetectorUrl == [llm |-> "LLM_API_BASE", privacy_filter |-> "PRIVACY_FILTER_URL",
                gliner_pii |-> "GLINER_PII_URL"]
=============================================================================
