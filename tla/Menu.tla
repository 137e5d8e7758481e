-------------------------------- MODULE Menu --------------------------------
(***************************************************************************)
(* The launcher's menu (tools/launcher/menu.py): the rows it shows for a   *)
(* configuration, what picking or typing a value in a row does to the      *)
(* configuration, and the check before a launch.  A dialog that is left    *)
(* with Cancel changes nothing; the yes/no dialogs have no Cancel.         *)
(***************************************************************************)
EXTENDS LaunchConfig

CONSTANTS Typed,   \* text row -> the texts that are typed there
          Orders   \* the detector lists that are arranged

ASSUME OrdersReady == Orders \subseteq Seq(STRING)

(***************************************************************************)
(* The rows.                                                               *)
(***************************************************************************)
CacheVariable == [llm_cache |-> "LLM_CACHE_BACKEND", pf_cache |-> "PRIVACY_FILTER_CACHE_BACKEND",
                  gliner_pii_cache |-> "GLINER_PII_CACHE_BACKEND"]
FailVariable == [privacy_filter_fail |-> "PRIVACY_FILTER_FAIL_CLOSED",
                 gliner_pii_fail |-> "GLINER_PII_FAIL_CLOSED", llm_fail |-> "LLM_FAIL_CLOSED"]
TextVariable ==
  [regex_patterns |-> "REGEX_PATTERNS_PATH", denylist_path |-> "DENYLIST_PATH",
   privacy_filter_url |-> "PRIVACY_FILTER_URL", gliner_pii_url |-> "GLINER_PII_URL",
   gliner_pii_labels |-> "GLINER_PII_LABELS", gliner_pii_threshold |-> "GLINER_PII_THRESHOLD",
   llm_api_base |-> "LLM_API_BASE", llm_model |-> "LLM_MODEL",
   llm_prompt |-> "LLM_SYSTEM_PROMPT_PATH",
   vault_redis_url |-> "VAULT_REDIS_URL", cache_redis_url |-> "CACHE_REDIS_URL"]
PickVariable ==
  [regex_overlap_strategy |-> "REGEX_OVERLAP_STRATEGY", denylist_backend |-> "DENYLIST_BACKEND"]
PickChoices ==
  [regex_overlap_strategy |-> {"longest", "priority"}, denylist_backend |-> {Unset, "regex", "aho"}]

RowsIf(condition, rows) == IF condition THEN rows ELSE {}

\* Follow-up rows of the vault and of the caches.  Every detector's cache
\* counts, active or not.
CacheIsRedis(cfg) ==
  \E row \in DOMAIN CacheVariable : EnvGet(cfg.env, CacheVariable[row]) = "redis"
RedisRows(cfg) ==
  RowsIf(EnvGet(cfg.env, "VAULT_BACKEND") = "redis",
         {"vault_redis_backend"} \cup RowsIf(cfg.vaultSource = "external", {"vault_redis_url"}))
  \cup RowsIf(CacheIsRedis(cfg),
         {"cache_redis_backend"} \cup RowsIf(cfg.cacheSource = "external", {"cache_redis_url"}))

DetectorRows(cfg, d) ==
  LET backend == BackendOf(cfg.backends, d)
  IN CASE d = "regex" -> {"regex_overlap_strategy", "regex_patterns"}
       [] d = "denylist" -> {"denylist_path", "denylist_backend"}
       [] d = "privacy_filter" ->
            {"privacy_filter_backend", "privacy_filter_fail", "pf_cache"}
            \cup RowsIf(backend \in {Unset, "service"}, {"privacy_filter_variant"})
            \cup RowsIf(backend = "external", {"privacy_filter_url"})
       [] d = "gliner_pii" ->
            {"gliner_pii_backend", "gliner_pii_labels", "gliner_pii_threshold",
             "gliner_pii_fail", "gliner_pii_cache"}
            \cup RowsIf(backend = "external", {"gliner_pii_url"})
       [] d = "llm" ->
            {"llm_backend", "llm_prompt", "forward_llm_key", "llm_fail", "llm_cache"}
            \cup RowsIf(backend = "external", {"llm_api_base", "llm_model"})

BuildOptions(cfg) ==
  {"flavour", "surrogate_salt", "vault", "detector_mode", "use_faker"}
  \cup RedisRows(cfg)
  \cup (UNION {DetectorRows(cfg, d) : d \in {a \in Detectors : Active(cfg, a)}})
  \cup RowsIf(cfg.faker, {"faker_locale"})

(***************************************************************************)
(* The setters.                                                            *)
(***************************************************************************)
SetEnv(cfg, v, value) ==
  [cfg EXCEPT !.env = IF value # Unset THEN Bound(v, value) ++ @
                      ELSE [w \in DOMAIN @ \ {v} |-> @[w]]]

SetBackend(cfg, d, value) == [cfg EXCEPT !.backends = PutBackend(@, d, value)]

\* The source defaults to the service on the first change to Redis, and stays
\* on the way back to memory.
SetVaultBackend(cfg, value) ==
  [SetEnv(cfg, "VAULT_BACKEND", value) EXCEPT
     !.vaultSource = IF value = "redis" THEN Given(@, "service") ELSE @]

\* Slip: only the vault has a default source.
SetCacheBackendOnly(cfg, v, value) == SetEnv(cfg, v, value)

SetCacheBackend(cfg, v, value) ==
  [SetEnv(cfg, v, value) EXCEPT
     !.cacheSource = IF value = "redis" THEN Given(@, "service") ELSE @]

SetVariant(cfg, value) ==
  [cfg EXCEPT !.variants = IF value = "opf" THEN [d \in DOMAIN @ \ {"privacy_filter"} |-> @[d]]
                           ELSE [privacy_filter |-> value] ++ @]

SetFlavour(cfg, value) ==
  LET next == [cfg EXCEPT !.flavour = value]
  IN IF Active(cfg, "privacy_filter") /\ BackendOf(cfg.backends, "privacy_filter") = Unset
     THEN SetBackend(next, "privacy_filter", "service") ELSE next

\* A detector that is left out loses its backend (its URL and variant stay),
\* one that comes in gets the service.
SetDetectorOrder(cfg, ordered) ==
  LET Adjust(backends, d) ==
        IF d \notin ToSet(ordered) THEN DropBackend(backends, d)
        ELSE IF BackendOf(backends, d) # Unset THEN backends
        ELSE PutBackend(backends, d, "service")
  IN IF ordered = <<>> THEN cfg
     ELSE [cfg EXCEPT !.mode = ordered,
                      !.backends = Adjust(Adjust(Adjust(@, "privacy_filter"), "gliner_pii"), "llm")]

\* DetectorOrderScreen: every detector can be switched and moved to any place,
\* and OK returns the enabled ones as they stand; none enabled is a Cancel.
ScreenResults == {q \in Orders : q # <<>> /\ IsInjective(q) /\ ToSet(q) \subseteq Detectors}

(***************************************************************************)
(* _edit_setting: what may come of opening a row.                          *)
(***************************************************************************)
Sources == {"service", "external"}
BackendRow == [privacy_filter_backend |-> "privacy_filter",
               gliner_pii_backend |-> "gliner_pii", llm_backend |-> "llm"]

EditSetting(cfg, key) ==
  CASE key \in DOMAIN TextVariable -> {SetEnv(cfg, TextVariable[key], t) : t \in Typed[key]}
    [] key \in DOMAIN PickVariable -> {SetEnv(cfg, PickVariable[key], c) : c \in PickChoices[key]}
    [] key \in DOMAIN FailVariable ->
         {SetEnv(cfg, FailVariable[key], c) : c \in {"true", "false"}}
    [] key \in DOMAIN CacheVariable ->
         {SetCacheBackend(cfg, CacheVariable[key], c) : c \in {"memory", "redis"}}
    [] key \in DOMAIN BackendRow -> {SetBackend(cfg, BackendRow[key], c) : c \in Sources}
    [] key = "forward_llm_key" ->
         {SetEnv(cfg, "LLM_USE_FORWARDED_KEY", c) : c \in {"true", "false"}}
    [] key = "detector_mode" -> {SetDetectorOrder(cfg, q) : q \in ScreenResults}
    [] key = "flavour" -> {SetFlavour(cfg, "default")}
    [] key = "surrogate_salt" -> {[cfg EXCEPT !.salt = t] : t \in Typed[key]}
    [] key = "faker_locale" -> {[cfg EXCEPT !.locale = t] : t \in Typed[key]}
    [] key = "use_faker" -> {[cfg EXCEPT !.faker = c] : c \in BOOLEAN}
    [] key = "privacy_filter_variant" -> {SetVariant(cfg, c) : c \in {"opf", "hf"}}
    [] key = "vault" -> {SetVaultBackend(cfg, c) : c \in {"memory", "redis"}}
    [] key = "vault_redis_backend" -> {[cfg EXCEPT !.vaultSource = c] : c \in Sources}
    [] key = "cache_redis_backend" -> {[cfg EXCEPT !.cacheSource = c] : c \in Sources}

\* _validate.
Valid(cfg) ==
  /\ BackendChosen(cfg, "llm") /\ BackendChosen(cfg, "gliner_pii")
  /\ cfg.flavour = "default" => BackendChosen(cfg, "privacy_filter")
=============================================================================
