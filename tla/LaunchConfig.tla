----------------------------- MODULE LaunchConfig -----------------------------
(***************************************************************************)
(* How a command line, a preset and the operator's environment become a    *)
(* LaunchConfig, and how a LaunchConfig becomes the environment of the     *)
(* guardrail container (tools/launcher/main.py, preset_loader.py and       *)
(* runner.py).  An option given with an empty text differs from one not    *)
(* given for those in `options`, where --locale and the URLs have an       *)
(* effect of their own; for the others the two come to the same.           *)
(***************************************************************************)
EXTENDS LauncherSpecs, SequencesExt

CONSTANTS PresetFiles,  \* the operator's preset files: name -> whether it parses, and its presets
          RulesFiles    \* the paths at which a rules file exists

\* The ordered dictionary `backends`: pairs of a detector and its backend.
BackendOf(backends, d) ==
  LET at == {i \in DOMAIN backends : backends[i][1] = d}
  IN IF at = {} THEN Unset ELSE backends[CHOOSE i \in at : TRUE][2]

PutBackend(backends, d, b) ==
  IF \E i \in DOMAIN backends : backends[i][1] = d
  THEN [i \in DOMAIN backends |-> IF backends[i][1] = d THEN <<d, b>> ELSE backends[i]]
  ELSE Append(backends, <<d, b>>)

DropBackend(backends, d) ==
  IF \E i \in DOMAIN backends : backends[i][1] = d
  THEN RemoveAt(backends, CHOOSE i \in DOMAIN backends : backends[i][1] = d) ELSE backends

NoChoice == [d \in {} |-> Unset]

DefaultConfig ==
  [flavour |-> "default", mode |-> <<"regex">>, name |-> "anonymizer-guardrail",
   replace |-> FALSE, faker |-> FALSE, locale |-> Unset, salt |-> Unset,
   env |-> EmptyEnv, backends |-> <<>>, variants |-> NoChoice,
   vaultSource |-> Unset, cacheSource |-> Unset, rules |-> Unset, extra |-> EmptyEnv]

Active(cfg, d) == \E i \in DOMAIN cfg.mode : cfg.mode[i] = d
VariantOf(cfg, d) == EnvGet(cfg.variants, d)

(***************************************************************************)
(* Presets.  A document maps names to presets; an operator's entry replaces *)
(* the bundled one of the same name as a whole.                             *)
(***************************************************************************)
Preset(mode, env) ==
  [flavour |-> "default", mode |-> mode, faker |-> FALSE,
   llm |-> Unset, privacy_filter |-> Unset, gliner_pii |-> Unset,
   vaultSource |-> Unset, cacheSource |-> Unset, variants |-> NoChoice, env |-> env]

Document(sound, presets) == [sound |-> sound, presets |-> presets]

\* The bundled presets; those that differ from one of these only in the
\* pattern file, the label list or the log level are left out.
BundledPresets ==
  [name \in {"regex-default", "regex-llm-debug", "privacy-filter-service",
             "gliner-pii-service", "vault-redis", "pf-cache-redis"} |->
     CASE name = "regex-default" ->
            Preset(<<"regex">>, [REGEX_OVERLAP_STRATEGY |-> "longest"])
       [] name = "regex-llm-debug" ->
            [Preset(<<"regex", "llm">>, [REGEX_OVERLAP_STRATEGY |-> "longest"])
               EXCEPT !.llm = "service"]
       [] name = "privacy-filter-service" ->
            [Preset(<<"privacy_filter">>, EmptyEnv)
               EXCEPT !.privacy_filter = "service", !.variants = [privacy_filter |-> "hf"]]
       [] name = "gliner-pii-service" ->
            [Preset(<<"gliner_pii">>, EmptyEnv) EXCEPT !.gliner_pii = "service"]
       [] name = "vault-redis" ->
            [Preset(<<"regex">>, [VAULT_BACKEND |-> "redis"]) EXCEPT !.vaultSource = "service"]
       [] name = "pf-cache-redis" ->
            [Preset(<<"privacy_filter">>, [PRIVACY_FILTER_CACHE_BACKEND |-> "redis"])
               EXCEPT !.privacy_filter = "service", !.cacheSource = "service",
                      !.variants = [privacy_filter |-> "hf"]]]

\* --presets-file wins over LAUNCHER_PRESETS_FILE.
OperatorPresetsFile(file, environ) ==
  IF file # Unset THEN file ELSE EnvGet(environ, "LAUNCHER_PRESETS_FILE")

PresetsReadable(file) ==
  file = Unset \/ (file \in DOMAIN PresetFiles /\ PresetFiles[file].sound)

LoadPresets(file) ==
  IF file = Unset THEN BundledPresets ELSE PresetFiles[file].presets ++ BundledPresets

\* _apply_preset: what the preset sets in the configuration; its choice of
\* backends is returned to the caller.
ApplyPreset(cfg, p) ==
  [cfg EXCEPT !.flavour = p.flavour, !.mode = p.mode, !.faker = p.faker,
              !.env = p.env ++ @, !.variants = p.variants ++ @,
              !.vaultSource = IF p.vaultSource # Unset THEN p.vaultSource ELSE @,
              !.cacheSource = IF p.cacheSource # Unset THEN p.cacheSource ELSE @]

(***************************************************************************)
(* The command line.                                                       *)
(***************************************************************************)
NoFlags ==
  [menu |-> FALSE, presetsFile |-> Unset, preset |-> Unset, type |-> Unset, mode |-> <<>>, name |-> Unset,
   replace |-> FALSE, faker |-> Unset, salt |-> Unset,
   options |-> EmptyEnv, failOpen |-> {}, forwardKey |-> FALSE,
   pfBackend |-> Unset, pfVariant |-> Unset, glinerBackend |-> Unset, llmBackend |-> Unset,
   vaultSource |-> Unset, cacheSource |-> Unset, rules |-> Unset, extra |-> EmptyEnv]

\* The options that set one variable of the same meaning; --locale, which is
\* in `options` too, is not one of them.
OptionVariable ==
  [regex_overlap_strategy |-> "REGEX_OVERLAP_STRATEGY",
   regex_patterns |-> "REGEX_PATTERNS_PATH",
   denylist_path |-> "DENYLIST_PATH", denylist_backend |-> "DENYLIST_BACKEND",
   llm_api_base |-> "LLM_API_BASE", llm_api_key |-> "LLM_API_KEY",
   llm_model |-> "LLM_MODEL", llm_prompt |-> "LLM_SYSTEM_PROMPT_PATH",
   pf_url |-> "PRIVACY_FILTER_URL", gliner_url |-> "GLINER_PII_URL",
   gliner_labels |-> "GLINER_PII_LABELS", gliner_threshold |-> "GLINER_PII_THRESHOLD"]

FailClosedVariable ==
  [llm |-> "LLM_FAIL_CLOSED", privacy_filter |-> "PRIVACY_FILTER_FAIL_CLOSED",
   gliner_pii |-> "GLINER_PII_FAIL_CLOSED"]

\* A variable that is bound if there is a value for it.
Option(v, value) == IF value # Unset THEN Bound(v, value) ELSE EmptyEnv

FlagEnv(f) ==
  LET given == DOMAIN f.options \cap DOMAIN OptionVariable
  IN [v \in {OptionVariable[o] : o \in given} |->
        f.options[CHOOSE o \in given : OptionVariable[o] = v]]
  ++ [v \in {FailClosedVariable[d] : d \in f.failOpen} |-> "false"]
  ++ (IF f.forwardKey THEN [LLM_USE_FORWARDED_KEY |-> "true"] ELSE EmptyEnv)

Given(choice, otherwise) == IF choice # Unset THEN choice ELSE otherwise

WithFlags(cfg, f) ==
  [cfg EXCEPT !.flavour = Given(f.type, @),
              !.mode = IF f.mode # <<>> THEN f.mode ELSE @,
              !.name = Given(f.name, @), !.replace = f.replace,
              !.faker = "locale" \in DOMAIN f.options
                        \/ (IF f.faker # Unset THEN f.faker = "on" ELSE @),
              !.locale = EnvGet(f.options, "locale"), !.salt = f.salt, !.rules = f.rules, !.extra = f.extra,
              !.env = FlagEnv(f) ++ @,
              !.variants = IF f.pfVariant \in {Unset, "opf"} THEN @
                           ELSE [privacy_filter |-> f.pfVariant] ++ @]

\* A URL flag implies the external backend; privacy_filter defaults to its
\* service.  The preset's choice for gliner_pii is not looked at.
WithBackends(cfg, f, preset) ==
  LET Implied(url) == IF url \in DOMAIN f.options THEN "external" ELSE Unset
      pfFlag == Given(f.pfBackend, Implied("pf_url"))
      glinerFlag == Given(f.glinerBackend, Implied("gliner_url"))
      pf == Given(Given(pfFlag, preset.privacy_filter),
                  IF Active(cfg, "privacy_filter") THEN "service" ELSE Unset)
      Entered(d, b) == IF b # Unset THEN << <<d, b>> >> ELSE <<>>
  IN [cfg EXCEPT !.backends = Entered("llm", Given(f.llmBackend, preset.llm))
                                \o Entered("privacy_filter", pf)
                                \o Entered("gliner_pii", glinerFlag),
                 !.vaultSource = Given(f.vaultSource, @),
                 !.cacheSource = Given(f.cacheSource, @)]

\* The checks of the command line (and, with that of privacy_filter, the menu's).
BackendChosen(cfg, d) == Active(cfg, d) => BackendOf(cfg.backends, d) # Unset

UsageError == [ok |-> FALSE, cfg |-> DefaultConfig]

CommandLine(f, environ) ==
  LET file == OperatorPresetsFile(f.presetsFile, environ)
      presets == LoadPresets(file)
      preset == IF f.preset # Unset THEN presets[f.preset] ELSE Preset(<<>>, EmptyEnv)
      start == IF f.preset # Unset THEN ApplyPreset(DefaultConfig, preset) ELSE DefaultConfig
      cfg == WithBackends(WithFlags(start, f), f, preset)
  IN IF \/ f.presetsFile # Unset /\ f.presetsFile \notin DOMAIN PresetFiles
        \/ f.preset # Unset /\ ~PresetsReadable(file)
     THEN UsageError
     ELSE IF f.preset # Unset /\ f.preset \notin DOMAIN presets THEN UsageError
     ELSE IF ~BackendChosen(cfg, "llm") \/ ~BackendChosen(cfg, "gliner_pii") THEN UsageError
     ELSE [ok |-> TRUE, cfg |-> cfg]

\* --rules is looked at only when the launcher is to start fake-llm, and then
\* must name a file.
RulesMissing(cfg) ==
  BackendOf(cfg.backends, "llm") = "service" /\ cfg.rules # Unset /\ cfg.rules \notin RulesFiles

(***************************************************************************)
(* auto_start_services: Redis first, when either side wants it, then the   *)
(* detectors with backend "service", in the order of the dictionary, which *)
(* never has more than the three detectors that have a backend.            *)
(***************************************************************************)
ServiceAt(backends, i) ==
  IF i \in DOMAIN backends /\ backends[i][2] = "service" THEN <<backends[i][1]>> ELSE <<>>

ToStart(cfg) ==
  (IF "service" \in {cfg.vaultSource, cfg.cacheSource} THEN <<RedisName>> ELSE <<>>)
  \o ServiceAt(cfg.backends, 1) \o ServiceAt(cfg.backends, 2) \o ServiceAt(cfg.backends, 3)

(***************************************************************************)
(* build_run_argv.                                                         *)
(***************************************************************************)
Forwarded(cfg, environ, vars) ==
  LET value(v) == Given(EnvGet(cfg.env, v), EnvGet(environ, v))
  IN [v \in {w \in vars : value(w) # Unset} |-> value(v)]

\* Slip: the address of the detector's default service, whatever was started.
DetectorEnvDefault(cfg, environ, started, d) ==
  LET spec == LauncherMetadata[d]
  IN IF d \in started /\ HasService(spec)
     THEN spec.service.guardrailEnv ++ Forwarded(cfg, environ, spec.passthroughs)
     ELSE Forwarded(cfg, environ, spec.passthroughs)

\* One detector: what the operator set, and over it what the service this
\* process started asks for.
DetectorEnv(cfg, environ, started, d) ==
  LET spec == LauncherMetadata[d]
      service == ResolveService(spec, VariantOf(cfg, d))
  IN IF d \in started /\ service # NoService
     THEN service.guardrailEnv ++ Forwarded(cfg, environ, spec.passthroughs)
     ELSE Forwarded(cfg, environ, spec.passthroughs)

\* The URL of the started Redis, for the side(s) that asked for it only.
RedisEnv(cfg, started) ==
  IF RedisName \notin started THEN EmptyEnv
  ELSE (IF cfg.vaultSource = "service" THEN [VAULT_REDIS_URL |-> VaultDb] ELSE EmptyEnv)
       ++ (IF cfg.cacheSource = "service" THEN [CACHE_REDIS_URL |-> CacheDb] ELSE EmptyEnv)

SurrogateEnv(cfg) ==
  (IF cfg.faker THEN EmptyEnv ELSE [USE_FAKER |-> "false"])
  ++ Option("FAKER_LOCALE", cfg.locale) ++ Option("SURROGATE_SALT", cfg.salt)

\* Of the bindings of a variable on the command line of `run` the last counts.
LastBound(envs) ==
  [v \in UNION {DOMAIN envs[i] : i \in DOMAIN envs} |->
     LET at == {i \in DOMAIN envs : v \in DOMAIN envs[i]}
     IN envs[CHOOSE i \in at : \A j \in at : j <= i][v]]

\* What each name of the mode adds: nothing if no detector bears it, and where a
\* detector is named again what the operator set, anew: its service's values
\* replace the first binding of a variable, which they have already.
DetectorArgs(cfg, environ, started) ==
  [i \in DOMAIN cfg.mode |->
     LET d == cfg.mode[i]
     IN IF d \notin Detectors THEN EmptyEnv
        ELSE IF \E k \in 1..(i - 1) : cfg.mode[k] = d
        THEN Forwarded(cfg, environ, LauncherMetadata[d].passthroughs)
        ELSE DetectorEnv(cfg, environ, started, d)]

\* The variables of the guardrail: the operator's own arguments come last.
GuardrailEnv(cfg, environ, started) ==
  cfg.extra ++ SurrogateEnv(cfg) ++ RedisEnv(cfg, started)
    ++ LastBound(DetectorArgs(cfg, environ, started))
    ++ Forwarded(cfg, environ, CrossCutting)

\* The shared network is joined when this process started something.
OnSharedNetwork(started) == started # {}
=============================================================================
