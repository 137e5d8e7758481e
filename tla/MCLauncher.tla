----------------------------- MODULE MCLauncher -----------------------------
(* Launches for TLC: a menu on a quiet host, command lines on busy ones, and  *)
(* pattern files that extend each other in every way.                         *)
EXTENDS Launcher, TLC

CONSTANTS l1, l2

AllImages == {"guardrail:default"} \cup UNION {ToSet(s.images) : s \in Services}
Regexes == Place(Bundled, "regex_default.yaml")
Disk(files, cwd) ==
  [cwd |-> cwd,
   files |-> files @@ <<Bundled, "regex_default.yaml">> :> File(TRUE, <<"D">>, <<>>)
                   @@ <<Bundled, "llm_default.md">> :> File(TRUE, <<"P">>, <<>>),
   named |-> "bundled:regex_pentest.yaml" :> Place(Bundled, "regex_pentest.yaml")
             @@ "rules/root.yaml" :> Place("rules", "root.yaml") @@ "./root.yaml" :> Place(Here, "root.yaml")
             @@ "names.yaml" :> Place(Here, "names.yaml"),
   registries |-> "sound" :> <<Entry(TRUE, "legal", Place(Here, "names.yaml")), Blank>>
                  @@ "twice" :> <<Entry(TRUE, "legal", Place(Here, "names.yaml")),
                                  Entry(TRUE, "legal", Place(Here, "names.yaml"))>>
                  @@ "reserved" :> <<Entry(TRUE, "default", Place(Here, "names.yaml"))>>]
Pentest == <<Bundled, "regex_pentest.yaml">> :> File(TRUE, <<"T">>, <<Regexes>>)
Names == <<"work", "names.yaml">> :> File(TRUE, <<"N">>, <<>>)
PlainDisk == Disk(Pentest @@ Names, "work")

Quiet == [c \in Containers |-> Absent]
Scene(flags, boxes, faults) ==
  [flags |-> flags, environ |-> EmptyEnv, built |-> AllImages, tags |-> EmptyEnv,
   flavours |-> "default" :> "guardrail:default", box |-> boxes, rows |-> {},
   disk |-> PlainDisk, faults |-> faults]

(* The menu. *)
MenuFlags == [NoFlags EXCEPT !.menu = TRUE]
Desk(rows) == [Scene(l1 :> MenuFlags, Quiet, FALSE) EXCEPT !.rows = rows]
Desks ==
  {Desk({"detector_mode", "vault", "vault_redis_backend", "vault_redis_url", "pf_cache",
         "cache_redis_backend", "cache_redis_url"}),
   Desk({"detector_mode", "privacy_filter_backend", "privacy_filter_variant",
         "privacy_filter_url", "gliner_pii_backend", "gliner_pii_url", "llm_backend", "flavour"}),
   Desk({"llm_cache", "gliner_pii_cache", "cache_redis_backend", "detector_mode", "llm_fail"}),
   Desk({"use_faker", "faker_locale", "surrogate_salt", "regex_overlap_strategy",
         "regex_patterns", "detector_mode", "denylist_path", "denylist_backend"})}
MCTyped ==
  [privacy_filter_url |-> {Unset, "http://pf.example"}, gliner_pii_url |-> {Unset, "http://gp.example"},
   vault_redis_url |-> {Unset, "redis://r.example/0"}, cache_redis_url |-> {Unset, "redis://r.example/1"},
   llm_api_base |-> {Unset, "http://llm.example/v1"}, llm_model |-> {Unset},
   llm_prompt |-> {Unset}, gliner_pii_labels |-> {Unset}, gliner_pii_threshold |-> {Unset},
   regex_patterns |-> {Unset, "bundled:regex_pentest.yaml"}, denylist_path |-> {Unset, "names.yaml"},
   surrogate_salt |-> {Unset, "salt"}, faker_locale |-> {Unset, "pt_BR", "xx_XX"}]
MCOrders == {<<"regex">>, <<"privacy_filter", "regex">>, <<"llm", "gliner_pii">>, <<"denylist", "regex">>,
             <<>>}

(* Command lines. *)
Preset1(p) == [NoFlags EXCEPT !.preset = p]
Both == [NoFlags EXCEPT !.mode = <<"llm">>, !.llmBackend = "service", !.vaultSource = "service",
                        !.cacheSource = "service", !.options = "llm_model" :> "m"]
Opf == [NoFlags EXCEPT !.mode = <<"privacy_filter">>, !.replace = TRUE]
Commands ==
  {Preset1("vault-redis"), Preset1("privacy-filter-service"), Preset1("gliner-pii-service"),
   Preset1("site"), Preset1("nosuch"), Both, Opf,
   [Preset1("pf-cache-redis") EXCEPT !.pfVariant = "opf", !.cacheSource = "external",
                                     !.extra = "CACHE_REDIS_URL" :> "redis://r.example/1"],
   [Preset1("site") EXCEPT !.presetsFile = "broken.yaml"],
   [NoFlags EXCEPT !.mode = <<"gliner_pii">>, !.failOpen = {"gliner_pii"},
                   !.options = "gliner_url" :> "http://gp.example" @@ "locale" :> "pt_BR"],
   [NoFlags EXCEPT !.mode = <<"gliner_pii">>, !.options = "gliner_url" :> Unset @@ "locale" :> Unset],
   [Both EXCEPT !.rules = "nosuch.yaml"], [Both EXCEPT !.mode = <<"llm", "regex", "llm">>]}
MCPresetFiles == "site.yaml" :> Document(TRUE, "site" :> [Preset(<<"privacy_filter", "llm">>, EmptyEnv) EXCEPT
                                             !.llm = "service", !.privacy_filter = "service"])
                 @@ "broken.yaml" :> Document(FALSE, NoChoice)
PfBox == PrivacyFilterService.container
HfBox == PrivacyFilterHf.container
RedisBox == RedisService.container
Boxes ==
  {Quiet,
   [Quiet EXCEPT ![PfBox] = Box("ready", Operator), ![RedisBox] = Box("exited", Operator)],
   [Quiet EXCEPT ![RedisBox] = Box("ready", Operator), ![Guardrail] = Box("ready", Operator)]}
Busy(flags, boxes, faults) ==
  [Scene(flags, boxes, faults) EXCEPT !.environ = "LAUNCHER_PRESETS_FILE" :> "site.yaml"]
Shops ==
  {Busy(l1 :> f, b, faults) : f \in Commands, b \in Boxes, faults \in BOOLEAN}
  \cup {Busy(l1 :> f @@ l2 :> g, b, FALSE) :
          f \in {Both, Opf}, g \in {Preset1("vault-redis"), Preset1("privacy-filter-service"), Opf},
          b \in Boxes}
  \cup {Busy(l1 :> Preset1("vault-redis") @@ l2 :> Preset1("vault-redis"), Quiet, TRUE),
        [Busy(l1 :> Opf, Quiet, FALSE) EXCEPT !.built = {"guardrail:default"}],
        [Busy(l1 :> Preset1("vault-redis"), Quiet, FALSE) EXCEPT !.built = {RedisService.images[1]}]}

(* Environments with registries, limits and literals, sound and not. *)
Environs ==
  {"REGEX_PATTERNS_REGISTRY" :> v : v \in {"sound", "twice", "reserved"}}
  \cup {v : v \in {"DENYLIST_REGISTRY" :> "sound" @@ "MAX_BODY_BYTES" :> "0",
                   "VAULT_TTL_S" :> "-1" @@ "REGEX_OVERLAP_STRATEGY" :> "shortest",
                   "MAX_BODY_BYTES" :> "1", "VAULT_BACKEND" :> "Redis"}}
Sites == {[Scene(l1 :> NoFlags, Quiet, FALSE) EXCEPT !.environ = e] : e \in Environs}

(* Files that extend each other: the root, one beside it, and one of each name  *)
(* in the working directory.                                                    *)
Refs == {Regexes, Place(Here, "root.yaml"), Place(Here, "other.yaml"), Place("rules", "other.yaml")}
RefLists == {<<>>} \cup {<<a>> : a \in Refs} \cup {<<a, b>> : a, b \in Refs}
Graphs ==
  {Disk(<<"rules", "root.yaml">> :> File(TRUE, <<"R">>, x)
          @@ <<"rules", "other.yaml">> :> File(sound, own, y)
          @@ <<"work", "other.yaml">> :> File(TRUE, <<"W">>, <<>>), cwd) :
      x \in RefLists, y \in {q \in RefLists : Len(q) <= 1}, sound \in BOOLEAN,
      own \in {<<>>, <<"O">>}, cwd \in {"rules", "work"}}
Rules(v) == [NoFlags EXCEPT !.options = "regex_patterns" :> v]
Files ==
  {[Scene(l1 :> Rules(v), Quiet, FALSE) EXCEPT !.disk = d] :
      v \in {"rules/root.yaml", "./root.yaml"}, d \in Graphs}

ASSUME MenuInputsSound

MCScenes == Desks \cup Shops \cup Sites \cup Files
MCNumerals == "0" :> 0 @@ "1" :> 1 @@ "-1" :> -1
=============================================================================
