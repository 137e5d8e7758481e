------------------------------ MODULE Launcher ------------------------------
(***************************************************************************)
(* Launches of the guardrail on one host (tools/launcher): each reads its  *)
(* command line or is configured in the menu, starts Redis and the         *)
(* services of its detectors one after the other, waits for each, runs the *)
(* guardrail in the foreground and, when that ends, stops what it started. *)
(* Containers are known by their names only, crash on their own, and       *)
(* outlive a launch that is interrupted.                                   *)
(***************************************************************************)
EXTENDS Menu, Boot

CONSTANTS Launches,   \* processes of the launcher
          Scenes,     \* hosts, with what each launch is asked
          MaxPolls    \* readiness polls before the deadline

VARIABLES host,   \* the scene: built images, environ, flags, disk, rows visited
          box,    \* [container name -> its state and who ran it]
          run     \* [launch -> its progress]

vars == <<host, box, run>>

Nobody == "nobody"
Operator == "operator"
Absent == [state |-> "absent", by |-> Nobody]
Box(state, by) == [state |-> state, by |-> by]
Guardrail == DefaultConfig.name
Containers == {s.container : s \in Services} \cup {Guardrail}
Running == {"starting", "ready"}

\* Backends, and lists where lists are meant.  A preset's backend is a Literal.
\* A flag's is any text (type=str): one that is not "service" starts nothing, just
\* as "external" does, and such texts are left out.
BackendChoices == {Unset} \cup Sources
FlagsSound(f) ==
  /\ f.mode \in Seq(STRING)
  /\ {f.llmBackend, f.pfBackend, f.glinerBackend} \subseteq BackendChoices
PresetSound(p) ==
  p.mode \in Seq(STRING) /\ {p.llm, p.privacy_filter} \subseteq BackendChoices

ASSUME PresetsReady ==
  \A file \in DOMAIN PresetFiles : PresetFiles[file].sound =>
    \A p \in DOMAIN PresetFiles[file].presets : PresetSound(PresetFiles[file].presets[p])

\* A host has a place for every container the launcher knows.
ASSUME ScenesReady ==
  \A scene \in Scenes :
    /\ Containers \subseteq DOMAIN scene.box
    /\ scene.box \in [DOMAIN scene.box -> [state : {"absent", "exited"} \cup Running,
                                           by : Launches \cup {Nobody, Operator}]]
    /\ \A l \in DOMAIN scene.flags : FlagsSound(scene.flags[l])

\* The names of the shared network.
HostOf ==
  [u \in {VaultDb, CacheDb, "http://privacy-filter-service:8001",
          "http://privacy-filter-hf-service:8003", "http://gliner-pii-service:8002",
          "http://fake-llm:4000/v1"} |->
     CASE u \in {VaultDb, CacheDb} -> "anonymizer-redis"
       [] u = "http://privacy-filter-service:8001" -> "privacy-filter-service"
       [] u = "http://privacy-filter-hf-service:8003" -> "privacy-filter-hf-service"
       [] u = "http://gliner-pii-service:8002" -> "gliner-pii-service"
       [] u = "http://fake-llm:4000/v1" -> "fake-llm"]

\* No address of a service lacks its scheme, and the empty text names no locale.
ASSUME SchemesGiven == DOMAIN HostOf \cap Schemeless = {} /\ {VaultDb, CacheDb} \cap RefusedRedis = {}
ASSUME NoLocaleKnown == Unset \notin UnknownLocales

Idle == [phase |-> "idle", cfg |-> DefaultConfig, todo |-> <<>>, started |-> {},
         made |-> NoChoice, waited |-> 0, registered |-> FALSE, env |-> EmptyEnv]

Init == \E scene \in Scenes :
          /\ host = scene
          /\ box = scene.box
          /\ run = [l \in Launches |-> Idle]
-----------------------------------------------------------------------------
At(l, phase) == run[l].phase = phase
Set(l, r) == run' = [run EXCEPT ![l] = r] /\ UNCHANGED host
Step(l, r) == Set(l, r) /\ UNCHANGED box
Goto(l, phase) == Step(l, [run[l] EXCEPT !.phase = phase])

\* The launch and its service at hand.
Current(r) == StartedAs(Head(r.todo), VariantOf(r.cfg, Head(r.todo)))

Prepared(r, cfg) == [r EXCEPT !.phase = "look", !.cfg = cfg, !.todo = ToStart(cfg)]

\* cli: parse, check, and go on to the services; no subcommand opens the menu.
Begin(l) ==
  LET f == host.flags[l]
      parsed == CommandLine(f, host.environ)
  IN /\ At(l, "idle") /\ l \in DOMAIN host.flags
     /\ IF f.menu THEN Step(l, [Idle EXCEPT !.phase = "menu"])
        ELSE IF ~parsed.ok \/ RulesMissing(parsed.cfg) THEN Goto(l, "ended")
        ELSE Step(l, Prepared(Idle, parsed.cfg))

Edit(l, key) ==
  /\ At(l, "menu") /\ key \in BuildOptions(run[l].cfg) \cap host.rows
  /\ \E cfg \in EditSetting(run[l].cfg, key) : Step(l, [run[l] EXCEPT !.cfg = cfg])

\* action_launch, action_quit_app.
Launch(l) == At(l, "menu") /\ Valid(run[l].cfg) /\ Step(l, Prepared(Idle, run[l].cfg))
Quit(l) == At(l, "menu") /\ Goto(l, "ended")
-----------------------------------------------------------------------------
\* start_service, start_redis: a running container of the name is used as it
\* is, one that stopped is removed.  After the last one the cleanup is
\* registered, if anything was to be started.
Look(l) ==
  /\ At(l, "look")
  /\ LET r == run[l] IN
     IF r.todo = <<>>
     THEN Step(l, [r EXCEPT !.phase = "guardrail", !.registered = ToStart(r.cfg) # <<>>])
     ELSE CASE box[Current(r).container].state \in Running -> Step(l, [r EXCEPT !.todo = Tail(@)])
            [] box[Current(r).container].state = "exited" -> Goto(l, "reap")
            [] OTHER -> Goto(l, "create")

ForceRemove(name) == box' = [box EXCEPT ![name] = Absent]

Reap(l) ==
  /\ At(l, "reap")
  /\ ForceRemove(Current(run[l]).container)
  /\ Set(l, [run[l] EXCEPT !.phase = "create"])

\* A launch that fails before it has registered the cleanup leaves everything.
Abort(l) == Goto(l, "ended")

Create(l) ==
  LET r == run[l]
      name == Current(r).container
      image == ResolveImage(Current(r), host.built, host.tags)
  IN /\ At(l, "create")
     /\ IF image \notin host.built \/ box[name] # Absent THEN Abort(l)
        ELSE /\ box' = [box EXCEPT ![name] = Box("starting", l)]
             /\ Set(l, [r EXCEPT !.phase = "wait", !.waited = 0,
                                 !.started = @ \cup {Head(r.todo)},
                                 !.made = Bound(Head(r.todo), name) ++ @])

\* The engine refuses: the network, the volume, the port.  A container whose
\* run failed late stays behind, created but not running.
EngineFails(l) ==
  LET name == Current(run[l]).container
  IN /\ host.faults /\ At(l, "create")
     /\ \/ Abort(l)
        \/ /\ box[name] = Absent
           /\ box' = [box EXCEPT ![name] = Box("exited", l)]
           /\ Set(l, [run[l] EXCEPT !.phase = "ended"])

\* Slip: the deadline is never looked at.
WaitOn(l) ==
  /\ At(l, "wait")
  /\ LET r == run[l]
         state == box[Current(r).container].state
     IN IF state \notin Running THEN Abort(l)
        ELSE IF state = "ready" THEN Step(l, [r EXCEPT !.phase = "look", !.todo = Tail(@)])
        ELSE UNCHANGED vars

\* _wait_for_health, one poll: the deadline, then the container, then the probe.
Wait(l) ==
  /\ At(l, "wait")
  /\ LET r == run[l]
         state == box[Current(r).container].state
     IN IF r.waited = MaxPolls \/ state \notin Running THEN Abort(l)
        ELSE IF state = "ready" THEN Step(l, [r EXCEPT !.phase = "look", !.todo = Tail(@)])
        ELSE Step(l, [r EXCEPT !.waited = @ + 1])
-----------------------------------------------------------------------------
AfterRun(r) == [r EXCEPT !.phase = IF r.registered THEN "stop" ELSE "ended",
                         !.todo = ToStart(r.cfg)]

\* run_guardrail: the image, the name, and the run itself.
RunGuardrail(l) ==
  LET r == run[l]
      env == GuardrailEnv(r.cfg, host.environ, r.started)
  IN /\ At(l, "guardrail")
     /\ IF \/ host.flavours[r.cfg.flavour] \notin host.built
           \/ box[r.cfg.name] # Absent /\ ~r.cfg.replace
        THEN Step(l, AfterRun(r))
        ELSE /\ box' = [box EXCEPT ![r.cfg.name] = Box("starting", l)]
             /\ Set(l, [r EXCEPT !.phase = "serving", !.env = env])

BootsHere(l) == Boots(host.disk, run[l].cfg.mode, run[l].env)

\* The guardrail is up, or it ends, by itself or by Ctrl-C; --rm removes it.
Up(l) ==
  /\ At(l, "serving") /\ box[run[l].cfg.name] = Box("starting", l) /\ BootsHere(l)
  /\ box' = [box EXCEPT ![run[l].cfg.name] = Box("ready", l)]
  /\ UNCHANGED <<host, run>>
GuardrailEnds(l) ==
  /\ At(l, "serving")
  /\ IF box[run[l].cfg.name].by = l THEN ForceRemove(run[l].cfg.name) ELSE UNCHANGED box
  /\ Set(l, AfterRun(run[l]))
-----------------------------------------------------------------------------
\* Slip: whatever was to be started is stopped.
StopAll(l) ==
  LET r == run[l] IN
  /\ At(l, "stop")
  /\ IF r.todo = <<>> THEN Goto(l, "ended")
     ELSE LET name == StoppedAs(Head(r.todo)).container IN
          /\ box' = IF box[name].state \in Running
                    THEN [box EXCEPT ![name].state = "exited"] ELSE box
          /\ Set(l, [r EXCEPT !.phase = "remove"])

\* The exit handler: every name in the order of the start, if this process
\* started it.
Stop(l) ==
  LET r == run[l] IN
  /\ At(l, "stop")
  /\ IF r.todo = <<>> THEN Goto(l, "ended")
     ELSE IF Head(r.todo) \notin r.started THEN Step(l, [r EXCEPT !.todo = Tail(@)])
     ELSE LET name == StoppedAs(Head(r.todo)).container IN
          /\ box' = IF box[name].state \in Running
                    THEN [box EXCEPT ![name].state = "exited"] ELSE box
          /\ Set(l, [r EXCEPT !.phase = "remove"])

RemoveStopped(l) ==
  /\ At(l, "remove")
  /\ ForceRemove(StoppedAs(Head(run[l].todo)).container)
  /\ Set(l, [run[l] EXCEPT !.phase = "stop", !.todo = Tail(@)])

\* Ctrl-C before the cleanup is registered, or a kill at any time: nothing is
\* cleaned up.
Kill(l) == host.faults /\ run[l].phase \notin {"idle", "menu", "ended"} /\ Abort(l)

\* A service gets ready, or dies.
Ready(c) ==
  /\ box[c].state = "starting" /\ c # Guardrail
  /\ box' = [box EXCEPT ![c].state = "ready"]
  /\ UNCHANGED <<host, run>>
Crash(c) ==
  /\ host.faults /\ c # Guardrail
  /\ box[c].state \in Running
  /\ box' = [box EXCEPT ![c].state = "exited"]
  /\ UNCHANGED <<host, run>>

Progress(l) ==
  \/ Begin(l) \/ Look(l) \/ Reap(l) \/ Create(l) \/ Wait(l) \/ RunGuardrail(l)
  \/ Stop(l) \/ RemoveStopped(l)

Next ==
  \/ \E l \in Launches :
       \/ Progress(l) \/ Launch(l) \/ Quit(l) \/ EngineFails(l)
       \/ Up(l) \/ GuardrailEnds(l) \/ Kill(l)
       \/ \E key \in host.rows : Edit(l, key)
  \/ \E c \in Containers : Ready(c) \/ Crash(c)

\* A launch is a process that goes on by itself; the menu waits for its
\* operator, the guardrail runs as long as it is wanted.
Spec == Init /\ [][Next]_vars
FairSpec == Spec /\ \A l \in Launches : WF_vars(Progress(l))
-----------------------------------------------------------------------------
Dialled(r, v) ==
  LET url == EnvGet(r.env, v)
  IN IF url \in DOMAIN HostOf /\ OnSharedNetwork(r.started) THEN {HostOf[url]} ELSE {}

ListedOnce(cfg, d) ==
  \E i \in DOMAIN cfg.mode : \A k \in DOMAIN cfg.mode : cfg.mode[k] = d <=> k = i

\* A detector named twice is the operator's to send elsewhere: see DetectorArgs.
Undisputed(cfg, environ, d) ==
  \/ ListedOnce(cfg, d)
  \/ Active(cfg, d) /\ Given(EnvGet(cfg.env, DetectorUrl[d]), EnvGet(environ, DetectorUrl[d])) = Unset

\* The guardrail dials the containers this launch ran for it: for each detector
\* of the mode the one of its variant ("the URL points at the actually-started
\* container", runner.py), whatever URL the operator set, if they name it once;
\* and the Redis for the sides that chose the service, each in a database of its
\* own; a side that did not choose it keeps what the operator set.
GuardrailWired ==
  \A l \in Launches : At(l, "serving") /\ run[l].cfg.extra = EmptyEnv =>
    LET r == run[l]
        Side(source, v) ==
          IF source = "service" /\ RedisName \in r.started
          THEN Dialled(r, v) = {r.made[RedisName]}
          ELSE EnvGet(r.env, v) = Given(EnvGet(r.cfg.env, v), EnvGet(host.environ, v))
    IN /\ \A d \in r.started \ {RedisName} :
            Undisputed(r.cfg, host.environ, d) => Dialled(r, DetectorUrl[d]) = {r.made[d]}
       /\ Side(r.cfg.vaultSource, "VAULT_REDIS_URL")
       /\ Side(r.cfg.cacheSource, "CACHE_REDIS_URL")
       /\ {r.cfg.vaultSource, r.cfg.cacheSource} = {"service"} /\ RedisName \in r.started =>
            r.env["VAULT_REDIS_URL"] # r.env["CACHE_REDIS_URL"]

\* The URL rows the menu shows are filled in, and every service to be started
\* was started by this launch.
Filled(cfg) ==
  \A row \in BuildOptions(cfg) \cap {"privacy_filter_url", "gliner_pii_url",
                                     "vault_redis_url", "cache_redis_url"} :
    EnvGet(cfg.env, TextVariable[row]) # Unset

\* The paths and URLs typed in the menu can be used, nothing is set outside of
\* it, and the bundled files are there.
MenuInputsSound ==
  \A scene \in Scenes : \A l \in DOMAIN scene.flags : scene.flags[l].menu =>
    LET disk == scene.disk
        Path(row) == {PlaceOf(disk, t) : t \in Typed[row] \ {Unset}}
    IN /\ scene.environ = EmptyEnv
       /\ \A p \in {RegexDefault} \cup Path("regex_patterns") : LoadPatterns(disk, p).ok
       /\ \A p \in Path("denylist_path") : LoadEntries(disk, p)
       /\ \A p \in {PromptDefault} \cup Path("llm_prompt") : LoadSystemPrompt(disk, p)
       /\ \A row \in {"privacy_filter_url", "gliner_pii_url", "llm_api_base"} :
            Typed[row] \cap Schemeless = {}
       /\ \A row \in {"vault_redis_url", "cache_redis_url"} : Typed[row] \cap RefusedRedis = {}

\* A configuration made in the menu, by whatever edits in whatever order, and
\* accepted by its check is one the guardrail starts with ("auto-defaults its
\* backend to service so the operator doesn't have to pick", menu.py), but for
\* one kind that its check does not see: Faker in use with a locale it does not
\* know, typed now or before Faker was last switched off.
MenuLaunchBoots ==
  \A l \in Launches :
    LET r == run[l]
    IN At(l, "serving") /\ host.flags[l].menu /\ Filled(r.cfg)
         /\ ToSet(ToStart(r.cfg)) \subseteq r.started =>
           (BootsHere(l) <=> ~(r.cfg.faker /\ r.cfg.locale \in UnknownLocales))

\* No launch stops a running container that it did not run ("we don't tear down
\* what we don't own", services.py).  Names are all it knows, so it may stop the
\* one that another launch put in the place of a dead one of its own; and with a
\* variant it looks at the name of the default container.
OnlyOwnStopped ==
  [][\A l \in Launches : run'[l] # run[l] =>
       \A c \in Containers \ {Guardrail} :
         box[c].state \in Running /\ box'[c].state \notin Running =>
           \/ box[c].by = l
           \/ box[c].by \in Launches /\ (At(l, "reap") \/ Head(run[l].todo) \in run[l].started)
           \/ /\ run[l].phase \in {"stop", "remove"} /\ Head(run[l].todo) \in run[l].started
              /\ run[l].made[Head(run[l].todo)] # c]_vars

\* Every launch comes to its guardrail or ends; one that reaches its cleanup ends
\* and, unless it is killed there, leaves no container it ran but a variant's
\* ("on graceful shutdown we want to leave a clean slate", services.py).
LeftClean(l) ==
  \A c \in Containers : box[c].by = l => c # Guardrail /\ \E n \in run[l].started :
                                           run[l].made[n] = c /\ StoppedAs(n).container # c
EveryLaunchEnds ==
  \A l \in Launches :
    /\ At(l, "look") ~> (At(l, "serving") \/ At(l, "ended"))
    /\ At(l, "stop") ~> (At(l, "ended") /\ (host.faults \/ LeftClean(l)))

(***************************************************************************)
(* What the loader of the patterns is to compute.                          *)
(***************************************************************************)
Extended(disk, p, dir) ==
  IF Readable(disk, p) THEN {Resolve(ref, dir) : ref \in ToSet(Contents(disk, p).extends)} ELSE {}
Below(disk, p, dir) ==
  LET grown[n \in Nat] ==
        IF n = 0 THEN Extended(disk, p, dir)
        ELSE grown[n - 1] \cup UNION {Extended(disk, q, Here) : q \in grown[n - 1]}
  IN grown[Cardinality(DOMAIN disk.files) + 1]

\* The guardrail has its patterns if every file of the chain is there and sound
\* and none extends itself; it has those of every file, and nothing a file
\* brings along comes before what the operator's own file says.
PatternsLoaded ==
  \A l \in Launches : At(l, "serving") =>
    LET disk == host.disk
        root == RootPatterns(disk, run[l].env)
        below == Below(disk, root, IF root.dir = Bundled THEN Here ELSE root.dir)
        reached == {root} \cup below
        loops == root \in below \/ \E p \in below : p \in Below(disk, p, Here)
        all == LoadPatterns(disk, root)
    IN /\ all.ok <=> /\ \A p \in reached : Readable(disk, p) /\ Contents(disk, p).sound
                     /\ ~loops
                     /\ \E p \in reached : Contents(disk, p).own # <<>>
       /\ all.ok => /\ ToSet(all.patterns) = UNION {ToSet(Contents(disk, p).own) : p \in reached}
                    /\ IsPrefix(Contents(disk, root).own, all.patterns)
=============================================================================
