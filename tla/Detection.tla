----------------------------- MODULE Detection -----------------------------
(***************************************************************************)
(* One request through detection, for what is found and what is let pass   *)
(* (the order of tasks, permits and cancellation is Dispatch): the request *)
(* is let in (main.py) and parsed (api.py), the active detectors are       *)
(* resolved and partitioned, each runs on each text or on the merged blob, *)
(* and what they report is deduplicated and united (pipeline.py).  A local detector claims spans   *)
(* candidate by candidate; a remote one posts and gets a reply.            *)
(***************************************************************************)
EXTENDS RegexDetector, Denylist, DetectorCalls

CONSTANTS Worlds,  \* configurations with a request each
          Raws,    \* overrides some other request brought
          Replies  \* [remote detector -> replies its service may give]

VARIABLES world,   \* the configuration and the request
          over,    \* the parsed overrides
          job,     \* per detector and text: the state of that call
          status,  \* new, refused, failed, running, released, blocked
          found    \* what is to be anonymized

vars == <<world, over, job, status, found>>

Local == {"regex", "denylist"}
SEP == "SEP"   \* _MERGE_SENTINEL, one character here
BLOB == 0      \* the index of the merged blob beside those of the texts

Fresh == [at |-> "ready", queue |-> <<>>, claimed |-> {}, how |-> "found", matches |-> <<>>,
          sent |-> <<>>, reply |-> Reply("none", None)]
Init == /\ world \in Worlds
        /\ over = Unset
        /\ job = <<>>
        /\ status = "new"
        /\ found = <<>>
-----------------------------------------------------------------------------
(* What a configuration that boots and a request that is JSON make sure of.  *)

\* A character is a string; those LowerOf makes are named, since no prover
\* knows that a literal is one.
Char == STRING \cup {"a", "b", "c", "i", "dot"}

\* _compile_entries and _load_entries: nothing empty is loaded.
IsPatterns(q) ==
    /\ q \in Seq([type : STRING, label : Seq(Char), value : Seq(Char), group : STRING])
    /\ \A i \in DOMAIN q : q[i].label \o q[i].value # <<>>
Listing == [value : Seq(Char) \ {<<>>}, type : STRING, cs : BOOLEAN, wb : BOOLEAN]

\* Strings and arrays of a request are sequences, numbers count hundredths.
IsSeqOf(q) == q \in Seq(ToSet(q))
IsRaw(raw) == \A f \in DOMAIN raw :
    /\ Tag(raw[f]) \in {"str", "list"} => IsSeqOf(Val(raw[f]))
    /\ Tag(raw[f]) = "num" => Val(raw[f]) \in Int

\* DETECTOR_MODE names at least one detector and none twice, only a detector
\* that asks a service has an input mode, an unknown strategy does not boot, and
\* a registry has no empty name.
ReadyWorld(w) ==
    /\ w.texts \in Seq(Seq(Char))
    /\ IsRaw(w.raw)
    /\ IsSeqOf(w.configured) /\ w.configured # <<>> /\ IsInjective(w.configured)
    /\ w.merged \cap Local = {}
    /\ w.strategy \in Strategies
    /\ IsPatterns(w.patterns)
    /\ \A name \in DOMAIN w.pattern_sets : IsPatterns(w.pattern_sets[name])
    /\ w.denylist \in Seq(Listing)
    /\ \A name \in DOMAIN w.denylists : w.denylists[name] \in Seq(Listing)
    /\ "" \notin DOMAIN w.prompts
Ready == \A w \in Worlds : ReadyWorld(w)
ASSUME WorldsReady == Ready
-----------------------------------------------------------------------------
\* _resolve_active_detectors: a subset of the configured ones, in the order the
\* override names them; everything if nothing is left.
ActiveDetectors(w, o) ==
    LET named == {n \in UNION {ToSet(q) : q \in o.detector_mode} : n.style = "plain"}
        mode == IF o.detector_mode = {} THEN <<>> ELSE CHOOSE q \in o.detector_mode : TRUE
        known == Where(mode, LAMBDA p : p \in named /\ p.name \in ToSet(w.configured))
    IN IF known = <<>> THEN w.configured
       ELSE Distinct([i \in DOMAIN known |-> known[i].name])

\* The texts joined by the sentinel.
Blob(texts) == FoldLeftDomain(LAMBDA b, i : IF i = 1 THEN texts[1] ELSE b \o <<SEP>> \o texts[i],
                              <<>>, texts)
Demoted(w, o) == {d \in w.merged : d = "llm" /\ Len(Blob(w.texts)) > w.max_chars}
PerText(w, o) ==
    LET active == ActiveDetectors(w, o)
    IN Where(active, LAMBDA d : d \notin w.merged)
       \o Where(active, LAMBDA d : d \in Demoted(w, o))
MergedMode(w, o) ==
    Where(ActiveDetectors(w, o), LAMBDA d : d \in w.merged \ Demoted(w, o))
TextOf(w, j) == IF j[2] = BLOB THEN Blob(w.texts) ELSE w.texts[j[2]]

\* A body over the cap, or one that never arrived, reaches no handler.
Welcome == Admitted(world.declared, world.messages, world.max_body_bytes)
Refuse == /\ status = "new"
          /\ ~Welcome
          /\ status' = "refused"
          /\ UNCHANGED <<world, over, job, found>>

\* The endpoint parses the overrides before its try block: what is raised there
\* is answered with a 500, and no policy is asked.
Trip == /\ status = "new"
        /\ Welcome
        /\ ParseRaises(world.raw)
        /\ status' = "failed"
        /\ UNCHANGED <<world, over, job, found>>

\* Then the pipeline creates the calls.
Receive ==
    LET o == ParseOverrides(world.raw)
    IN /\ status = "new"
       /\ Welcome
       /\ ~ParseRaises(world.raw)
       /\ status' = "running"
       /\ over' = o
       /\ job' = [j \in (ToSet(PerText(world, o)) \X DOMAIN world.texts)
                          \cup (ToSet(MergedMode(world, o)) \X {BLOB}) |-> Fresh]
       /\ UNCHANGED <<world, found>>

SetJob(j, r) == /\ job' = [job EXCEPT ![j] = r]
                /\ UNCHANGED <<world, over, status, found>>
Open(j, at) == status = "running" /\ j \in DOMAIN job /\ job[j].at = at
Done(r, q) == [r EXCEPT !.at = "done", !.matches = q]

\* The strategy of the call; an unknown one raises.
StrategyOf(w, o) == IF o.regex_overlap_strategy = {} THEN w.strategy
                    ELSE LET p == CHOOSE p \in o.regex_overlap_strategy : TRUE
                         IN IF p.style = "plain" THEN p.name ELSE "unknown"
CandidatesOf(j, w, o) ==
    LET t == TextOf(w, j)
    IN IF j[1] = "regex"
       THEN RegexOrder(StrategyOf(w, o),
                RegexCandidates(Named(PlainName(o.regex_patterns), w.patterns, w.pattern_sets), t))
       ELSE LongestFirst(DenylistCandidates(w.backend,
                Load(Named(PlainName(o.denylist), w.denylist, w.denylists)), t))

\* Pass 1 of a local detector.  An error there means no match: these detectors
\* have no availability error.
Scan(j) ==
    LET t == TextOf(world, j)
    IN /\ Open(j, "ready") /\ j[1] \in Local
       /\ IF t = <<>> THEN SetJob(j, Done(Fresh, <<>>))
          ELSE IF j[1] = "regex" /\ StrategyOf(world, over) \notin Strategies
          THEN SetJob(j, [Fresh EXCEPT !.at = "done", !.how = "crash"])
          ELSE SetJob(j, [Fresh EXCEPT !.at = "claiming", !.queue = CandidatesOf(j, world, over)])

\* Pass 2, one candidate: it gets its span unless some of it is taken.
Claim(j) ==
    LET r == job[j]
        c == Head(r.queue)
        taken == \E a \in r.claimed : Overlaps(a, c)
    IN /\ Open(j, "claiming") /\ r.queue # <<>>
       /\ SetJob(j, IF taken THEN [r EXCEPT !.queue = Tail(@)]
                    ELSE [r EXCEPT !.queue = Tail(@), !.claimed = @ \cup {c},
                                   !.matches = Append(@, Match(c.value, c.type))])
Settle(j) ==
    /\ Open(j, "claiming") /\ job[j].queue = <<>>
    /\ SetJob(j, [job[j] EXCEPT !.at = "done"])

\* A remote detector: a blank text needs no call, a long one the LLM refuses.
Blankish(t) == Strip(t) = <<>>
Fail(r, d) == [r EXCEPT !.at = IF d \in world.closed THEN "failed" ELSE "done", !.matches = <<>>]
Post(j) ==
    LET t == TextOf(world, j)
    IN /\ Open(j, "ready") /\ j[1] \notin Local
       /\ IF Blankish(t) THEN SetJob(j, Done(Fresh, <<>>))
          ELSE IF j[1] = "llm" /\ Len(t) > world.max_chars
          THEN SetJob(j, Fail([Fresh EXCEPT !.how = "unavailable"], "llm"))
          ELSE SetJob(j, [Fresh EXCEPT !.at = "posted",
                              !.sent = <<Request(j[1], t, over, world), ApiKey(world)>>])

\* The reply is there.  Its typed error, or any other exception, blocks under
\* fail-closed and means no match otherwise (_run_detector).
Hear(j, reply) ==
    LET outcome == Outcome(j[1], reply, TextOf(world, j))
        heard == [job[j] EXCEPT !.how = outcome.how, !.reply = reply]
    IN /\ Open(j, "posted")
       /\ SetJob(j, IF outcome.how = "found" THEN Done(heard, outcome.matches)
                    ELSE Fail(heard, j[1]))
-----------------------------------------------------------------------------
\* One list, a text once: the type it came with first, every source.
Unite(q) ==
    LET once == Kept(q, {i \in DOMAIN q : \A k \in 1..(i - 1) : q[k].text # q[i].text})
        SourcesOf(v) == LET same == Where(q, LAMBDA m : m.text = v)
                        IN Distinct(FlattenSeq([k \in DOMAIN same |-> same[k].sources]))
    IN [k \in DOMAIN once |-> [once[k] EXCEPT !.sources = SourcesOf(once[k].text)]]
Sourced(d, q) == [i \in DOMAIN q |-> [text |-> q[i].text, type |-> q[i].type, sources |-> <<d>>]]

\* The matches of one text.
DedupWithSources(ds, of) ==
    LET all == FlattenSeq([k \in DOMAIN ds |-> Sourced(ds[k], of[ds[k]])])
    IN Unite(Where(all, LAMBDA m : m.text # <<>>))

\* What a merged detector reports across a segment break is no match.
WithinSegment(q) == Where(q, LAMBDA m : SEP \notin ToSet(m.text))

\* anonymize: the per-text results text by text, then the merged ones.
Union(w, o) ==
    LET ds == PerText(w, o)
        ms == MergedMode(w, o)
        per == [i \in DOMAIN w.texts |->
                   DedupWithSources(ds, [d \in ToSet(ds) |-> job[<<d, i>>].matches])]
        more == [k \in DOMAIN ms |-> Sourced(ms[k], WithinSegment(job[<<ms[k], BLOB>>].matches))]
    IN Unite(FlattenSeq(per \o more))

Release ==
    /\ status = "running"
    /\ \A j \in DOMAIN job : job[j].at = "done"
    /\ status' = "released"
    /\ found' = Union(world, over)
    /\ UNCHANGED <<world, over, job>>

\* A typed error cancels the rest of the request and blocks it.
Block ==
    /\ status = "running"
    /\ \E j \in DOMAIN job : job[j].at = "failed"
    /\ status' = "blocked"
    /\ UNCHANGED <<world, over, job, found>>

Next == \/ Receive \/ Refuse \/ Trip \/ Release \/ Block
        \/ \E j \in DOMAIN job : Scan(j) \/ Claim(j) \/ Settle(j) \/ Post(j)
        \/ \E j \in {j \in DOMAIN job : job[j].at = "posted"} :
             \E reply \in Replies[j[1]] : Hear(j, reply)

Spec == Init /\ [][Next]_vars
-----------------------------------------------------------------------------
Ended(d, how) == {j \in DOMAIN job : j[1] = d /\ job[j].at = "done" /\ job[j].how = how}

\* Two spans hold a character in common.
Share(a, b) == (a.start..(a.end - 1)) \cap (b.start..(b.end - 1)) # {}

\* No character of a text is claimed twice, and a candidate that lost its span
\* lost it to one that overlaps it and, longest first, is no shorter: no
\* detected value is let go for nothing (regex.py and denylist.py, pass 2).
ClaimsSettled ==
    \A d \in Local : \A j \in Ended(d, "found") :
        LET claimed == job[j].claimed
        IN /\ \A a, b \in claimed : a # b => ~Share(a, b)
           /\ TextOf(world, j) # <<>> =>
                \A c \in ToSet(CandidatesOf(j, world, over)) :
                    \E a \in claimed :
                        /\ Share(a, c)
                        /\ d = "denylist" \/ StrategyOf(world, over) = "longest"
                             => Width(a) >= Width(c)

\* The privacy filter reports nothing that runs across a paragraph break, and
\* merging and splitting lose no character of a usable span but blanks.
ParagraphsRespected ==
    \A j \in Ended("privacy_filter", "found") : job[j].reply.kind = "json" =>
        LET t == TextOf(world, j)
            spans == {s \in ToSet(RawSpans(job[j].reply.body)) : s.label # "" /\ Usable(s, t)}
            pieces == ToSet(Pieces(RawSpans(job[j].reply.body), t))
        IN /\ \A m \in ToSet(job[j].matches) : ~Breaks(m.text)
           /\ \A s \in spans : \A i \in (s.start + 1)..s.end :
                t[i] \notin Blank => \E p \in pieces : p.start < i /\ i <= p.end

\* The entries a reply reports, if it is an answer at all: what the prompt asks
\* the model for and what the services promise.  An array that holds one object
\* passes for that object, which the code's text does not say.
Bare(x) == IF IsList(x) /\ Len(Objects(Val(x))) = 1 THEN Objects(Val(x))[1] ELSE x
EntriesOf(d, body) ==
    IF Tag(body) # "obj" THEN {}
    ELSE CASE d = "llm" -> {Field(Bare(Val(content)), "entities") :
                              content \in {x \in {ContentOf(b) : b \in {b \in {body} : HasContent(b)}} :
                                            Tag(x) = "str" /\ Tag(Bare(Val(x))) = "obj"}}
           [] d = "gliner_pii" -> {Field(body, "matches")}
           [] OTHER -> {Field(body, "spans")}

\* A reply is JSON too: its arrays and strings are sequences, its offsets integers.
IsEntries(x) ==
    IsList(x) =>
        /\ IsSeqOf(Val(x))
        /\ \A y \in ToSet(Objects(Val(x))) :
             /\ LET text == Get(y, "text", Str(<<>>)) IN Tag(text) = "str" => IsSeqOf(Val(text))
             /\ OffsetOf(y, "start") \in Int /\ OffsetOf(y, "end") \in Int
ReadyReply(d, reply) == reply.kind = "json" => \A x \in EntriesOf(d, reply.body) : IsEntries(x)
ASSUME RepliesReady ==
    /\ \A w \in Worlds : ToSet(w.configured) \ Local \subseteq DOMAIN Replies
    /\ \A d \in DOMAIN Replies : \A reply \in Replies[d] : ReadyReply(d, reply)

Answered(d, reply) ==
    /\ reply.kind = "json"
    /\ \E q \in EntriesOf(d, reply.body) : IsList(q)

\* An anonymized text stands for the reported one: all but punctuation at its end.
StandsFor(v, reported) ==
    /\ IsPrefix(v, reported)
    /\ ToSet(SubSeq(reported, Len(v) + 1, Len(reported))) \subseteq Punctuation

\* A request that is let through had an answer from every fail-closed service
\* it asked, and every value an answer reports that is in the text is going to
\* be anonymized ("soft-failing to [] would silently let unredacted text
\* through under fail_closed=True", llm.py).
ReportedIsFound ==
    status = "released" =>
        \A j \in DOMAIN job : j[1] \in {"llm", "gliner_pii"} =>
            LET reply == job[j].reply
                t == TextOf(world, j)
            IN /\ j[1] \in world.closed /\ ~Blankish(t) => Answered(j[1], reply)
               /\ Answered(j[1], reply) =>
                    \A q \in EntriesOf(j[1], reply.body) : \A x \in ToSet(Objects(Val(q))) :
                        LET v == Strip(StrOf(Get(x, "text", Str(<<>>))))
                        IN ToSet(v) \ Punctuation # {} /\ Occurs(v, t) /\ SEP \notin ToSet(v) =>
                            \E i \in DOMAIN found : StandsFor(found[i].text, v)

\* Two requests that share a cache entry of a remote detector, or of the pipeline,
\* would have asked the same: a hit never answers for another model, prompt,
\* label set or pattern set (llm.py and remote_gliner_pii.py, cache_key_for).
KeysTellRequestsApart ==
    status = "running" /\ (\A j \in DOMAIN job : job[j] = Fresh) =>
        \A raw \in {raw \in Raws : ~ParseRaises(raw)} :
            LET o == ParseOverrides(raw)
                ds == ActiveDetectors(world, over)
                Same(d, t) == Request(d, t, o, world) = Request(d, t, over, world)
            IN \A i \in DOMAIN world.texts :
                LET t == world.texts[i]
                IN /\ \A d \in ToSet(ds) \ Local :
                        CacheKey(d, t, o, world) = CacheKey(d, t, over, world) => Same(d, t)
                   /\ PipelineKey(t, ActiveDetectors(world, o), o) = PipelineKey(t, ds, over) =>
                        /\ \A d \in ToSet(ds) \ Local : Same(d, t)
                        /\ \A d \in ToSet(ds) \cap Local :
                             CandidatesOf(<<d, i>>, world, o) = CandidatesOf(<<d, i>>, world, over)

\* The number a client asks for as its threshold, if it is one from 0 to 1.
AskedThreshold(raw) ==
    IF "gliner_threshold" \in DOMAIN raw
    THEN {n \in 0..100 : Tag(raw["gliner_threshold"]) = "num" /\ Val(raw["gliner_threshold"]) = n}
    ELSE {}

\* Of all that a client may put in its overrides only an integer too large for a
\* float ends its request, and that one always does (api.py:143 and 265-267, where
\* the docstring says that no override blocks a request).  In any other request no
\* local detector trips, a nonempty choice of the configured detectors runs, each
\* once, and the service is asked for the client's threshold if that is a number
\* in range, not a bool or a text, and for the configured one if it is not.
OverridesHarmless ==
    /\ status \in {"failed", "running", "released", "blocked"} =>
          (status = "failed" <=> ParseRaises(world.raw))
    /\ status \in {"running", "released", "blocked"} =>
          /\ ActiveDetectors(world, over) # <<>>
          /\ IsInjective(ActiveDetectors(world, over))
    /\ \A j \in DOMAIN job :
          /\ j[1] \in ToSet(world.configured)
          /\ j[1] \in Local => job[j].how # "crash"
          /\ j[1] = "gliner_pii" /\ job[j].sent # <<>> =>
                job[j].sent[1].threshold = Effective(AskedThreshold(world.raw), world.threshold)

\* Nothing empty is ever replaced: the legacy _dedup "kept for the merged-dispatch
\* path" drops such matches (pipeline.py), as the per-text path does.
NothingEmptyFound == \A i \in DOMAIN found : found[i].text # <<>>
=============================================================================
