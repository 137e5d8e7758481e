---------------------------- MODULE MCDetection ----------------------------
(* Detection for TLC: requests that reach every branch of the local and the *)
(* remote detectors, one group of worlds for each.                          *)
EXTENDS Detection

NoFields == [x \in {} |-> x]
Base == [texts |-> <<>>, raw |-> NoFields, configured |-> <<>>, merged |-> {}, closed |-> {},
         backend |-> "regex", patterns |-> <<>>, pattern_sets |-> NoFields, strategy |-> "longest",
         denylist |-> <<>>, denylists |-> NoFields, max_chars |-> 8,
         model |-> {<<Part("fake", "plain")>>}, prompt |-> "default prompt",
         prompts |-> [legal |-> "legal prompt"], labels |-> {}, threshold |-> {},
         use_forwarded_key |-> FALSE, authorization |-> "absent", api_key |-> "",
         declared |-> 4, messages |-> <<Message("http.request", 4, FALSE)>>, max_body_bytes |-> 4]
One(n) == Str(<<Part(n, "plain")>>)

\* regex and denylist.
LocalTexts == {<<>>, <<"a", "b", " ", "1", "2">>, <<"A", "b", "a", "b", "c">>,
               <<"1", "8", "-", "a", " ", "b">>, <<"1", ".", "2", ".", "3", ".", "4", "/", "3", "2">>,
               <<"A", "B", "4", "5", "1", "0", "0">>}
Patterns == <<Pattern("IPV4_ADDRESS", <<>>, <<"1", ".", "2", ".", "3", ".", "4">>, "none"),
              Pattern("IPV4_CIDR", <<>>, <<"1", ".", "2", ".", "3", ".", "4", "/", "3", "2">>, "none"),
              Pattern("CREDIT_CARD", <<>>, <<"1", "8">>, "none"),
              Pattern("CREDIT_CARD", <<"a", "b">>, <<" ", "1", "2">>, "positional"),
              Pattern("PHONE", <<"b">>, <<" ", "1", "2">>, "entity"),
              Pattern("IBAN", <<>>, <<"A", "B", "4", "5", "1">>, "positional"),
              Pattern("USERNAME", <<>>, <<"a", "b">>, "none"),
              Pattern("HOST", <<>>, <<"b", " ", "1">>, "positional"),
              Pattern("PATH", <<"b">>, <<"c">>, "absent"),
              Pattern("OTHER", <<"8">>, <<" ">>, "none")>>
Lists == {<<>>,
          <<Listed(<<"a">>, "PERSON", TRUE, TRUE), Listed(<<"a", "b">>, "ORGANIZATION", FALSE, TRUE),
            Listed(<<"a", "b">>, "ORGANIZATION", FALSE, FALSE), Listed(<<"b", "a">>, "PERSON", TRUE, FALSE)>>,
          <<Listed(<<"b", "c">>, "X", TRUE, FALSE), Listed(<<"a", "b">>, "PERSON", FALSE, FALSE),
            Listed(<<"b">>, "TOKEN", FALSE, FALSE), Listed(<<"-", "a">>, "TOKEN", TRUE, TRUE)>>}
LocalRaws ==
        {NoFields,
         [regex_overlap_strategy |-> Str(<<Part("priority", "upper")>>), use_faker |-> One("yes")],
         [regex_overlap_strategy |-> Str(<<Part("priority", "padded")>>), denylist |-> One("short")],
         [regex_overlap_strategy |-> One("shortest"), regex_patterns |-> One("nosuch"),
          denylist |-> One("default")],
         [regex_patterns |-> Str(<<Part("short", "padded")>>), gliner_threshold |-> Bool(TRUE)],
         [detector_mode |-> List(<<One("regex"), One("regex"), One("llm")>>), unheard_of |-> Num(1)],
         [detector_mode |-> One("llm"), gliner_threshold |-> Num(101), faker_locale |-> Str(<<>>)],
         [detector_mode |-> Num(3), regex_overlap_strategy |-> None,
          faker_locale |-> Str([i \in 1..4 |-> Part("de", "plain")])]}
LocalWorlds ==
    {[Base EXCEPT !.texts = <<t>>, !.configured = <<"regex", "denylist">>, !.patterns = Patterns,
                  !.pattern_sets = [short |-> SubSeq(Patterns, 7, 7)],
                  !.denylists = [short |-> <<Listed(<<"b">>, "PERSON", TRUE, FALSE)>>],
                  !.denylist = q, !.backend = b, !.strategy = s, !.raw = raw] :
        t \in LocalTexts, q \in Lists, b \in {"regex", "aho"}, s \in Strategies, raw \in LocalRaws}

\* privacy_filter: up to three spans of a label over a text with a break.
Paragraphs == {<<"a", "\n", "\n", "b", " ", "c">>, <<"a", ",", " ", "b", "\n", "\n">>}
MCSpans == {Obj([label |-> Str(l), start |-> Num(s), end |-> Num(s + n), text |-> Str(<<"b">>)]) :
              l \in {"private_person", "private_address"}, s \in 0..5, n \in 1..4}
OddSpans == {Obj([label |-> Str("novel"), text |-> Str(<<" ", "b">>)]), Num(1), Obj([start |-> Num(0)]),
             Obj([label |-> Str("secret"), start |-> Num(0), end |-> Num(9), text |-> None])}
PFBodies == {NotJson, List(<<>>), Obj(NoFields), Obj([spans |-> None])}
            \cup {Obj([spans |-> List(<<x, y>>)]) : x, y \in MCSpans}
            \cup {Obj([spans |-> List(<<x, y>>)]) : x \in OddSpans, y \in OddSpans}
PFWorlds ==
    {[Base EXCEPT !.texts = <<t>>, !.configured = <<"privacy_filter">>, !.closed = c] :
        t \in Paragraphs, c \in {{}, {"privacy_filter"}}}

\* llm and gliner_pii, on two texts, apart or merged.
Entry(v, l) == Obj([text |-> v, type |-> Str(l), entity_type |-> Str(l)])
Entries == {<<>>, <<Entry(Str(<<"a">>), "PERSON")>>,
            <<Entry(Str(<<" ", "b", ".">>), "person"), Num(7), Entry(Str(<<"c">>), "hostname")>>,
            <<Entry(None, "SECRET"), Entry(Str(<<"a", SEP, "b">>), "PERSON"), Obj(NoFields)>>}
Content(x) == Obj([choices |-> List(<<Obj([message |-> Obj([content |-> x])])>>)])
LlmBodies == {NotJson, List(<<>>), Obj([choices |-> List(<<>>)]), Content(None), Content(Num(5)),
              Content(Str(NotJson)), Content(Str(List(<<>>))), Content(Str(Obj([entities |-> None]))),
              Content(Str(List(<<Entry(None, "X"), Entry(None, "X")>>))),
              Content(Str(List(<<Entry(Str(<<"a">>), "PERSON")>>))),
              Content(Str(Obj(NoFields)))}
             \cup {Content(Str(Obj([entities |-> List(q)]))) : q \in Entries}
GlinerBodies == {NotJson, None, Obj(NoFields), Obj([matches |-> Num(0)])}
                \cup {Obj([matches |-> List(q)]) : q \in Entries}
RemoteWorlds ==
    {[Base EXCEPT !.texts = ts, !.configured = <<"gliner_pii", "llm">>, !.merged = m, !.closed = c,
                  !.max_chars = n] :
        ts \in {<<<<"a">>, <<"b", ".">>>>, <<<<"None", "a">>>>, <<<<" ">>>>}, m \in {{}, {"llm"}},
        c \in SUBSET {"llm", "gliner_pii"}, n \in {1, 8}}

\* Overrides of what the services are asked.
RemoteRaws == {[llm_model |-> One("fake"), llm_prompt |-> One("legal")],
               [llm_model |-> Str(<<Part("gpt", "padded")>>), llm_prompt |-> Str(<<>>)],
               [llm_prompt |-> One("nosuch"), gliner_threshold |-> Num(0)],
               [gliner_threshold |-> Bool(TRUE)], [gliner_threshold |-> Huge],
               [gliner_labels |-> List(<<One("person"), One("iban")>>), gliner_threshold |-> Num(50)],
               [gliner_labels |-> Str(<<Part("iban", "plain"), Part("person", "padded")>>)]}
KeyWorlds ==
    {[Base EXCEPT !.texts = <<<<"a">>>>, !.configured = <<"gliner_pii", "llm">>, !.raw = raw,
                  !.threshold = n, !.use_forwarded_key = TRUE, !.authorization = h, !.api_key = "own",
                  !.closed = {"gliner_pii", "llm"}] :
        raw \in RemoteRaws, n \in {{}, {50}}, h \in {"redacted", "bearer"}}

\* Bodies by header, by chunk, and cut off.
Bodies == {<<Message("http.request", 4, FALSE)>>,
           <<Message("http.request", 2, TRUE), Message("http.request", 2, FALSE)>>,
           <<Message("http.request", 2, TRUE), Message("http.request", 3, FALSE)>>,
           <<Message("http.request", 2, TRUE), Message("http.disconnect", 0, FALSE)>>}
BodyWorlds == {[Base EXCEPT !.configured = <<"regex">>, !.declared = n, !.messages = q] :
                 n \in {NoLength, 4, 5}, q \in Bodies}

MCRaws == LocalRaws \cup RemoteRaws
MCWorlds == LocalWorlds \cup PFWorlds \cup RemoteWorlds \cup KeyWorlds \cup BodyWorlds
Trouble == {Reply(k, None) : k \in {"refused", "timeout", "broken", "status"}}
AsReplies(bodies) == Trouble \cup {Reply(IF x = NotJson THEN "garbage" ELSE "json", x) : x \in bodies}
MCReplies == [d \in {"llm", "gliner_pii", "privacy_filter"} |->
                AsReplies(CASE d = "llm" -> LlmBodies [] d = "gliner_pii" -> GlinerBodies
                            [] OTHER -> PFBodies)]
\* A model that calls punctuation a person.
Dots == Content(Str(Obj([entities |-> List(<<Entry(Str(<<".">>), "PERSON")>>)])))
MCDotWorlds == {[Base EXCEPT !.texts = <<<<"a", ".">>, <<"b">>>>, !.configured = <<"llm">>,
                             !.merged = {"llm"}, !.max_chars = n] : n \in {2, 8}}
MCDotReplies == [d \in {"llm"} |-> AsReplies({Dots})]
=============================================================================
