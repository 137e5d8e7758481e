---------------------------- MODULE MCRoundTrip ----------------------------
(* RoundTrip for TLC: two calls with entries that differ in their surrogate, *)
(* one task that pops, every way a stored payload can fail to decode.        *)
EXTENDS RoundTrip, TLC

Surrogate(o) == [original |-> o, entity_type |-> "PERSON", source_detectors |-> <<"regex", "llm">>]
Kwargs == <<[name |-> "gliner_pii",
             pairs |-> <<[key |-> "labels", value |-> Tuple(<<Str("person"), Str("city")>>)],
                         [key |-> "threshold", value |-> None]>>]>>
EntryOf(s, o) == [surrogates |-> (s :> Surrogate(o)), detector_mode |-> <<"regex", "llm">>,
                  kwargs |-> Kwargs]
MCMade == [c \in CallId |-> IF c = "c1" THEN {EntryOf("P1", "Ann")} ELSE {EntryOf("P2", "Bob")}]
MCEntry == {EntryOf("P1", "Ann"), EntryOf("P2", "Bob")}

Scope(t, p, n, m, u) == [ttl |-> t, tasks |-> p, sends |-> n, late |-> m, until |-> u]
\* One call beside a task that pops, over the worst connection; two calls; the
\* TTL that Redis rejects.
MCScopes == {Scope(1, {"c1", "u"}, 2, 1, 2), Scope(1, {"c1", "c2"}, 1, 1, 1), Scope(0, {"c1"}, 2, 0, 1)}

Good == EncodeEntry(EntryOf("P1", "Ann"))
With(k, x) == Obj([Val(Good) EXCEPT ![k] = x])
WithSurrogate(x) == With("surrogates", Obj("P1" :> x))
MCJunk == {WithSurrogate(List(<<Str("Ann"), Str("PERSON")>>))}
AllJunk ==
    {List(<<>>), Obj("kwargs" :> List(<<>>)), With("surrogates", List(<<>>)),
     WithSurrogate(List(<<Str("Ann"), Str("PERSON")>>)),
     WithSurrogate(List(<<None, Str("PERSON"), List(<<>>)>>)),
     WithSurrogate(List(<<Str("Ann"), Str("PERSON"), List(<<None>>)>>)),
     With("detector_mode", Str("regex")), With("kwargs", Str("llm")),
     With("kwargs", List(<<List(<<Str("llm")>>)>>)),
     With("kwargs", List(<<List(<<None, List(<<>>)>>)>>)),
     With("kwargs", List(<<List(<<Str("llm"), None>>)>>)),
     With("kwargs", List(<<List(<<Str("llm"), List(<<List(<<Str("model")>>)>>)>>)>>)),
     With("kwargs", List(<<List(<<Str("llm"), List(<<List(<<None, None>>)>>)>>)>>))}
ASSUME \A j \in AllJunk : ~IsEntry(j)
=============================================================================
