---------------------------- MODULE MCStreaming ----------------------------
(* Streaming for TLC: replies of up to two completions that hold whole      *)
(* surrogates, stray brackets, look-alikes and one surrogate inside another.*)
EXTENDS Streaming

Opaque1 == <<"[", "PERSON_4F", "]">>
Opaque2 == <<"[", "EMAIL_7A", "]">>
Name == <<"John", "Smith">>
FirstName == <<"John">>

OpaqueEntry == [k \in {Opaque1, Opaque2} |-> IF k = Opaque1 THEN <<"Ann">> ELSE <<"a@b">>]
FakerEntry == [k \in {Name, FirstName} |-> IF k = Name THEN <<"Ann", "Lee">> ELSE <<"Bob">>]

Deploy(f, b, s, e) == [use_faker |-> f, buffer |-> b, substitute |-> s, entry |-> e]
MCCharset == {"PERSON_4F", "EMAIL_7A", "NOTE"}

MCReply == {<<>>, <<"w">>, <<"[", "NOTE">>, <<"[", "NOTE", "w">>, <<"[", "[">>,
            Opaque1, <<"w">> \o Opaque1 \o <<"w">>, Opaque1 \o Opaque2, <<"[">> \o Opaque2,
            <<"[", "PERSON_4F", "w", "]">>,
            Name, <<"w">> \o Name, FirstName, <<"John", "John", "Smith">>}
\* Opaque mode; buffered Faker mode; opaque overrides under it; redaction only.
MCDeployments == {Deploy(FALSE, FALSE, TRUE, OpaqueEntry), Deploy(TRUE, TRUE, TRUE, FakerEntry),
                  Deploy(TRUE, TRUE, TRUE, OpaqueEntry), Deploy(FALSE, FALSE, FALSE, OpaqueEntry)}
=============================================================================
