-------------------------- MODULE RemoteDetectors --------------------------
(***************************************************************************)
(* The three detectors that ask a service (detector/llm.py,                *)
(* remote_gliner_pii.py, remote_privacy_filter.py): what they send and     *)
(* what they make of every reply.  A reply is a kind and, for a 200 with a *)
(* JSON body, that body, in the tagged values of VaultWire; strings that   *)
(* hold text are sequences of characters.                                  *)
(***************************************************************************)
EXTENDS PrivacyFilter, VaultWire

Reply(kind, body) == [kind |-> kind, body |-> body]

\* How a call ends: with matches, with the detector's typed error, or with an
\* exception nobody wrote.
FoundAll(q) == [how |-> "found", matches |-> q]
Unavailable == [how |-> "unavailable", matches |-> <<>>]
Crash == [how |-> "crash", matches |-> <<>>]

\* str(): what is not a string turns into one.
StrOf(x) == CASE Tag(x) = "str" -> Val(x)
              [] Tag(x) = "null" -> <<"None">>
              [] OTHER -> <<"repr">>
NameOf(x) == IF Tag(x) = "str" THEN Val(x) ELSE "repr"
Objects(q) == Where(q, LAMBDA x : Tag(x) = "obj")
\* A field that is absent counts as empty, of another type as unusable.
Field(x, k) == Get(x, k, List(<<>>))
IsList(x) == Tag(x) = "list"

\* Entries with a text that occurs in the source become matches.
EntryText(x) == Strip(StrOf(Get(x, "text", Str(<<>>))))
Reported(entries, t) ==
    Where(Objects(entries), LAMBDA x : EntryText(x) # <<>> /\ Occurs(EntryText(x), t))
-----------------------------------------------------------------------------
(* llm.                                                                      *)
\* _extract_json_object: from the first brace to the last; the content is the
\* JSON value its text holds, or NotJson.
ExtractObject(x) ==
    IF ~IsList(x) \/ Objects(Val(x)) = <<>> THEN x
    ELSE IF Len(Objects(Val(x))) = 1 THEN Objects(Val(x))[1] ELSE NotJson

LlmType(x) == NameOf(Get(x, "type", Str("OTHER")))

\* _parse_entities.
ParseEntities(content, t) ==
    LET data == ExtractObject(content)
    IN IF Tag(data) # "obj" \/ ~IsList(Field(data, "entities")) THEN Unavailable
       ELSE LET q == Reported(Val(Field(data, "entities")), t)
            IN FoundAll([i \in DOMAIN q |-> Match(EntryText(q[i]), LlmType(q[i]))])

\* body["choices"][0]["message"]["content"] or "": a string holds what its
\* text parses to, an empty one and null parse to nothing.
HasKey(x, k) == Tag(x) = "obj" /\ k \in DOMAIN Val(x)
HasContent(body) ==
    /\ HasKey(body, "choices")
    /\ IsList(Item(body, "choices")) /\ Val(Item(body, "choices")) # <<>>
    /\ LET choice == Item(Item(body, "choices"), 1)
       IN HasKey(choice, "message") /\ HasKey(Item(choice, "message"), "content")
ContentOf(body) == Item(Item(Item(Item(body, "choices"), 1), "message"), "content")
ReadLlm(body, t) ==
    IF ~HasContent(body) THEN Unavailable
    ELSE CASE Tag(ContentOf(body)) = "null" -> Unavailable
           [] Tag(ContentOf(body)) = "str" -> ParseEntities(Val(ContentOf(body)), t)
           [] OTHER -> Crash
-----------------------------------------------------------------------------
(* gliner_pii.  A label stands for all its spellings in upper and lower case.*)
LABEL_TO_ENTITY_TYPE ==
    [person |-> "PERSON", organization |-> "ORGANIZATION", email |-> "EMAIL_ADDRESS",
     email_address |-> "EMAIL_ADDRESS", phone |-> "PHONE", phone_number |-> "PHONE",
     address |-> "ADDRESS", date_of_birth |-> "DATE_OF_BIRTH", credit_card |-> "CREDIT_CARD",
     credit_card_number |-> "CREDIT_CARD", iban |-> "IBAN", ssn |-> "NATIONAL_ID",
     national_id |-> "NATIONAL_ID", account_number |-> "IDENTIFIER",
     passport_number |-> "IDENTIFIER", medical_record_number |-> "IDENTIFIER",
     ip_address |-> "IPV4_ADDRESS", url |-> "URL", username |-> "USERNAME"]
UpperName == [hostname |-> "HOSTNAME", token |-> "TOKEN", other |-> "OTHER"]
GlinerType(x) ==
    LET label == NameOf(Get(x, "entity_type", Str("other")))
    IN CASE label \in DOMAIN LABEL_TO_ENTITY_TYPE -> LABEL_TO_ENTITY_TYPE[label]
         [] label \in DOMAIN UpperName -> UpperName[label]
         [] OTHER -> "UNKNOWN"

\* _parse_matches.
ReadGliner(body, t) ==
    IF Tag(body) # "obj" \/ ~IsList(Field(body, "matches")) THEN Unavailable
    ELSE LET q == Reported(Val(Field(body, "matches")), t)
         IN FoundAll([i \in DOMAIN q |-> Match(EntryText(q[i]), GlinerType(q[i]))])
-----------------------------------------------------------------------------
(* privacy_filter.                                                           *)
OffsetOf(x, k) == IF HasKey(x, k) /\ Tag(Item(x, k)) = "num" THEN Val(Item(x, k)) ELSE NoOffset
RawSpan(x) == Span(NameOf(Get(x, "label", Str(""))), OffsetOf(x, "start"), OffsetOf(x, "end"),
                   StrOf(Get(x, "text", Str(<<>>))))
RawSpans(body) == LET q == Objects(Val(Field(body, "spans")))
                  IN [i \in DOMAIN q |-> RawSpan(q[i])]
ReadPrivacyFilter(body, t) ==
    IF Tag(body) # "obj" \/ ~IsList(Field(body, "spans")) THEN Unavailable
    ELSE FoundAll(ToMatches(RawSpans(body), t))
-----------------------------------------------------------------------------
\* Slip: only a refused connection is an outage.
OutcomeKeepsGoing(d, reply, t) ==
    IF reply.kind # "json" THEN IF reply.kind = "refused" THEN Unavailable ELSE FoundAll(<<>>)
    ELSE CASE d = "llm" -> ReadLlm(reply.body, t)
           [] d = "gliner_pii" -> ReadGliner(reply.body, t)
           [] OTHER -> ReadPrivacyFilter(reply.body, t)

\* _do_detect, once the reply is there: refused, timed out, broken off, another
\* status, or no JSON is the typed error.
Outcome(d, reply, t) ==
    IF reply.kind # "json" THEN Unavailable
    ELSE CASE d = "llm" -> ReadLlm(reply.body, t)
           [] d = "gliner_pii" -> ReadGliner(reply.body, t)
           [] OTHER -> ReadPrivacyFilter(reply.body, t)
=============================================================================
