------------------------------ MODULE Streaming ------------------------------
(***************************************************************************)
(* The response branch of the guardrail endpoint (main.py: guardrail) and  *)
(* Pipeline.deanonymize under LiteLLM's streaming action protocol: while   *)
(* the model's reply grows, LiteLLM sends what it has so far with is_final *)
(* false, then the whole reply with is_final true (or, when the reply is   *)
(* not streamed, the whole reply once without the field).  An answer other *)
(* than WAIT is shown to the client, who can only be shown more, never     *)
(* something else.  The vault may forget the entry between two calls.      *)
(*                                                                         *)
(* A text is a sequence of symbols: brackets, pieces a chunk never cuts    *)
(* visibly (a run of [A-Z0-9_], a word, half a name).                      *)
(***************************************************************************)
EXTENDS Naturals, Sequences, SequencesExt

CONSTANTS Choice,      \* indices of req.texts: the completions of one reply
          Charset,     \* symbols made of [A-Z0-9_] alone
          Reply,       \* replies the model may give
          Deployments  \* [use_faker, buffer, substitute, entry]: the config
                       \* and the call's surrogate -> original map

ASSUME StreamingAssumption ==
    /\ Choice # {}
    /\ \A d \in Deployments : /\ {d.use_faker, d.buffer, d.substitute} \subseteq BOOLEAN
                              /\ \A k \in DOMAIN d.entry : k # <<>>

VARIABLES deployment,
          script,     \* per choice: the whole reply of the model
          vault,      \* "stored" or "forgotten": the call's entry
          arrived,    \* per choice: how much of the reply LiteLLM has
          delivered,  \* per choice: what the client has been shown
          action,     \* the last answer's action
          phase,      \* "open", "closed" (the last answer is out), "blocked"
          warmed      \* texts the prewarm cached under

vars == <<deployment, script, vault, arrived, delivered, action, phase, warmed>>

Actions == {"NONE", "GUARDRAIL_INTERVENED", "WAIT", "BLOCKED"}

Init == /\ deployment \in Deployments
        /\ script \in [Choice -> Reply]
        /\ vault \in {"stored", "forgotten"}
        /\ arrived = [c \in Choice |-> 0]
        /\ delivered = [c \in Choice |-> <<>>]
        /\ action = "WAIT"
        /\ phase = "open"
        /\ warmed = {}

\* _build_replacer: one pass from the left, the longest surrogate that matches.
KeysAt(text, i, entry) ==
    {k \in DOMAIN entry : IsPrefix(k, SubSeq(text, i, Len(text)))}
\* Slip: re.sub with count=1.
ReplaceOnce(text, entry) ==
    LET hits == {i \in 1..Len(text) : KeysAt(text, i, entry) # {}}
        i == CHOOSE i \in hits : \A j \in hits : i <= j
        k == CHOOSE k \in KeysAt(text, i, entry) :
                 \A j \in KeysAt(text, i, entry) : Len(j) <= Len(k)
    IN IF hits = {} THEN text
       ELSE SubSeq(text, 1, i - 1) \o entry[k] \o SubSeq(text, i + Len(k), Len(text))
Replace(text, entry) ==
    LET from[i \in 1..(Len(text) + 1)] ==
            IF i > Len(text) THEN <<>>
            ELSE IF KeysAt(text, i, entry) = {} THEN <<text[i]>> \o from[i + 1]
            ELSE LET k == CHOOSE k \in KeysAt(text, i, entry) :
                              \A j \in KeysAt(text, i, entry) : Len(j) <= Len(k)
                 IN entry[k] \o from[i + Len(k)]
    IN from[1]

\* _PARTIAL_SURROGATE_SUFFIX: "[" and nothing but charset up to the end.
HasPartialSuffix(text) ==
    \E i \in 1..Len(text) : /\ text[i] = "["
                            /\ \A j \in (i + 1)..Len(text) : text[j] \in Charset

\* deanonymize: an unknown call, or substitution switched off, changes nothing.
Outbound(texts) ==
    [c \in Choice |-> IF vault = "stored" /\ deployment.substitute
                      THEN Replace(texts[c], deployment.entry) ELSE texts[c]]

\* Slip: chunks sampled inside a bracket are answered.
DefersBufferOnly(texts) == deployment.use_faker /\ deployment.buffer

\* The handler waits: always in buffered Faker mode, else on a torn bracket.
Defers(texts) == \/ deployment.use_faker /\ deployment.buffer
                 \/ \E c \in Choice : HasPartialSuffix(texts[c])

\* Slip: only the texts that changed are returned.
RestoreChanged(texts) ==
    /\ delivered' = [c \in {c \in Choice : Outbound(texts)[c] # texts[c]} |-> Outbound(texts)[c]]
    /\ action' = IF Outbound(texts) = texts THEN "NONE" ELSE "GUARDRAIL_INTERVENED"

Restore(texts) ==
    /\ delivered' = Outbound(texts)
    /\ action' = IF Outbound(texts) = texts THEN "NONE" ELSE "GUARDRAIL_INTERVENED"

\* Slip: a sample prewarms as well.
SampleWarms(upto) ==
    LET texts == [c \in Choice |-> SubSeq(script[c], 1, upto[c])]
    IN /\ phase = "open"
       /\ ~Defers(texts)
       /\ arrived' = upto
       /\ Restore(texts)
       /\ warmed' = warmed \cup {Outbound(texts)[c] : c \in Choice}
       /\ UNCHANGED <<deployment, script, vault, phase>>

\* A sample of the growing reply, is_final false: never prewarms.
Sample(upto) ==
    LET texts == [c \in Choice |-> SubSeq(script[c], 1, upto[c])]
    IN /\ phase = "open"
       /\ arrived' = upto
       /\ IF Defers(texts)
          THEN action' = "WAIT" /\ UNCHANGED delivered
          ELSE Restore(texts)
       /\ UNCHANGED <<deployment, script, vault, phase, warmed>>

\* Slip: the deferral does not look at is_final.
FinalDefers ==
    /\ phase = "open"
    /\ arrived' = [c \in Choice |-> Len(script[c])]
    /\ IF Defers(script) THEN action' = "WAIT" /\ UNCHANGED delivered ELSE Restore(script)
    /\ phase' = "closed"
    /\ UNCHANGED <<deployment, script, vault, warmed>>

\* The whole reply, is_final true or absent: restored whatever it ends in, and
\* what the client gets is prewarmed when the vault still has the entry.
Final ==
    /\ phase = "open"
    /\ arrived' = [c \in Choice |-> Len(script[c])]
    /\ Restore(script)
    /\ warmed' = IF vault = "stored" THEN {Outbound(script)[c] : c \in Choice} ELSE {}
    /\ phase' = "closed"
    /\ UNCHANGED <<deployment, script, vault>>

\* The vault's backend is unreachable: RedisVaultError becomes BLOCKED and
\* LiteLLM ends the reply.
PeekFails ==
    /\ phase = "open"
    /\ action' = "BLOCKED"
    /\ phase' = "blocked"
    /\ UNCHANGED <<deployment, script, vault, arrived, delivered, warmed>>

\* TTL, LRU cap or restart, seen from the response side.
Forget == /\ phase = "open"
          /\ vault = "stored"
          /\ vault' = "forgotten"
          /\ UNCHANGED <<deployment, script, arrived, delivered, action, phase, warmed>>

\* No chunk takes back what an earlier one brought.
Growth == {upto \in [Choice -> 0..Max({Len(r) : r \in Reply})] :
              \A c \in Choice : arrived[c] <= upto[c] /\ upto[c] <= Len(script[c])}

Next == \/ \E upto \in Growth : Sample(upto)
        \/ Final
        \/ PeekFails
        \/ Forget

Spec == Init /\ [][Next]_vars
-----------------------------------------------------------------------------
TypeOK == /\ deployment \in Deployments
          /\ script \in [Choice -> Reply]
          /\ vault \in {"stored", "forgotten"}
          /\ \A c \in Choice : arrived[c] \in 0..Len(script[c])
          /\ DOMAIN delivered = Choice
          /\ action \in Actions
          /\ phase \in {"open", "closed", "blocked"}

\* LiteLLM's cursor: while the call's entry lives, each answer extends what the
\* client was already shown, wherever the chunks cut the reply.
Extends ==
    vault = "stored" => \A c \in Choice : IsPrefix(delivered[c], delivered'[c])
CursorMonotonic == [][Extends]_vars

\* Once the reply is complete the client has exactly what restoring the whole
\* reply at once gives: streaming changes nothing.
StreamedEqualsWhole ==
    phase = "closed" /\ vault = "stored" =>
        delivered = [c \in Choice |-> IF deployment.substitute
                                      THEN Replace(script[c], deployment.entry)
                                      ELSE script[c]]

\* At no moment does the client see a whole surrogate of the call.
Occurs(k, text) == \E i \in 1..Len(text) : IsPrefix(k, SubSeq(text, i, Len(text)))
SurrogateShown ==
    \E c \in Choice, k \in DOMAIN deployment.entry : Occurs(k, delivered[c])
NoSurrogateShown ==
    deployment.substitute /\ vault = "stored" => ~SurrogateShown

\* Only a text the client ends up with is cached for its next turn.
WarmedIsFinal ==
    \A t \in warmed : phase = "closed" /\ \E c \in Choice : delivered[c] = t
=============================================================================
