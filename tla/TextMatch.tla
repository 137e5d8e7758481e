----------------------------- MODULE TextMatch -----------------------------
(***************************************************************************)
(* Texts and the matches detectors report (detector/base.py).  A text is a *)
(* sequence of characters; a character is a string, of several letters     *)
(* where it stands for one that has no ASCII spelling ("I_dot": U+0130) or *)
(* for a whole word ("None", which is what str(None) gives).  Offsets are  *)
(* Python's: a span <<s, e>> holds the characters s + 1 .. e.              *)
(***************************************************************************)
EXTENDS PyLists, SequencesExt

Blank == {" ", "\t", "\n", "\r"}
Digit == {"0", "1", "2", "3", "4", "5", "6", "7", "8", "9"}
\* lower() is not length preserving: U+0130 becomes two characters.
Cased == [A |-> <<"a">>, B |-> <<"b">>, C |-> <<"c">>, I_dot |-> <<"i", "dot">>]
Word == DOMAIN Cased \cup {"a", "b", "c", "i", "_", "None"} \cup Digit
LowerOf(c) == IF c \in DOMAIN Cased THEN Cased[c] ELSE <<c>>
Lower(t) == FlattenSeq([i \in DOMAIN t |-> LowerOf(t[i])])
\* re.IGNORECASE compares one character with one: U+0130 is an i to it.
Fold(c) == Head(LowerOf(c))

\* t[s:e], for 0 <= s; the end is clamped as Python does.
Slice(t, s, e) == SubSeq(t, s + 1, IF e < Len(t) THEN e ELSE Len(t))
Places(v, t) == {s \in 0..(Len(t) - Len(v)) : Slice(t, s, s + Len(v)) = v}
Occurs(v, t) == Places(v, t) # {}
Strip(v) == LET kept == {i \in DOMAIN v : v[i] \notin Blank}
            IN IF kept = {} THEN <<>> ELSE SubSeq(v, Min(kept), Max(kept))
RStrip(v, cut) == LET kept == {i \in DOMAIN v : v[i] \notin cut}
                  IN IF kept = {} THEN <<>> ELSE SubSeq(v, 1, Max(kept))

ENTITY_TYPES ==
    {"PERSON", "ORGANIZATION", "EMAIL_ADDRESS", "IPV4_ADDRESS", "IPV6_ADDRESS",
     "IPV4_CIDR", "IPV6_CIDR", "HOSTNAME", "DOMAIN", "USERNAME", "CREDENTIAL",
     "TOKEN", "HASH", "UUID", "AWS_ACCESS_KEY", "JWT", "PHONE", "MAC_ADDRESS",
     "URL", "PATH", "IDENTIFIER", "ADDRESS", "CREDIT_CARD", "DATE_OF_BIRTH",
     "IBAN", "NATIONAL_ID", "OTHER"}
DoNotTrim == {"CREDENTIAL", "TOKEN", "PATH", "IDENTIFIER", "OTHER"}
Punctuation == {".", ",", ";", "!", "?"}

\* Match.__post_init__: an unknown type becomes OTHER, and where punctuation
\* cannot be part of the value it is cut from the end.
Match(v, type) ==
    LET known == IF type \in ENTITY_TYPES THEN type ELSE "OTHER"
    IN [text |-> IF known \in DoNotTrim THEN v ELSE RStrip(v, Punctuation),
        type |-> known]
-----------------------------------------------------------------------------
(* Candidates of the local detectors and how overlaps are resolved.          *)
Candidate(s, e, v, type) == [start |-> s, end |-> e, value |-> v, type |-> type]
Width(c) == c.end - c.start

\* Slip: spans that touch count as overlapping only if they share two characters.
OverlapsLoosely(a, b) == a.start + 1 < b.end /\ b.start + 1 < a.end

Overlaps(a, b) == a.start < b.end /\ b.start < a.end

\* sort(key=(-width, start)): stable, so the index decides the rest.
Before(q, i, j) ==
    \/ Width(q[i]) > Width(q[j])
    \/ Width(q[i]) = Width(q[j]) /\ q[i].start < q[j].start
    \/ Width(q[i]) = Width(q[j]) /\ q[i].start = q[j].start /\ i < j
LongestFirst(q) ==
    LET order == Sorted(DOMAIN q, LAMBDA i, j : Before(q, i, j))
    IN [k \in DOMAIN q |-> q[order[k]]]
=============================================================================
