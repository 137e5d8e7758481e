--------------------------- MODULE RegexDetector ---------------------------
(***************************************************************************)
(* The candidates of the regex detector (detector/regex.py).  A pattern is *)
(* a label and a value, both literal, the value in a group or not; what an *)
(* expression may match beyond a literal does not matter to what becomes   *)
(* of a match.  IPv6 values, which the ipaddress library validates, are    *)
(* left out.                                                               *)
(***************************************************************************)
EXTENDS TextMatch, TLC

\* group: "entity", a group of that name that took part; "absent", one that did
\* not; "positional", another group; "none", no group at all.
Pattern(type, label, value, group) ==
    [type |-> type, label |-> label, value |-> value, group |-> group]

\* finditer: leftmost, then from the end of the match on.
Finds(whole, t) ==
    LET from[s \in 0..(Len(t) + 1)] ==
            IF s > Len(t) THEN <<>>
            ELSE IF s \in Places(whole, t) THEN <<s>> \o from[s + Len(whole)]
            ELSE from[s + 1]
    IN from[0]
-----------------------------------------------------------------------------
(* Validators.                                                               *)
NumberOf == [c \in Digit |-> CHOOSE n \in 0..9 : ToString(n) = c]
IsDigits(v) == v # <<>> /\ \A i \in DOMAIN v : v[i] \in Digit
IntOf(v) == FoldLeft(LAMBDA n, c : 10 * n + NumberOf[c], 0, v)

Luhn(v) ==
    LET d == Where(v, LAMBDA c : c \in Digit)
        Doubled(i) == (i - 1) % 2 = Len(d) % 2
        Term(i) == LET n == NumberOf[d[i]]
                   IN IF ~Doubled(i) THEN n ELSE IF 2 * n > 9 THEN 2 * n - 9 ELSE 2 * n
    IN Len(d) >= 2 /\ FoldLeftDomain(LAMBDA sum, i : sum + Term(i), 0, d) % 10 = 0

LetterOf == [A |-> 10, B |-> 11, C |-> 12, a |-> 10, b |-> 11, c |-> 12]
IbanMod97(v) ==
    LET iban == Where(v, LAMBDA c : c # " ")
        turned == SubSeq(iban, 5, Len(iban)) \o SubSeq(iban, 1, 4)
        Step(n, c) == (IF c \in Digit THEN 10 * n + NumberOf[c]
                                      ELSE 100 * n + LetterOf[c]) % 97
    IN /\ Len(iban) >= 5
       /\ \A i \in DOMAIN iban : iban[i] \in Digit \cup DOMAIN LetterOf
       /\ FoldLeft(Step, 0, turned) = 1

Split(v, c) == LET cuts == Sorted({0, Len(v) + 1} \cup {i \in DOMAIN v : v[i] = c}, LAMBDA i, j : i < j)
               IN [k \in 1..(Len(cuts) - 1) |-> SubSeq(v, cuts[k] + 1, cuts[k + 1] - 1)]
Ipv4Address(v) ==
    LET parts == Split(v, ".")
    IN /\ Len(parts) = 4
       /\ \A i \in 1..4 : IsDigits(parts[i]) /\ Len(parts[i]) <= 3 /\ IntOf(parts[i]) <= 255
\* rpartition: the prefix is what follows the last slash.
Ipv4Network(v) ==
    LET slash == SelectLastInSeq(v, LAMBDA c : c = "/")
        prefix == SubSeq(v, slash + 1, Len(v))
    IN slash > 0 /\ Ipv4Address(SubSeq(v, 1, slash - 1)) /\ IsDigits(prefix) /\ IntOf(prefix) <= 32

Valid(type, v) ==
    CASE type = "CREDIT_CARD" -> Luhn(v)
      [] type = "IBAN" -> IbanMod97(v)
      [] type = "IPV4_ADDRESS" -> Ipv4Address(v)
      [] type = "IPV4_CIDR" -> Ipv4Network(v)
      [] OTHER -> TRUE
-----------------------------------------------------------------------------
\* The span of a match at s that is the entity; value None when the group did
\* not take part.
Found(p, s) ==
    LET inner == s + Len(p.label)
    IN CASE p.group \in {"entity", "positional"} ->
              Candidate(inner, inner + Len(p.value), p.value, p.type)
         [] p.group = "absent" -> Candidate(-1, -1, <<>>, p.type)
         [] OTHER -> Candidate(s, inner + Len(p.value), p.label \o p.value, p.type)

\* Pass 1: every pattern in order, every match in it; the value loses its outer
\* blanks, the span does not.
RegexCandidates(patterns, t) ==
    LET Of(p) == LET at == Finds(p.label \o p.value, t)
                     all == [k \in DOMAIN at |-> [Found(p, at[k]) EXCEPT !.value = Strip(@)]]
                 IN Where(all, LAMBDA c : c.value # <<>> /\ Valid(c.type, c.value))
    IN FlattenSeq([i \in DOMAIN patterns |-> Of(patterns[i])])

Strategies == {"longest", "priority"}
RegexOrder(strategy, q) == IF strategy = "longest" THEN LongestFirst(q) ELSE q
=============================================================================
