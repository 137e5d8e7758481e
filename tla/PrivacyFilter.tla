--------------------------- MODULE PrivacyFilter ---------------------------
(***************************************************************************)
(* What the privacy_filter detector makes of the spans its service returns *)
(* (detector/remote_privacy_filter.py): extract, merge, split, emit.  A    *)
(* span has a label, offsets that are integers or NoOffset, and a text.    *)
(***************************************************************************)
EXTENDS TextMatch

NoOffset == -1
Span(label, s, e, v) == [label |-> label, start |-> s, end |-> e, text |-> v]
Typed(s, e, type) == [start |-> s, end |-> e, type |-> type]

LABEL_MAP == [private_person |-> "PERSON", private_email |-> "EMAIL_ADDRESS",
              private_phone |-> "PHONE", private_url |-> "URL", private_address |-> "ADDRESS",
              private_date |-> "DATE_OF_BIRTH", account_number |-> "IDENTIFIER",
              secret |-> "CREDENTIAL"]
LabelType(label) == IF label \in DOMAIN LABEL_MAP THEN LABEL_MAP[label] ELSE "OTHER"
MAX_GAP == [PERSON |-> 3, ADDRESS |-> 3, DATE_OF_BIRTH |-> 3, URL |-> 2, PHONE |-> 2,
            CREDENTIAL |-> 2, IDENTIFIER |-> 1, EMAIL_ADDRESS |-> 0]
MaxGap(type) == IF type \in DOMAIN MAX_GAP THEN MAX_GAP[type] ELSE 1
Connectors(type) == Blank \cup (IF type = "ADDRESS" THEN {","} ELSE {})

Breaks(v) == \E i \in 1..(Len(v) - 1) : v[i] = "\n" /\ v[i + 1] = "\n"

\* _gap_is_mergeable.
GapIsMergeable(t, left, right, type) ==
    LET gap == Slice(t, left, right)
    IN /\ left <= right
       /\ \/ gap = <<>>
          \/ /\ ~Breaks(gap)
             /\ Len(gap) <= MaxGap(type)
             /\ ToSet(gap) \subseteq Connectors(type)

\* Pass 1: offsets that do not fit the text give way to the first place of the
\* span's own text.
Usable(span, t) == 0 <= span.start /\ span.start < span.end /\ span.end <= Len(t)
Extracted(span, t) ==
    LET v == Strip(span.text)
        at == Min(Places(v, t))
        type == LabelType(span.label)
    IN IF span.label = "" THEN <<>>
       ELSE IF Usable(span, t) THEN <<Typed(span.start, span.end, type)>>
       ELSE IF v # <<>> /\ Occurs(v, t) THEN <<Typed(at, at + Len(v), type)>>
       ELSE <<>>
Extract(spans, t) ==
    LET q == FlattenSeq([i \in DOMAIN spans |-> Extracted(spans[i], t)])
        order == Sorted(DOMAIN q, LAMBDA i, j :
                     \/ q[i].start < q[j].start
                     \/ q[i].start = q[j].start /\ q[i].end < q[j].end
                     \/ q[i].start = q[j].start /\ q[i].end = q[j].end /\ i < j)
    IN [k \in DOMAIN q |-> q[order[k]]]

\* Pass 2: a span joins the last one when the type agrees and the gap allows.
Merge(q, t) ==
    LET Join(done, x) ==
            IF done = <<>> THEN <<x>>
            ELSE LET prev == Last(done)
                 IN IF prev.type = x.type /\ GapIsMergeable(t, prev.end, x.start, x.type)
                    THEN Front(done) \o <<[prev EXCEPT !.end = x.end]>>
                    ELSE Append(done, x)
    IN FoldLeft(Join, <<>>, q)

\* Slip: a span is taken to be within one paragraph.
SplitNever(x, t) == <<x>>

\* Pass 3: the pieces of a span between the runs of two newlines or more.
SplitAtBreaks(x, t) ==
    LET InRun(i) == /\ t[i] = "\n"
                    /\ \/ i > x.start + 1 /\ t[i - 1] = "\n"
                       \/ i < x.end /\ t[i + 1] = "\n"
        heads == {i \in (x.start + 1)..x.end : ~InRun(i) /\ (i = x.start + 1 \/ InRun(i - 1))}
        TailOf(h) == Max({j \in h..x.end : \A i \in h..j : ~InRun(i)})
        pieces == Sorted(heads, LAMBDA i, j : i < j)
    IN [k \in DOMAIN pieces |-> Typed(pieces[k] - 1, TailOf(pieces[k]), x.type)]

\* Pass 4: what is left of a piece without its outer blanks.
Emit(q, t) ==
    LET kept == Where(q, LAMBDA x : Strip(Slice(t, x.start, x.end)) # <<>>)
    IN [k \in DOMAIN kept |-> Match(Strip(Slice(t, kept[k].start, kept[k].end)), kept[k].type)]

Pieces(spans, t) ==
    LET merged == Merge(Extract(spans, t), t)
    IN FlattenSeq([k \in DOMAIN merged |-> SplitAtBreaks(merged[k], t)])

ToMatches(spans, t) == Emit(Pieces(spans, t), t)
=============================================================================
