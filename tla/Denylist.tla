------------------------------ MODULE Denylist ------------------------------
(***************************************************************************)
(* The candidates of the denylist detector (detector/denylist.py): loading *)
(* a list and the two ways to find its entries in a text, one alternation  *)
(* per case sensitivity or one automaton per case sensitivity.             *)
(***************************************************************************)
EXTENDS TextMatch

\* cs: case_sensitive; wb: word_boundary.
Listed(v, type, cs, wb) == [value |-> v, type |-> type, cs |-> cs, wb |-> wb]

\* _load_entries: the first of the entries that agree on all but wb is kept.
Load(raw) ==
    LET Same(a, b) == a.value = b.value /\ a.type = b.type /\ a.cs = b.cs
    IN Kept(raw, {i \in DOMAIN raw : \A k \in 1..(i - 1) : ~Same(raw[k], raw[i])})
-----------------------------------------------------------------------------
(* Regex backend.                                                            *)
AtLeft(v) == v[1] \in Word
AtRight(v) == v[Len(v)] \in Word
\* A \b between the characters at offsets i - 1 and i.
Boundary(t, i) == (i > 0 /\ t[i] \in Word) # (i < Len(t) /\ t[i + 1] \in Word)
Equal(a, b, cs) == /\ Len(a) = Len(b)
                   /\ \A i \in DOMAIN a : IF cs THEN a[i] = b[i] ELSE Fold(a[i]) = Fold(b[i])

\* The fragment of e matches at s.
Matches(e, t, s) ==
    LET end == s + Len(e.value)
    IN /\ end <= Len(t)
       /\ Equal(Slice(t, s, end), e.value, e.cs)
       /\ e.wb => /\ AtLeft(e.value) => Boundary(t, s)
                  /\ AtRight(e.value) => Boundary(t, end)

\* The length of the escaped and wrapped fragment orders the alternatives.
Escaped == Blank \cup {".", "-", "?", "#"}
FragmentLen(e) ==
    Len(e.value) + Cardinality({i \in DOMAIN e.value : e.value[i] \in Escaped})
    + (IF e.wb /\ AtLeft(e.value) THEN 2 ELSE 0) + (IF e.wb /\ AtRight(e.value) THEN 2 ELSE 0)
Alternatives(entries, cs) ==
    LET q == Where(entries, LAMBDA e : e.cs = cs)
        order == Sorted(DOMAIN q, LAMBDA i, j :
                     \/ FragmentLen(q[i]) > FragmentLen(q[j])
                     \/ FragmentLen(q[i]) = FragmentLen(q[j]) /\ i < j)
    IN [k \in DOMAIN q |-> q[order[k]]]

\* The type the lookup table has for a matched text: that of the last entry
\* whose (lowered) value it is; the table misses what only IGNORECASE equates.
Key(v, cs) == IF cs THEN v ELSE Lower(v)
TypeOf(entries, v, cs) ==
    LET i == SelectLastInSeq(entries, LAMBDA e : e.cs = cs /\ Key(e.value, cs) = Key(v, cs))
    IN IF i = 0 THEN {} ELSE {entries[i].type}

\* finditer over the alternation: at each place the first alternative that
\* matches, then from its end on.
FindIter(alts, t) ==
    LET from[s \in 0..(Len(t) + 1)] ==
            IF s > Len(t) THEN <<>>
            ELSE LET k == SelectInSeq(alts, LAMBDA e : Matches(e, t, s))
                 IN IF k = 0 THEN from[s + 1]
                    ELSE <<<<s, s + Len(alts[k].value)>>>> \o from[s + Len(alts[k].value)]
    IN from[0]
FindAll(entries, cs, t) == FindIter(Alternatives(entries, cs), t)

\* A candidate for each place found, if the table has its type.
TypedHits(entries, cs, t, found) ==
    FlattenSeq([k \in DOMAIN found |->
        LET at == found[k]
            v == Slice(t, at[1], at[2])
        IN SetToSeq({Candidate(at[1], at[2], v, type) : type \in TypeOf(entries, v, cs)})])
CollectRegex(entries, t) == TypedHits(entries, TRUE, t, FindAll(entries, TRUE, t))
                            \o TypedHits(entries, FALSE, t, FindAll(entries, FALSE, t))
-----------------------------------------------------------------------------
(* Aho-Corasick backend.                                                     *)
\* _has_word_boundaries.
HasWordBoundaries(t, s, e) ==
    /\ 0 <= s /\ e <= Len(t) /\ s < e
    /\ t[s + 1] \in Word /\ s > 0 => t[s] \notin Word
    /\ t[e] \in Word /\ e < Len(t) => t[e + 1] \notin Word

\* Every occurrence of every key, by its end, the longer first; a key added
\* twice keeps the last payload.  Ends count characters of the searched text,
\* the lowered one for keys in lower case; the length is that of the value.
AhoHits(entries, cs, t) ==
    LET hay == IF cs THEN t ELSE Lower(t)
        keys == {Key(entries[i].value, cs) : i \in {j \in DOMAIN entries : entries[j].cs = cs}}
        Payload(k) == entries[SelectLastInSeq(entries, LAMBDA e : e.cs = cs /\ Key(e.value, cs) = k)]
        hits == {<<s + Len(k), k>> : s \in 0..Len(hay), k \in keys}
        real == {h \in hits : h[1] <= Len(hay) /\ Slice(hay, h[1] - Len(h[2]), h[1]) = h[2]}
        order == Sorted(real, LAMBDA g, h : g[1] < h[1] \/ (g[1] = h[1] /\ Len(g[2]) > Len(h[2])))
    IN [n \in DOMAIN order |->
            [start |-> order[n][1] - Len(Payload(order[n][2]).value), end |-> order[n][1],
             entry |-> Payload(order[n][2])]]
CollectAho(entries, t) ==
    LET Of(cs) ==
            LET kept == Where(AhoHits(entries, cs, t),
                        LAMBDA h : h.entry.wb => HasWordBoundaries(t, h.start, h.end))
            IN [n \in DOMAIN kept |-> Candidate(kept[n].start, kept[n].end,
                    Slice(t, kept[n].start, kept[n].end), kept[n].entry.type)]
    IN Of(TRUE) \o Of(FALSE)

\* _build_index, as DENYLIST_BACKEND says.
DenylistCandidates(backend, entries, t) ==
    IF backend = "aho" THEN CollectAho(entries, t) ELSE CollectRegex(entries, t)
=============================================================================
