--------------------------- MODULE RequestParams ---------------------------
(***************************************************************************)
(* The per-request overrides (api.py: parse_overrides and its validators). *)
(* A raw value is a tagged one.  A string is a sequence of comma-separated *)
(* parts; a part is a name and how it is written: plain, padded with       *)
(* blanks, in upper case, or "" for nothing but blanks.  A threshold is in *)
(* hundredths; Huge is an integer that no float holds.  Unset stands for   *)
(* None in a parsed override.                                              *)
(***************************************************************************)
EXTENDS PyLists, SequencesExt, VaultWire

Part(name, style) == [name |-> name, style |-> style]
Huge == <<"huge", "huge">>

MAX_LOCALE_CHAIN == 3
MAX_DETECTOR_LIST == 5
MAX_GLINER_LABELS == 50
VALID_OVERLAP_STRATEGIES == {"longest", "priority"}

Unset == [use_faker |-> {}, faker_locale |-> {}, detector_mode |-> {},
          regex_overlap_strategy |-> {}, regex_patterns |-> {}, llm_model |-> {},
          llm_prompt |-> {}, denylist |-> {}, gliner_labels |-> {}, gliner_threshold |-> {}]
Fields == DOMAIN Unset

\* What a validator makes of a value: the set of what it lets through, which is
\* empty for a value that means "no override"; or Invalid.
Invalid == [valid |-> FALSE, value |-> {}]
Valid1(v) == [valid |-> TRUE, value |-> {v}]
NoOverride == [valid |-> TRUE, value |-> {}]

\* strip() keeps the case; lower() undoes it.
Stripped(p) == IF p.style = "padded" THEN Part(p.name, "plain") ELSE p
Lowered(p) == Part(p.name, "plain")
IsBlank(p) == p.name = ""

\* _csv_or_list: a list item is a string of its own, commas and all.
CsvOrList(v, cap) ==
    LET texts == Tag(v) = "list" /\ \A i \in DOMAIN Val(v) : Tag(Item(v, i)) = "str"
        items == IF Tag(v) = "str" THEN Val(v) ELSE [i \in DOMAIN Val(v) |-> Val(Item(v, i))[1]]
        parts == Where(items, LAMBDA p : ~IsBlank(p))
    IN IF Tag(v) # "str" /\ ~texts THEN Invalid
       ELSE IF Len(parts) > cap THEN Invalid
       ELSE IF parts = <<>> THEN NoOverride
       ELSE Valid1([i \in DOMAIN parts |-> Stripped(parts[i])])

StrictBool(v) == IF Tag(v) = "bool" THEN Valid1(Val(v)) ELSE Invalid

\* Slip: a bool is an int in Python.
ThresholdOfBool(v) ==
    IF Tag(v) = "bool" THEN Valid1(IF Val(v) THEN 100 ELSE 0)
    ELSE IF Tag(v) = "num" /\ 0 <= Val(v) /\ Val(v) <= 100 THEN Valid1(Val(v)) ELSE Invalid

\* A bool is not a number here, whatever Python says.  A huge integer is neither
\* valid nor invalid: see ParseRaises.
StrictThreshold(v) ==
    IF Tag(v) = "num" /\ 0 <= Val(v) /\ Val(v) <= 100 THEN Valid1(Val(v)) ELSE Invalid

StrictOverlapStrategy(v) ==
    IF Tag(v) = "str" /\ Len(Val(v)) = 1 /\ Val(v)[1].name \in VALID_OVERLAP_STRATEGIES
    THEN Valid1(Lowered(Val(v)[1])) ELSE Invalid

\* A name may hold a comma; only a string of one part can be a known name.
StrictName(v) ==
    IF Tag(v) # "str" THEN Invalid
    ELSE IF Val(v) = <<>> \/ (Len(Val(v)) = 1 /\ IsBlank(Val(v)[1])) THEN NoOverride
    ELSE Valid1([i \in DOMAIN Val(v) |-> Stripped(Val(v)[i])])

Validate(field, v) ==
    CASE field = "use_faker" -> StrictBool(v)
      [] field = "faker_locale" -> CsvOrList(v, MAX_LOCALE_CHAIN)
      [] field = "detector_mode" -> CsvOrList(v, MAX_DETECTOR_LIST)
      [] field = "gliner_labels" -> CsvOrList(v, MAX_GLINER_LABELS)
      [] field = "gliner_threshold" -> StrictThreshold(v)
      [] field = "regex_overlap_strategy" -> StrictOverlapStrategy(v)
      [] OTHER -> StrictName(v)

\* float(v) overflows on a huge integer, which is no ValidationError.
ParseRaises(raw) == "gliner_threshold" \in DOMAIN raw /\ Tag(raw["gliner_threshold"]) = "huge"

\* parse_overrides, unless it raises: every field on its own; what is unknown or
\* invalid is dropped and the others stand.
ParseOverrides(raw) ==
    [f \in Fields |-> IF f \in DOMAIN raw THEN Validate(f, raw[f]).value ELSE {}]

\* The name an override gives, if one part of plain text is what it is.
PlainName(v) == IF v # {} /\ \E q \in v : Len(q) = 1 /\ q[1].style = "plain"
                THEN (CHOOSE q \in v : TRUE)[1].name ELSE ""

\* The named pattern set, denylist or prompt of the registry; None, "default" and
\* unknown names mean the default one.
Named(name, default, registry) ==
    IF name \in DOMAIN registry /\ name # "default" THEN registry[name] ELSE default
=============================================================================
