----------------------------- MODULE VaultWire -----------------------------
(***************************************************************************)
(* The wire format of the Redis vault (vault_redis.py): how a VaultEntry   *)
(* becomes JSON and what a stored payload is read back as.  Python and     *)
(* JSON values are pairs of a tag and a value; JSON has no tuples.         *)
(* Values of detector kwargs are scalars or tuples of scalars, which is    *)
(* what freeze_kwargs makes of every kwarg the detectors take today.       *)
(***************************************************************************)
EXTENDS Naturals, Sequences

Str(s) == <<"str", s>>
Num(n) == <<"num", n>>
Bool(b) == <<"bool", b>>
None == <<"null", "null">>
List(q) == <<"list", q>>
Tuple(q) == <<"tuple", q>>
Obj(f) == <<"obj", f>>
NotJson == <<"garbage", "garbage">>
Tag(x) == x[1]
Val(x) == x[2]
Item(x, i) == Val(x)[i]

\* VaultEntry(): no surrogate, no mode, no kwargs.
NoEntry == [surrogates |-> <<>>, detector_mode |-> <<>>, kwargs |-> <<>>]
IsEmpty(e) == DOMAIN e.surrogates = {}

\* The entries the pipeline builds: strings, and kwargs that freeze_kwargs made
\* free of lists.
VaultSurrogate == [original : STRING, entity_type : STRING,
                   source_detectors : Seq(STRING)]
Frozen(x) == x = <<Tag(x), Val(x)>> /\ Tag(x) # "list"
IsPair(k) == k = [key |-> k.key, value |-> k.value] /\ Frozen(k.value)
IsPairs(q) == /\ q \in Seq({q[j] : j \in DOMAIN q})
              /\ \A j \in DOMAIN q : IsPair(q[j])
IsCall(k) == k = [name |-> k.name, pairs |-> k.pairs] /\ IsPairs(k.pairs)
IsCalls(q) == /\ q \in Seq({q[i] : i \in DOMAIN q})
              /\ \A i \in DOMAIN q : IsCall(q[i])
IsVaultEntry(e) ==
    /\ e = [surrogates |-> e.surrogates, detector_mode |-> e.detector_mode,
            kwargs |-> e.kwargs]
    /\ e.surrogates \in [DOMAIN e.surrogates -> VaultSurrogate]
    /\ e.detector_mode \in Seq(STRING)
    /\ IsCalls(e.kwargs)
-----------------------------------------------------------------------------
Strs(q) == List([i \in DOMAIN q |-> Str(q[i])])

\* json.dumps writes a tuple as a list.
ToJson(x) == IF Tag(x) = "tuple" THEN List(Val(x)) ELSE x

EncodeSurrogate(s) ==
    List(<<Str(s.original), Str(s.entity_type), Strs(s.source_detectors)>>)

EncodeKwargs(k) ==
    List(<<Str(k.name),
           List([j \in DOMAIN k.pairs |->
                 List(<<Str(k.pairs[j].key), ToJson(k.pairs[j].value)>>)])>>)

EncodeEntry(e) ==
    Obj([surrogates |-> Obj([s \in DOMAIN e.surrogates |->
                             EncodeSurrogate(e.surrogates[s])]),
         detector_mode |-> Strs(e.detector_mode),
         kwargs |-> List([i \in DOMAIN e.kwargs |-> EncodeKwargs(e.kwargs[i])])])

-----------------------------------------------------------------------------
\* The shapes _decode_entry accepts; anything else raises.
IsStr(x) == Tag(x) = "str"
IsListOf(x, n) == Tag(x) = "list" /\ Len(Val(x)) = n
IsStrs(x) == Tag(x) = "list" /\ \A i \in DOMAIN Val(x) : IsStr(Item(x, i))
IsSurrogate(x) == /\ IsListOf(x, 3)
                  /\ IsStr(Item(x, 1))
                  /\ IsStr(Item(x, 2))
                  /\ IsStrs(Item(x, 3))
IsKwargs(x) == /\ IsListOf(x, 2)
               /\ IsStr(Item(x, 1))
               /\ Tag(Item(x, 2)) = "list"
               /\ \A j \in DOMAIN Val(Item(x, 2)) :
                    IsListOf(Item(Item(x, 2), j), 2) /\ IsStr(Item(Item(Item(x, 2), j), 1))

\* data.get(k, default)
Get(x, k, default) == IF k \in DOMAIN Val(x) THEN Item(x, k) ELSE default

IsEntry(x) ==
    /\ Tag(x) = "obj"
    /\ LET surrogates == Get(x, "surrogates", None)
           mode == Get(x, "detector_mode", List(<<>>))
           kwargs == Get(x, "kwargs", List(<<>>))
       IN /\ Tag(surrogates) = "obj"
          /\ \A s \in DOMAIN Val(surrogates) : IsSurrogate(Val(surrogates)[s])
          /\ IsStrs(mode)
          /\ Tag(kwargs) = "list"
          /\ \A i \in DOMAIN Val(kwargs) : IsKwargs(Val(kwargs)[i])

\* tuple(list of str)
Texts(x) == [i \in DOMAIN Val(x) |-> Val(Item(x, i))]

\* Slip: kwargs values handed back as JSON delivers them.
KeepList(x) == x
\* _coerce_value
CoerceValue(x) == IF Tag(x) = "list" THEN Tuple(Val(x)) ELSE x

DecodeSurrogate(x) == [original |-> Val(Item(x, 1)),
                       entity_type |-> Val(Item(x, 2)),
                       source_detectors |-> Texts(Item(x, 3))]

DecodeKwargs(x) ==
    [name |-> Val(Item(x, 1)),
     pairs |-> [j \in DOMAIN Val(Item(x, 2)) |->
                [key |-> Val(Item(Item(Item(x, 2), j), 1)),
                 value |-> CoerceValue(Item(Item(Item(x, 2), j), 2))]]]

DecodeEntry(x) ==
    LET surrogates == Val(Val(x)["surrogates"])
        kwargs == Val(Get(x, "kwargs", List(<<>>)))
    IN [surrogates |-> [s \in DOMAIN surrogates |-> DecodeSurrogate(surrogates[s])],
        detector_mode |-> Texts(Get(x, "detector_mode", List(<<>>))),
        kwargs |-> [i \in DOMAIN kwargs |-> DecodeKwargs(kwargs[i])]]

\* A payload that is not JSON, or not of the shape, is logged and reads as
\* the empty entry.
DecodePayloadOrEmpty(x) == IF IsEntry(x) THEN DecodeEntry(x) ELSE NoEntry
=============================================================================
