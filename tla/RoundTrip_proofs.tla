-------------------------- MODULE RoundTrip_proofs --------------------------
(***************************************************************************)
(* Theorems of RedisVault and of RoundTrip above it, for every set of      *)
(* tasks, calls, entries, payloads and deployments.  First the wire format *)
(* (what is written for an entry is read back as that entry) and the vault *)
(* with its types and the contract its executions on the server implement, *)
(* one lemma per action; then, for every number of replicas, samples and   *)
(* outside tasks, every TTL and every entry, the three promises of a reply *)
(* and the contract, from one inductive invariant.                         *)
(***************************************************************************)
EXTENDS RoundTrip, TLAPS

-----------------------------------------------------------------------------
(* The wire format (VaultWire).                                              *)

\* A tagged value has its tag and its value.
LEMMA Tagged ==
  /\ \A x : Tag(Str(x)) = "str" /\ Val(Str(x)) = x
  /\ \A x : Tag(List(x)) = "list" /\ Val(List(x)) = x
  /\ \A x : Tag(Tuple(x)) = "tuple" /\ Val(Tuple(x)) = x
  /\ \A x : Tag(Obj(x)) = "obj" /\ Val(Obj(x)) = x
BY DEF Tag, Val, Str, List, Tuple, Obj

\* The items of a short list.
LEMMA Items ==
  /\ \A a, b : /\ IsListOf(List(<<a, b>>), 2)
               /\ Item(List(<<a, b>>), 1) = a /\ Item(List(<<a, b>>), 2) = b
  /\ \A a, b, c : /\ IsListOf(List(<<a, b, c>>), 3)
                  /\ Item(List(<<a, b, c>>), 1) = a /\ Item(List(<<a, b, c>>), 2) = b
                  /\ Item(List(<<a, b, c>>), 3) = c
BY Tagged DEF IsListOf, Item

\* A sequence of texts.
LEMMA StrsRead ==
  ASSUME NEW q \in Seq(STRING)
  PROVE  IsStrs(Strs(q)) /\ Texts(Strs(q)) = q
<1> DEFINE s == [i \in DOMAIN q |-> Str(q[i])]
<1>1. Strs(q) = List(s)
  BY DEF Strs
<1>2. Tag(Strs(q)) = "list" /\ Val(Strs(q)) = s
  BY <1>1, Tagged
<1>3. \A i \in DOMAIN q : Item(Strs(q), i) = Str(q[i])
  BY <1>2 DEF Item
<1>4. IsStrs(Strs(q))
  BY <1>2, <1>3, Tagged DEF IsStrs, IsStr
<1>5. Texts(Strs(q)) = [i \in DOMAIN q |-> q[i]]
  BY <1>2, <1>3, Tagged DEF Texts
<1> QED BY <1>4, <1>5

\* One surrogate of an entry.
LEMMA SurrogateRead ==
  ASSUME NEW s \in VaultSurrogate
  PROVE  IsSurrogate(EncodeSurrogate(s)) /\ DecodeSurrogate(EncodeSurrogate(s)) = s
<1>1. s.source_detectors \in Seq(STRING)
  BY DEF VaultSurrogate
<1>2. IsStrs(Strs(s.source_detectors)) /\ Texts(Strs(s.source_detectors)) = s.source_detectors
  BY <1>1, StrsRead
<1> DEFINE x == EncodeSurrogate(s)
<1>3. /\ IsListOf(x, 3)
      /\ Item(x, 1) = Str(s.original) /\ Item(x, 2) = Str(s.entity_type)
      /\ Item(x, 3) = Strs(s.source_detectors)
  BY Items DEF EncodeSurrogate
<1>4. IsSurrogate(x)
  BY <1>2, <1>3, Tagged DEF IsSurrogate, IsStr
<1>5. DecodeSurrogate(x) = [original |-> s.original, entity_type |-> s.entity_type,
                            source_detectors |-> s.source_detectors]
  BY <1>2, <1>3, Tagged DEF DecodeSurrogate
<1>6. s = [original |-> s.original, entity_type |-> s.entity_type,
           source_detectors |-> s.source_detectors]
  BY DEF VaultSurrogate
<1> QED BY <1>4, <1>5, <1>6

\* A frozen value survives although JSON has no tuples.
LEMMA ValueRead ==
  ASSUME NEW x, Frozen(x)
  PROVE  CoerceValue(ToJson(x)) = x
<1>1. CASE Tag(x) = "tuple"
  <2>1. ToJson(x) = List(Val(x))
    BY <1>1 DEF ToJson
  <2>2. CoerceValue(ToJson(x)) = Tuple(Val(x))
    BY <2>1, Tagged DEF CoerceValue
  <2> QED BY <2>2, <1>1 DEF Frozen, Tuple
<1>2. CASE Tag(x) # "tuple"
  BY <1>2 DEF ToJson, CoerceValue, Frozen
<1> QED BY <1>1, <1>2

\* The parameters of one detector's call.
LEMMA KwargsRead ==
  ASSUME NEW k, IsCall(k)
  PROVE  IsKwargs(EncodeKwargs(k)) /\ DecodeKwargs(EncodeKwargs(k)) = k
<1> DEFINE Pair(j) == List(<<Str(k.pairs[j].key), ToJson(k.pairs[j].value)>>)
           q == [j \in DOMAIN k.pairs |-> Pair(j)]
           x == EncodeKwargs(k)
<1>1. /\ IsListOf(x, 2)
      /\ Item(x, 1) = Str(k.name) /\ Item(x, 2) = List(q)
  BY Items DEF EncodeKwargs
<1>2. Tag(Item(x, 2)) = "list" /\ Val(Item(x, 2)) = q
  BY <1>1, Tagged
<1>3. ASSUME NEW j \in DOMAIN k.pairs
      PROVE  /\ Item(Item(x, 2), j) = Pair(j)
             /\ IsListOf(Pair(j), 2)
             /\ Item(Pair(j), 1) = Str(k.pairs[j].key)
             /\ Item(Pair(j), 2) = ToJson(k.pairs[j].value)
  BY <1>2, Items DEF Item
<1>4. IsKwargs(x)
  <2> HIDE DEF x, Pair
  <2>1. DOMAIN q = DOMAIN k.pairs
    OBVIOUS
  <2> QED BY <1>1, <1>2, <1>3, <2>1, Tagged DEF IsKwargs, IsStr
<1>5. ASSUME NEW j \in DOMAIN k.pairs
      PROVE  [key |-> Val(Item(Item(Item(x, 2), j), 1)),
              value |-> CoerceValue(Item(Item(Item(x, 2), j), 2))] = k.pairs[j]
  <2>1. IsPair(k.pairs[j])
    BY DEF IsCall, IsPairs
  <2>2. CoerceValue(ToJson(k.pairs[j].value)) = k.pairs[j].value
    BY <2>1, ValueRead DEF IsPair
  <2>3. k.pairs[j] = [key |-> k.pairs[j].key, value |-> k.pairs[j].value]
    BY <2>1 DEF IsPair
  <2> HIDE DEF x, Pair
  <2> QED BY <1>3, <2>2, <2>3, Tagged
<1>6. k.pairs = [j \in DOMAIN k.pairs |-> k.pairs[j]]
  <2>1. IsPairs(k.pairs)
    BY DEF IsCall
  <2> QED BY <2>1 DEF IsPairs
<1>7. DecodeKwargs(x) = [name |-> k.name, pairs |-> k.pairs]
  <2> HIDE DEF x, Pair
  <2>1. Val(Item(x, 1)) = k.name
    BY <1>1, Tagged
  <2>2. DOMAIN Val(Item(x, 2)) = DOMAIN k.pairs
    BY <1>2
  <2>3. [j \in DOMAIN Val(Item(x, 2)) |->
           [key |-> Val(Item(Item(Item(x, 2), j), 1)),
            value |-> CoerceValue(Item(Item(Item(x, 2), j), 2))]]
          = [j \in DOMAIN k.pairs |-> k.pairs[j]]
    BY <2>2, <1>5
  <2> QED BY <2>1, <2>3, <1>6 DEF DecodeKwargs
<1> QED BY <1>4, <1>7 DEF IsCall

\* EncodeEntry and _decode_entry (vault_redis.py): every entry the pipeline
\* builds is read back as it was written.
THEOREM EntryRead ==
  ASSUME NEW e, IsVaultEntry(e)
  PROVE  IsEntry(EncodeEntry(e)) /\ DecodeEntry(EncodeEntry(e)) = e
<1> DEFINE surrogates == [s \in DOMAIN e.surrogates |-> EncodeSurrogate(e.surrogates[s])]
           kwargs == [i \in DOMAIN e.kwargs |-> EncodeKwargs(e.kwargs[i])]
           x == EncodeEntry(e)
           f == [surrogates |-> Obj(surrogates), detector_mode |-> Strs(e.detector_mode),
                 kwargs |-> List(kwargs)]
<1>1. Tag(x) = "obj" /\ Val(x) = f
  BY Tagged DEF EncodeEntry
<1>2. DOMAIN f = {"surrogates", "detector_mode", "kwargs"}
  OBVIOUS
<1>3. \A d : /\ Get(x, "surrogates", d) = Obj(surrogates)
             /\ Get(x, "detector_mode", d) = Strs(e.detector_mode)
             /\ Get(x, "kwargs", d) = List(kwargs)
  BY <1>1, <1>2 DEF Get, Item
<1>4. Val(x)["surrogates"] = Obj(surrogates)
  BY <1>1
<1>5. \A s \in DOMAIN e.surrogates : /\ IsSurrogate(EncodeSurrogate(e.surrogates[s]))
                                     /\ DecodeSurrogate(EncodeSurrogate(e.surrogates[s])) = e.surrogates[s]
  BY SurrogateRead DEF IsVaultEntry
<1>6. \A i \in DOMAIN e.kwargs : /\ IsKwargs(EncodeKwargs(e.kwargs[i]))
                                 /\ DecodeKwargs(EncodeKwargs(e.kwargs[i])) = e.kwargs[i]
  BY KwargsRead DEF IsVaultEntry, IsCalls
<1>7. IsStrs(Strs(e.detector_mode)) /\ Texts(Strs(e.detector_mode)) = e.detector_mode
  BY StrsRead DEF IsVaultEntry
<1> HIDE DEF x, f
<1>8. IsEntry(x)
  <2>1. \A s \in DOMAIN surrogates : IsSurrogate(surrogates[s])
    BY <1>5
  <2>2. \A i \in DOMAIN kwargs : IsKwargs(kwargs[i])
    BY <1>6
  <2> HIDE DEF surrogates, kwargs
  <2>3. /\ Tag(Obj(surrogates)) = "obj" /\ Val(Obj(surrogates)) = surrogates
        /\ Tag(List(kwargs)) = "list" /\ Val(List(kwargs)) = kwargs
    BY Tagged
  <2> QED BY <1>1, <1>3, <1>7, <2>1, <2>2, <2>3, Zenon DEF IsEntry
<1>9. [s \in DOMAIN surrogates |-> DecodeSurrogate(surrogates[s])] = e.surrogates
  BY <1>5 DEF IsVaultEntry
<1>10. [i \in DOMAIN kwargs |-> DecodeKwargs(kwargs[i])] = e.kwargs
  BY <1>6 DEF IsVaultEntry, IsCalls
<1> HIDE DEF surrogates, kwargs
<1>11. DecodeEntry(x) = [surrogates |-> e.surrogates, detector_mode |-> e.detector_mode,
                         kwargs |-> e.kwargs]
  BY <1>3, <1>4, <1>7, <1>9, <1>10, Tagged DEF DecodeEntry
<1> QED BY <1>8, <1>11 DEF IsVaultEntry, x

-----------------------------------------------------------------------------
(* The vault.                                                                *)

Refined == [Abstract!Next]_(Abstract!vars)
Visible == [c \in CallId |-> Lookup(db, c, now)]

\* What is decoded from any payload is an entry or the empty one; from the
\* payload of an entry it is that entry.
LEMMA Decoded ==
  /\ \A e \in Entry : DecodePayloadOrEmpty(EncodeEntry(e)) = e
  /\ \A j \in Junk : DecodePayloadOrEmpty(j) = NoEntry
  /\ DecodePayloadOrEmpty(NotJson) = NoEntry
  /\ \A x \in Payload : DecodePayloadOrEmpty(x) \in Entry \cup {NoEntry}
<1>1. \A e \in Entry : DecodePayloadOrEmpty(EncodeEntry(e)) = e
  BY EntryRead, RedisVaultAssumption DEF DecodePayloadOrEmpty
<1>2. \A j \in Junk : DecodePayloadOrEmpty(j) = NoEntry
  BY RedisVaultAssumption DEF DecodePayloadOrEmpty
<1>3. DecodePayloadOrEmpty(NotJson) = NoEntry
  <2>1. Tag(NotJson) # "obj"
    BY DEF Tag, NotJson
  <2> QED BY <2>1 DEF DecodePayloadOrEmpty, IsEntry
<1> QED BY <1>1, <1>2, <1>3 DEF Payload

\* No entry is the empty one.
LEMMA EntriesNotEmpty == NoEntry \notin Entry
<1>1. IsEmpty(NoEntry)
  BY DEF NoEntry, IsEmpty
<1> QED BY <1>1, RedisVaultAssumption

\* A peek shows an entry or the empty one.
LEMMA VisibleType ==
  ASSUME TypeOK
  PROVE  Visible \in [CallId -> Entry \cup {NoEntry}]
<1>1. ASSUME NEW c \in CallId PROVE Lookup(db, c, now) \in Entry \cup {NoEntry}
  <2>1. db[c].payload \in Payload
    BY DEF TypeOK
  <2> QED BY <2>1, Decoded DEF Lookup, Answer, Key
<1> QED BY <1>1 DEF Visible

-----------------------------------------------------------------------------
\* A step that leaves the server and the clock alone is a stutter.
LEMMA QuietStep ==
  ASSUME UNCHANGED <<db, now, reply>>
  PROVE  Refined
<1>1. Visible' = Visible
  BY DEF Visible, Lookup, There, Answer
<1> QED BY <1>1 DEF Refined, Abstract!vars, Visible

\* Send: the command of the task has the types of a command.
LEMMA SendStep ==
  ASSUME TypeOK, NEW p \in Client, NEW op \in {"put", "peek", "pop"}, NEW c \in CallId,
         NEW e \in Entry \cup {NoEntry}, Send(p, op, c, e)
  PROVE  TypeOK' /\ Refined
<1> DEFINE k == [NoCommand EXCEPT !.op = op, !.cid = c, !.entry = e, !.stage = "sent", !.sends = 1]
<1>1. k \in Command
  BY DEF NoCommand, Command, Stages, Payload
<1>2. k.op = op /\ k.cid = c /\ k.entry = e
  BY DEF NoCommand
<1>3. op = "put" => e \in Entry
  BY DEF Send, IsEmpty, NoEntry
<1>4. /\ cmd' = [cmd EXCEPT ![p] = k]
      /\ UNCHANGED <<scope, db, now, late, reply>>
  BY DEF Send
<1> HIDE DEF k
<1>5. TypeOK'
  BY <1>1, <1>2, <1>3, <1>4 DEF TypeOK, Busy
<1> QED BY <1>4, <1>5, QuietStep

\* put of an empty entry.
LEMMA PutEmptyStep ==
  ASSUME TypeOK, NEW p \in Client, NEW c \in CallId, PutEmpty(p, c)
  PROVE  TypeOK' /\ Refined
<1> DEFINE k == [NoCommand EXCEPT !.op = "put", !.cid = c, !.stage = "done"]
<1>1. k \in Command /\ k.stage = "done"
  BY DEF NoCommand, Command, Stages, Payload
<1>2. /\ cmd' = [cmd EXCEPT ![p] = k]
      /\ reply' = Reply("put", c, NoEntry)
      /\ UNCHANGED <<scope, db, now, late>>
  BY DEF PutEmpty
<1> HIDE DEF k
<1>3. TypeOK'
  BY <1>1, <1>2 DEF TypeOK, Busy
<1>4. Visible' = Visible
  BY <1>2 DEF Visible, Lookup, There, Answer
<1>5. Abstract!Ignored("put", c, NoEntry)
  BY <1>2, <1>4 DEF Abstract!Ignored, Abstract!Reply, Reply, Visible
<1> QED BY <1>3, <1>5 DEF Refined, Abstract!Next

\* A command the server executes is an operation of the contract, or a put it
\* rejects.
LEMMA Executed1 ==
  ASSUME TypeOK, NEW op, NEW c \in CallId, NEW e, op = "put" => e \in Entry,
         Execute(op, c, e), UNCHANGED <<scope, now>>
  PROVE  /\ db' \in [CallId -> [there : BOOLEAN, payload : Payload, exp : Int]]
         /\ Refined
<1> USE DEF Key
<1>1. CASE op = "put" /\ Set(c, e)
  <2> DEFINE r == [there |-> TRUE, payload |-> EncodeEntry(e), exp |-> now + scope.ttl]
  <2>1. scope.ttl \in Int /\ scope.ttl >= 1 /\ now \in Nat /\ e \in Entry
    BY <1>1, RedisVaultAssumption DEF TypeOK, Set
  <2>2. EncodeEntry(e) \in Payload
    BY <2>1 DEF Payload
  <2>3. db' = [db EXCEPT ![c] = r] /\ reply' = Reply("put", c, e)
    BY <1>1 DEF Set
  <2>4. db' \in [CallId -> [there : BOOLEAN, payload : Payload, exp : Int]]
    BY <2>1, <2>2, <2>3 DEF TypeOK
  <2>5. Lookup(db', c, now') = e
    <3>1. db'[c].there /\ db'[c].payload = EncodeEntry(e) /\ now' < db'[c].exp
      BY <2>1, <2>3 DEF TypeOK
    <3> QED BY <3>1, <2>1, Decoded DEF Lookup, There, Answer
  <2>6. \A d \in CallId \ {c} : Lookup(db', d, now') = Lookup(db, d, now)
    BY <2>3 DEF Lookup, There, Answer, TypeOK
  <2>7. Visible \in [CallId -> Entry \cup {NoEntry}]
    BY VisibleType
  <2>8. Visible' = [Visible EXCEPT ![c] = e]
    BY <2>5, <2>6 DEF Visible
  <2>9. Abstract!Put(c, e)
    BY <2>1, <2>3, <2>7, <2>8
       DEF Visible, Abstract!Put, Abstract!KeptOrForgotten, Abstract!Reply, Reply
  <2> QED BY <2>1, <2>4, <2>9 DEF Refined, Abstract!Next
<1>2. CASE op = "put" /\ SetRejected
  BY <1>2, QuietStep DEF SetRejected, TypeOK
<1>3. CASE op = "peek" /\ GetKey(c)
  <2>1. UNCHANGED <<db, now>> /\ reply' = Reply("peek", c, Lookup(db, c, now))
    BY <1>3 DEF GetKey
  <2>2. Visible' = Visible
    BY <2>1 DEF Visible, Lookup, There, Answer
  <2>3. Abstract!Peek(c)
    BY <2>1, <2>2 DEF Visible, Abstract!Peek, Abstract!Reply, Reply
  <2> QED BY <2>1, <2>3 DEF Refined, Abstract!Next, TypeOK
<1>4. CASE op = "pop" /\ GetDel(c)
  <2>1. /\ db' = [db EXCEPT ![c] = Absent] /\ now' = now
        /\ reply' = Reply("pop", c, Lookup(db, c, now))
    BY <1>4 DEF GetDel
  <2>2. Absent \in [there : BOOLEAN, payload : Payload, exp : Int] /\ ~Absent.there
    BY DEF Absent, Payload
  <2>3. db' \in [CallId -> [there : BOOLEAN, payload : Payload, exp : Int]]
    BY <2>1, <2>2 DEF TypeOK
  <2>4. Visible' = [Visible EXCEPT ![c] = NoEntry]
    BY <2>1, <2>2 DEF Visible, Lookup, There, Answer, TypeOK
  <2>5. Abstract!Pop(c)
    BY <2>1, <2>4 DEF Visible, Abstract!Pop, Abstract!Reply, Reply
  <2> QED BY <2>3, <2>5 DEF Refined, Abstract!Next
<1> QED BY <1>1, <1>2, <1>3, <1>4 DEF Execute

\* The server executes a task's command.
LEMMA ServeStep ==
  ASSUME TypeOK, NEW p \in Client, Serve(p)
  PROVE  TypeOK' /\ Refined
<1> DEFINE a == IF cmd[p].op = "put" THEN NotJson ELSE Answer(db, cmd[p].cid, now)
           err == (cmd[p].op = "put" /\ scope.ttl < 1)
           k == [cmd[p] EXCEPT !.stage = "served", !.answer = a, !.error = err]
<1>1. /\ cmd[p] \in Command /\ Busy(p)
      /\ cmd[p].op # "none" /\ cmd[p].cid \in CallId
      /\ cmd[p].op = "put" => cmd[p].entry \in Entry
  BY DEF TypeOK, Serve, Busy
<1>2. a \in Payload
  BY <1>1 DEF Answer, Payload, TypeOK, Key
<1>3. k \in Command /\ k.op = cmd[p].op /\ k.cid = cmd[p].cid /\ k.entry = cmd[p].entry
  BY <1>1, <1>2 DEF Command, Stages
<1>4. cmd' = [cmd EXCEPT ![p] = k] /\ UNCHANGED <<scope, now, late>>
  BY DEF Serve
<1>5. db' \in [CallId -> [there : BOOLEAN, payload : Payload, exp : Int]] /\ Refined
  BY <1>1, Executed1 DEF Serve
<1> HIDE DEF k
<1> QED BY <1>1, <1>3, <1>4, <1>5 DEF TypeOK, Busy

\* The answer arrives.
LEMMA DeliverStep ==
  ASSUME TypeOK, NEW p \in Client, Deliver(p)
  PROVE  TypeOK' /\ Refined
<1> DEFINE x == IF cmd[p].op = "put" THEN NoEntry ELSE DecodePayloadOrEmpty(cmd[p].answer)
           k == [cmd[p] EXCEPT !.stage = "done", !.result = x]
<1>1. cmd[p] \in Command
  BY DEF TypeOK
<1>2. x \in Entry \cup {NoEntry}
  BY <1>1, Decoded DEF Command
<1>3. k \in Command /\ k.stage = "done"
  BY <1>1, <1>2 DEF Command, Stages
<1>4. cmd' = [cmd EXCEPT ![p] = k] /\ UNCHANGED <<scope, db, now, late, reply>>
  BY DEF Deliver
<1> HIDE DEF k
<1> QED BY <1>3, <1>4, QuietStep DEF TypeOK, Busy

\* What a task gives up has the types of a command.
LEMMA AbandonStep ==
  ASSUME TypeOK, NEW p \in Client, Busy(p), (UNCHANGED late) \/ Abandon(cmd[p])
  PROVE  late' \subseteq Abandoned /\ \A m \in late' : m.op = "put" => m.entry \in Entry
<1> DEFINE m == [op |-> cmd[p].op, cid |-> cmd[p].cid, entry |-> cmd[p].entry]
<1>1. cmd[p] \in Command /\ cmd[p].op # "none" /\ cmd[p].cid \in CallId
      /\ (cmd[p].op = "put" => cmd[p].entry \in Entry)
  BY DEF TypeOK
<1>2. m \in Abandoned /\ (m.op = "put" => m.entry \in Entry)
  BY <1>1 DEF Command, Abandoned
<1>3. late' \subseteq late \cup {m}
  BY DEF Abandon
<1> QED BY <1>2, <1>3 DEF TypeOK

\* The connection breaks.
LEMMA BreakStep ==
  ASSUME TypeOK, NEW p \in Client, Break(p)
  PROVE  TypeOK' /\ Refined
<1> DEFINE k == [cmd[p] EXCEPT !.stage = "done", !.error = TRUE]
<1>0. cmd[p] \in Command
  BY DEF TypeOK
<1>1. k \in Command /\ k.stage = "done"
  BY <1>0 DEF Command, Stages
<1>2. cmd' = [cmd EXCEPT ![p] = k] /\ UNCHANGED <<scope, db, now, reply>>
  BY DEF Break
<1>3. late' \subseteq Abandoned /\ \A m \in late' : m.op = "put" => m.entry \in Entry
  BY AbandonStep DEF Break
<1> HIDE DEF k
<1> QED BY <1>1, <1>2, <1>3, QuietStep DEF TypeOK, Busy

\* The client library sends again.
LEMMA ResendStep ==
  ASSUME TypeOK, NEW p \in Client, Resend(p)
  PROVE  TypeOK' /\ Refined
<1> DEFINE k == [cmd[p] EXCEPT !.stage = "sent", !.sends = @ + 1]
<1>1. cmd[p] \in Command
  BY DEF TypeOK
<1>2. cmd[p].sends + 1 \in Nat
  BY <1>1 DEF Command
<1>3. k \in Command
  BY <1>1, <1>2 DEF Command, Stages
<1>4. k.op = cmd[p].op /\ k.cid = cmd[p].cid /\ k.entry = cmd[p].entry
  BY <1>1 DEF Command
<1>5. cmd' = [cmd EXCEPT ![p] = k] /\ UNCHANGED <<scope, db, now, reply>> /\ Busy(p)
  BY DEF Resend
<1>6. late' \subseteq Abandoned /\ \A m \in late' : m.op = "put" => m.entry \in Entry
  BY AbandonStep DEF Resend
<1> HIDE DEF k
<1> QED BY <1>3, <1>4, <1>5, <1>6, QuietStep DEF TypeOK, Busy

\* The server executes a command nobody waits for.
LEMMA ServeLateStep ==
  ASSUME TypeOK, NEW m \in late, ServeLate(m)
  PROVE  TypeOK' /\ Refined
<1>1. m.cid \in CallId /\ (m.op = "put" => m.entry \in Entry)
  BY DEF TypeOK, Abandoned
<1>2. db' \in [CallId -> [there : BOOLEAN, payload : Payload, exp : Int]] /\ Refined
  BY <1>1, Executed1 DEF ServeLate
<1>3. late' = late \ {m} /\ UNCHANGED <<scope, now, cmd>>
  BY DEF ServeLate
<1> QED BY <1>2, <1>3 DEF TypeOK, Busy

-----------------------------------------------------------------------------
\* A step that only makes entries disappear is a Forget.
LEMMA ForgetStep ==
  ASSUME TypeOK, UNCHANGED reply,
         \A c \in CallId : Lookup(db', c, now') \in {Lookup(db, c, now), NoEntry}
  PROVE  Refined
<1>1. Visible \in [CallId -> Entry \cup {NoEntry}]
  BY VisibleType
<1>2. Visible' \in [CallId -> Entry \cup {NoEntry}]
      /\ \A c \in CallId : Visible'[c] \in {Visible[c], NoEntry}
  BY <1>1 DEF Visible
<1>3. Abstract!Forget
  BY <1>2 DEF Visible, Abstract!Forget, Abstract!KeptOrForgotten
<1> QED BY <1>3 DEF Refined, Abstract!Next

\* The clock of the server.
LEMMA TickStep ==
  ASSUME TypeOK, Tick
  PROVE  TypeOK' /\ Refined
<1>1. now \in Nat /\ now' = now + 1 /\ UNCHANGED <<scope, db, cmd, late, reply>>
  BY DEF TypeOK, Tick
<1>2. \A c \in CallId : db[c].exp \in Int
  BY DEF TypeOK
<1>3. \A c \in CallId : Lookup(db', c, now') \in {Lookup(db, c, now), NoEntry}
  BY <1>1, <1>2 DEF Lookup, There, Answer, Key
<1> QED BY <1>1, <1>3, ForgetStep DEF TypeOK, Busy

\* The keys are flushed.
LEMMA FlushStep ==
  ASSUME TypeOK, Flush
  PROVE  TypeOK' /\ Refined
<1>1. db' = [c \in CallId |-> Absent] /\ UNCHANGED <<scope, now, cmd, late, reply>>
  BY DEF Flush
<1>2. Absent \in [there : BOOLEAN, payload : Payload, exp : Int] /\ ~Absent.there
  BY DEF Absent, Payload
<1>3. \A c \in CallId : Lookup(db', c, now') = NoEntry
  BY <1>1, <1>2 DEF Lookup, There, Key
<1> QED BY <1>1, <1>2, <1>3, ForgetStep DEF TypeOK, Busy

\* A stranger overwrites a key.
LEMMA CorruptStep ==
  ASSUME TypeOK, NEW c \in CallId, NEW j \in Junk, Corrupt(c, j)
  PROVE  TypeOK' /\ Refined
<1> DEFINE r == [db[c] EXCEPT !.payload = j]
<1>1. j \in Payload /\ DecodePayloadOrEmpty(j) = NoEntry
  BY Decoded DEF Payload
<1>2. r \in [there : BOOLEAN, payload : Payload, exp : Int] /\ r.payload = j
  BY <1>1 DEF TypeOK
<1>3. db' = [db EXCEPT ![c] = r] /\ UNCHANGED <<scope, now, cmd, late, reply>>
  BY DEF Corrupt
<1> HIDE DEF r
<1>4. Lookup(db', c, now') = NoEntry
  BY <1>1, <1>2, <1>3 DEF Lookup, Answer, Key, TypeOK
<1>5. \A d \in CallId \ {c} : Lookup(db', d, now') = Lookup(db, d, now)
  BY <1>3 DEF Lookup, There, Answer, Key, TypeOK
<1>6. TypeOK'
  BY <1>2, <1>3 DEF TypeOK, Busy
<1> QED BY <1>3, <1>4, <1>5, <1>6, ForgetStep

-----------------------------------------------------------------------------
LEMMA TypeInit == Init => TypeOK
<1> SUFFICES ASSUME Init PROVE TypeOK
  OBVIOUS
<1>1. NoCommand \in Command /\ NoCommand.stage = "idle"
  BY DEF NoCommand, Command, Stages, Payload
<1>2. Absent \in [there : BOOLEAN, payload : Payload, exp : Int]
  BY DEF Absent, Payload
<1> HIDE DEF NoCommand
<1> QED BY <1>1, <1>2 DEF Init, TypeOK, Busy

LEMMA RefineInit == Init => Abstract!Init
<1> SUFFICES ASSUME Init PROVE Abstract!Init
  OBVIOUS
<1>1. ~Absent.there
  BY DEF Absent
<1>2. \A c \in CallId : Lookup(db, c, now) = NoEntry
  BY <1>1 DEF Init, Lookup, There, Key
<1> QED BY <1>2 DEF Init, Abstract!Init, Abstract!Reply, Reply

LEMMA NextStep ==
  ASSUME TypeOK, [Next]_vars
  PROVE  TypeOK' /\ Refined
<1>1. CASE UNCHANGED vars
  BY <1>1, QuietStep DEF vars, TypeOK, Busy
<1>2. \A p \in scope.tasks : p \in Client
  BY RedisVaultAssumption DEF TypeOK
<1>3. CASE \E p \in scope.tasks, c \in CallId, e \in Entry : Send(p, "put", c, e)
  BY <1>2, <1>3, SendStep
<1>4. CASE \E p \in scope.tasks, c \in CallId : \/ PutEmpty(p, c)
                                                \/ Send(p, "peek", c, NoEntry)
                                                \/ Send(p, "pop", c, NoEntry)
  BY <1>2, <1>4, SendStep, PutEmptyStep
<1>5. CASE Network
  BY <1>2, <1>5, ServeStep, DeliverStep, BreakStep, ResendStep, ServeLateStep DEF Network
<1>6. CASE Outside
  BY <1>6, TickStep, FlushStep, CorruptStep DEF Outside
<1> QED BY <1>1, <1>3, <1>4, <1>5, <1>6 DEF Next

\* The commands, keys and clock of the Redis vault keep their types.
THEOREM TypeCorrect == Spec => []TypeOK
BY TypeInit, NextStep, PTL DEF Spec

\* The Redis vault implements the vault contract, however its commands are
\* delayed, repeated or abandoned (vault_redis.py against vault.py).
THEOREM VaultImplemented == Spec => ImplementsVault
<1>1. TypeOK /\ [Next]_vars => [Abstract!Next]_(Abstract!vars)
  BY NextStep DEF Refined
<1> QED BY <1>1, TypeCorrect, RefineInit, PTL DEF Spec, ImplementsVault, Abstract!Spec
-----------------------------------------------------------------------------
(* The round trip.                                                           *)


\* What a read of c's key yields: the entry of the call, or nothing, and
\* nothing only when the entry was taken away.
Heard(c, x) == /\ x \in {NoEntry, call[c].entry}
               /\ c \in gone \/ x = call[c].entry

\* A call that has not begun has left no trace, and one that went on is stored.
Begun(c) == /\ call[c].phase = "new" => /\ call[c].entry = NoEntry
                                        /\ call[c].shown = <<>>
                                        /\ stored[c] = Unstored
            /\ (call[c].phase \in {"forwarded", "asking", "closed"} /\ call[c].entry # NoEntry)
                  => stored[c] # Unstored

\* The key of c holds no other call's entry, and holds c's while it should.
Held(c) == /\ db[c].there => DecodePayloadOrEmpty(db[c].payload) \in {NoEntry, call[c].entry}
           /\ (stored[c] # Unstored /\ c \notin gone)
                 => /\ db[c].there
                    /\ db[c].payload = EncodeEntry(call[c].entry)
                    /\ db[c].exp = stored[c] + scope.ttl
                    /\ now < db[c].exp

\* The command of a call is the one its phase awaits.
Storing(c) == /\ cmd[c].op = "put" /\ cmd[c].cid = c /\ cmd[c].stage # "idle"
              /\ cmd[c].entry = call[c].entry
              /\ (cmd[c].stage \in {"served", "done"} /\ ~cmd[c].error) => stored[c] # Unstored
Asking(c) == /\ cmd[c].op = "peek" /\ cmd[c].cid = c /\ cmd[c].stage # "idle"
             /\ cmd[c].stage = "served" => Heard(c, DecodePayloadOrEmpty(cmd[c].answer))
             /\ cmd[c].result \in {NoEntry, call[c].entry}
             /\ (cmd[c].stage = "done" /\ ~cmd[c].error) => Heard(c, cmd[c].result)
Awaited(c) == /\ call[c].phase = "storing" => Storing(c)
              /\ call[c].phase = "asking" => Asking(c)
              /\ call[c].phase \notin {"storing", "asking"} => ~Busy(c)

\* What the samples shown so far were restored from.
Told(c) == \A i \in DOMAIN call[c].shown :
             /\ call[c].shown[i].by \in {NoEntry, call[c].entry}
             /\ call[c].shown[i].blocked \/ Heard(c, call[c].shown[i].by)

\* A command given up by its task stores the entry of its own call.
LateOwn == \A m \in late : m.op = "put" => /\ m.entry = call[m.cid].entry
                                           /\ call[m.cid].phase # "new"
UtilityPops == \A p \in Utility : Busy(p) => cmd[p].op = "pop"

OfCall(c) == Begun(c) /\ Held(c) /\ Awaited(c) /\ Told(c)
RTInv == RTTypeOK /\ LateOwn /\ UtilityPops /\ \A c \in CallId : OfCall(c)

\* What every step but the beginning of a call leaves of its past.
Later(c) == /\ call'[c].entry = call[c].entry
            /\ c \in gone => c \in gone'
            /\ stored[c] # Unstored => stored'[c] # Unstored
-----------------------------------------------------------------------------
\* What has been heard or told stays true.
LEMMA HeardStays ==
  ASSUME NEW c \in CallId, Later(c), NEW x, Heard(c, x)
  PROVE  Heard(c, x)'
BY DEF Heard, Later

LEMMA ToldStays ==
  ASSUME NEW c \in CallId, Told(c), Later(c), call'[c].shown = call[c].shown
  PROVE  Told(c)'
BY DEF Told, Heard, Later

\* The command of a call that did not move is still the awaited one.
LEMMA AwaitedStays ==
  ASSUME NEW c \in CallId, Awaited(c), Later(c), call'[c].phase = call[c].phase,
         cmd'[c] = cmd[c]
  PROVE  Awaited(c)'
BY DEF Awaited, Storing, Asking, Busy, Heard, Later

LEMMA BegunStays ==
  ASSUME NEW c \in CallId, Begun(c), Later(c), call'[c] = call[c], stored'[c] = stored[c]
  PROVE  Begun(c)'
BY DEF Begun, Later

\* A step of another task or of the outside leaves the call's record alone.
LEMMA OtherStays ==
  ASSUME NEW c \in CallId, OfCall(c), call'[c] = call[c], cmd'[c] = cmd[c],
         stored'[c] = stored[c], c \in gone => c \in gone', Held(c)'
  PROVE  OfCall(c)'
<1>1. Later(c)
  BY DEF Later
<1> QED BY <1>1, ToldStays, AwaitedStays, BegunStays DEF OfCall

\* The key is as it was.
LEMMA HeldStays ==
  ASSUME NEW c \in CallId, Held(c), UNCHANGED <<scope, db, now>>, call'[c].entry = call[c].entry,
         stored'[c] = stored[c], c \in gone => c \in gone'
  PROVE  Held(c)'
BY DEF Held

-----------------------------------------------------------------------------
\* A call's own commands: a put of its entry, or a peek.
LEMMA CallsCommand ==
  ASSUME RTInv, NEW c \in CallId, Busy(c)
  PROVE  \/ Storing(c) /\ call[c].phase = "storing"
         \/ Asking(c) /\ call[c].phase = "asking"
BY DEF RTInv, OfCall, Awaited

LEMMA Tasks == Client = CallId \cup Utility /\ CallId \cap Utility = {}
BY RoundTripAssumption

\* Nothing found: the request passes as it is.
LEMMA PassThroughStep ==
  ASSUME RTInv, NEW c \in CallId, PassThrough(c)
  PROVE  RTInv' /\ Refined
<1>1. /\ call[c].phase = "new" /\ call[c].entry = NoEntry
      /\ call \in [CallId -> CallRecord]
  BY DEF PassThrough, RTInv, RTTypeOK, OfCall, Begun
<1> DEFINE r == [call[c] EXCEPT !.phase = "forwarded"]
<1>2. /\ r \in CallRecord /\ r.entry = call[c].entry /\ r.shown = call[c].shown
      /\ r.phase = "forwarded"
  BY <1>1 DEF CallRecord, Phases
<1>3. /\ call' = [call EXCEPT ![c] = r]
      /\ UNCHANGED <<scope, db, now, cmd, late, reply, stored, gone>>
  BY DEF PassThrough, Move
<1> HIDE DEF r
<1>4. call' \in [CallId -> CallRecord] /\ call'[c] = r
      /\ \A d \in CallId \ {c} : call'[d] = call[d]
  BY <1>1, <1>2, <1>3
<1>5. TypeOK' /\ RTTypeOK'
  BY <1>3, <1>4 DEF RTInv, RTTypeOK, TypeOK, Busy
<1>6. \A d \in CallId : Later(d)
  BY <1>2, <1>3, <1>4 DEF Later
<1>7. \A d \in CallId : Held(d)'
  BY <1>3, <1>6, HeldStays DEF RTInv, OfCall, Later
<1>8. OfCall(c)'
  <2>1. OfCall(c)
    BY DEF RTInv
  <2>2. Begun(c)'
    BY <1>1, <1>2, <1>4 DEF Begun
  <2>3. Awaited(c)'
    BY <1>1, <1>2, <1>3, <1>4, <2>1 DEF OfCall, Awaited, Busy
  <2>4. Told(c)'
    BY <1>2, <1>4, <1>6, <2>1, ToldStays DEF OfCall
  <2> QED BY <1>7, <2>2, <2>3, <2>4 DEF OfCall
<1>9. \A d \in CallId \ {c} : OfCall(d)'
  BY <1>3, <1>4, <1>7, OtherStays DEF RTInv
<1>10. LateOwn' /\ UtilityPops'
  <2>1. \A m \in late : m.cid \in CallId
    BY DEF RTInv, RTTypeOK, TypeOK, Abandoned
  <2> QED BY <1>2, <1>3, <1>4, <2>1 DEF RTInv, LateOwn, UtilityPops, Busy
<1> QED BY <1>3, <1>5, <1>8, <1>9, <1>10, QuietStep DEF RTInv

\* A call sends its put or its peek.
LEMMA CallSends ==
  ASSUME RTInv, NEW c \in CallId, NEW op \in {"put", "peek"}, NEW e \in Entry \cup {NoEntry},
         Send(c, op, c, e),
         NEW r \in CallRecord, call' = [call EXCEPT ![c] = r],
         r.shown = call[c].shown,
         op = "put" => /\ call[c].phase = "new" /\ r.phase = "storing"
                       /\ r.entry = e,
         op = "peek" => call[c].phase = "forwarded" /\ r.phase = "asking" /\ r.entry = call[c].entry,
         UNCHANGED <<stored, gone>>
  PROVE  RTInv' /\ Refined
<1> DEFINE k == [NoCommand EXCEPT !.op = op, !.cid = c, !.entry = e, !.stage = "sent", !.sends = 1]
<1>1. /\ k.op = op /\ k.cid = c /\ k.entry = e /\ k.stage = "sent" /\ k.result = NoEntry
  BY DEF NoCommand
<1>2. /\ cmd' = [cmd EXCEPT ![c] = k]
      /\ UNCHANGED <<scope, db, now, late, reply>>
  BY DEF Send
<1> HIDE DEF k
<1>3. /\ TypeOK /\ cmd \in [Client -> Command] /\ call \in [CallId -> CallRecord]
      /\ c \in Client /\ \A p \in Utility : p \in Client /\ p # c
  BY Tasks DEF RTInv, RTTypeOK, TypeOK
<1>4. TypeOK' /\ Refined
  BY <1>3, SendStep
<1>5. /\ call' \in [CallId -> CallRecord] /\ call'[c] = r
      /\ \A d \in CallId \ {c} : call'[d] = call[d]
      /\ cmd'[c] = k /\ \A p \in Client \ {c} : cmd'[p] = cmd[p]
  BY <1>2, <1>3
<1>6. RTTypeOK'
  BY <1>4, <1>5 DEF RTInv, RTTypeOK
<1>7. OfCall(c)
  BY DEF RTInv
<1>8. \A d \in CallId \ {c} : OfCall(d)'
  <2> SUFFICES ASSUME NEW d \in CallId \ {c} PROVE OfCall(d)'
    OBVIOUS
  <2>1. Held(d)'
    BY <1>2, <1>5, HeldStays DEF RTInv, OfCall
  <2> QED BY <1>3, <1>5, <2>1, Tasks, OtherStays DEF RTInv
<1>9. Begun(c)'
  BY <1>5, <1>7, EntriesNotEmpty DEF OfCall, Begun
<1>10. Awaited(c)'
  BY <1>1, <1>5 DEF Awaited, Storing, Asking
<1>11. Held(c)' /\ Told(c)'
  <2>1. CASE op = "peek"
    <3>1. Later(c)
      BY <1>5, <2>1 DEF Later
    <3> QED BY <1>2, <1>5, <1>7, <2>1, <3>1, HeldStays, ToldStays DEF OfCall
  <2>2. CASE op = "put"
    <3>1. call[c].shown = <<>> /\ stored[c] = Unstored /\ call[c].entry = NoEntry
      BY <1>7, <2>2 DEF OfCall, Begun
    <3>2. Told(c)'
      BY <1>5, <3>1 DEF Told
    <3>3. Held(c)'
      BY <1>2, <1>5, <1>7, <3>1 DEF Held, OfCall
    <3> QED BY <3>2, <3>3
  <2> QED BY <2>1, <2>2
<1>12. LateOwn'
  <2>1. \A m \in late : m.cid \in CallId
    BY <1>3 DEF TypeOK, Abandoned
  <2> QED BY <1>2, <1>5, <2>1 DEF RTInv, LateOwn
<1>13. UtilityPops'
  BY <1>3, <1>5 DEF RTInv, UtilityPops, Busy
<1> QED BY <1>4, <1>6, <1>7, <1>8, <1>9, <1>10, <1>11, <1>12, <1>13 DEF RTInv, OfCall

LEMMA AnonymizeStep ==
  ASSUME RTInv, NEW c \in CallId, NEW e \in Entry, Anonymize(c, e)
  PROVE  RTInv' /\ Refined
<1> DEFINE r == [call[c] EXCEPT !.phase = "storing", !.entry = e]
<1>1. call[c] \in CallRecord
  BY DEF RTInv, RTTypeOK
<1>2. r \in CallRecord /\ r.shown = call[c].shown /\ r.phase = "storing" /\ r.entry = e
  BY <1>1 DEF CallRecord, Phases
<1>3. call' = [call EXCEPT ![c] = r]
  BY DEF Anonymize
<1>4. call[c].phase = "new" /\ Send(c, "put", c, e) /\ UNCHANGED <<stored, gone>>
  BY DEF Anonymize
<1> HIDE DEF r
<1>5. "put" \in {"put", "peek"} /\ "put" # "peek" /\ e \in Entry \cup {NoEntry}
  OBVIOUS
<1> QED BY <1>2, <1>3, <1>4, <1>5, CallSends

LEMMA DeanonymizeStep ==
  ASSUME RTInv, NEW c \in CallId, Deanonymize(c)
  PROVE  RTInv' /\ Refined
<1> DEFINE r == [call[c] EXCEPT !.phase = "asking"]
<1>1. call[c] \in CallRecord
  BY DEF RTInv, RTTypeOK
<1>2. r \in CallRecord /\ r.shown = call[c].shown /\ r.phase = "asking"
      /\ r.entry = call[c].entry
  BY <1>1 DEF CallRecord, Phases
<1>3. call' = [call EXCEPT ![c] = r]
  BY DEF Deanonymize, Move
<1> HIDE DEF r
<1> QED BY <1>2, <1>3, CallSends DEF Deanonymize

\* A call takes the outcome of its command.
LEMMA CallSettles ==
  ASSUME RTInv, NEW c \in CallId, cmd' = [cmd EXCEPT ![c] = NoCommand],
         UNCHANGED <<scope, db, now, late, reply, stored, gone>>,
         NEW r \in CallRecord, call' = [call EXCEPT ![c] = r],
         r.entry = call[c].entry, call[c].phase # "new",
         r.phase \in {"forwarded", "blocked", "closed"},
         (r.phase # "blocked" /\ r.entry # NoEntry) => stored[c] # Unstored,
         \A i \in DOMAIN r.shown : /\ r.shown[i].by \in {NoEntry, call[c].entry}
                                   /\ r.shown[i].blocked \/ Heard(c, r.shown[i].by)
  PROVE  RTInv' /\ Refined
<1>1. /\ TypeOK /\ cmd \in [Client -> Command] /\ call \in [CallId -> CallRecord]
      /\ c \in Client /\ \A p \in Utility : p \in Client /\ p # c
  BY Tasks DEF RTInv, RTTypeOK, TypeOK
<1>2. NoCommand \in Command /\ NoCommand.stage = "idle"
  BY DEF NoCommand, Command, Stages, Payload
<1>3. /\ call' \in [CallId -> CallRecord] /\ call'[c] = r
      /\ \A d \in CallId \ {c} : call'[d] = call[d]
      /\ cmd'[c].stage = "idle" /\ \A p \in Client \ {c} : cmd'[p] = cmd[p]
  BY <1>1, <1>2
<1>4. TypeOK'
  <2>1. cmd' \in [Client -> Command]
    BY <1>1, <1>2
  <2>2. \A p \in Client : Busy(p)' => p # c /\ Busy(p)
    BY <1>3 DEF Busy
  <2> QED BY <1>1, <1>3, <2>1, <2>2 DEF TypeOK
<1>5. RTTypeOK'
  BY <1>3, <1>4 DEF RTInv, RTTypeOK
<1>6. OfCall(c)
  BY DEF RTInv
<1>7. \A d \in CallId \ {c} : OfCall(d)'
  <2> SUFFICES ASSUME NEW d \in CallId \ {c} PROVE OfCall(d)'
    OBVIOUS
  <2>1. Held(d)'
    BY <1>3, HeldStays DEF RTInv, OfCall
  <2> QED BY <1>3, <2>1, Tasks, OtherStays DEF RTInv
<1>8. Begun(c)' /\ Awaited(c)'
  BY <1>3 DEF Begun, Awaited, Busy
<1>9. Held(c)'
  BY <1>3, <1>6, HeldStays DEF OfCall
<1>10. Told(c)'
  BY <1>3 DEF Told, Heard
<1>11. LateOwn'
  <2>1. \A m \in late : m.cid \in CallId
    BY <1>1 DEF TypeOK, Abandoned
  <2> QED BY <1>3, <2>1 DEF RTInv, LateOwn
<1>12. UtilityPops'
  BY <1>1, <1>3 DEF RTInv, UtilityPops, Busy
<1>13. Refined
  BY QuietStep
<1> QED BY <1>5, <1>7, <1>8, <1>9, <1>10, <1>11, <1>12, <1>13 DEF RTInv, OfCall

LEMMA AnswerRequestStep ==
  ASSUME RTInv, NEW c \in CallId, AnswerRequest(c)
  PROVE  RTInv' /\ Refined
<1> DEFINE r == [call[c] EXCEPT !.phase = IF cmd[c].error THEN "blocked" ELSE "forwarded"]
<1>1. call[c] \in CallRecord /\ Told(c) /\ Storing(c) /\ cmd[c].stage = "done"
      /\ call[c].phase = "storing"
  BY DEF RTInv, RTTypeOK, OfCall, Awaited, AnswerRequest
<1>2. r \in CallRecord /\ r.entry = call[c].entry /\ r.shown = call[c].shown
      /\ r.phase \in {"blocked", "forwarded"} /\ (r.phase # "blocked" => ~cmd[c].error)
  BY <1>1 DEF CallRecord, Phases
<1>3. /\ call' = [call EXCEPT ![c] = r]
      /\ cmd' = [cmd EXCEPT ![c] = NoCommand]
      /\ UNCHANGED <<scope, db, now, late, reply, stored, gone>>
  BY DEF AnswerRequest, Move
<1> HIDE DEF r
<1>4. r.phase # "blocked" => stored[c] # Unstored
  BY <1>1, <1>2 DEF Storing
<1>5. \A i \in DOMAIN r.shown : /\ r.shown[i].by \in {NoEntry, call[c].entry}
                                /\ r.shown[i].blocked \/ Heard(c, r.shown[i].by)
  BY <1>1, <1>2 DEF Told
<1> QED BY <1>1, <1>2, <1>3, <1>4, <1>5, CallSettles

LEMMA AnswerResponseStep ==
  ASSUME RTInv, NEW c \in CallId, AnswerResponse(c)
  PROVE  RTInv' /\ Refined
<1> DEFINE x == [blocked |-> cmd[c].error, by |-> cmd[c].result]
           r == [call[c] EXCEPT !.phase = IF cmd[c].error THEN "closed" ELSE "forwarded",
                                !.shown = Append(@, x)]
<1>1. call[c] \in CallRecord /\ Told(c) /\ Asking(c) /\ cmd[c].stage = "done"
      /\ call[c].phase = "asking" /\ Begun(c)
  BY DEF RTInv, RTTypeOK, OfCall, Awaited, AnswerResponse
<1>2. cmd[c] \in Command
  BY Tasks DEF RTInv, RTTypeOK, TypeOK
<1>3. x \in Sample /\ x.by \in {NoEntry, call[c].entry} /\ (x.blocked \/ Heard(c, x.by))
  BY <1>1, <1>2 DEF Sample, Command, Asking
<1> HIDE DEF x
<1>4. call[c].shown \in Seq(Sample)
  BY <1>1 DEF CallRecord
<1>5. r \in CallRecord /\ r.entry = call[c].entry /\ r.shown = Append(call[c].shown, x)
      /\ r.phase \in {"closed", "forwarded"}
  <2>1. Append(call[c].shown, x) \in Seq(Sample)
    BY <1>3, <1>4
  <2>2. (IF cmd[c].error THEN "closed" ELSE "forwarded") \in {"closed", "forwarded"}
    OBVIOUS
  <2> QED BY <1>1, <2>1, <2>2 DEF CallRecord, Phases
<1>6. /\ call' = [call EXCEPT ![c] = r]
      /\ cmd' = [cmd EXCEPT ![c] = NoCommand]
      /\ UNCHANGED <<scope, db, now, late, reply, stored, gone>>
  BY DEF AnswerResponse, x
<1> HIDE DEF r
<1>7. r.entry # NoEntry => stored[c] # Unstored
  BY <1>1, <1>5 DEF Begun
<1>8. \A i \in DOMAIN r.shown : r.shown[i] = x \/ (i \in DOMAIN call[c].shown /\ r.shown[i] = call[c].shown[i])
  BY <1>3, <1>4, <1>5
<1>9. \A i \in DOMAIN r.shown : /\ r.shown[i].by \in {NoEntry, call[c].entry}
                                /\ r.shown[i].blocked \/ Heard(c, r.shown[i].by)
  BY <1>1, <1>3, <1>8 DEF Told
<1> QED BY <1>1, <1>5, <1>6, <1>7, <1>9, CallSettles

-----------------------------------------------------------------------------
\* What the server executes, from a task or late, keeps the keys right.
LEMMA ServerExecutes ==
  ASSUME RTInv, NEW op, NEW c \in CallId, NEW e,
         op = "put" => e \in Entry /\ e = call[c].entry /\ call[c].phase # "new",
         op = "pop" => c \in gone',
         Execute(op, c, e), UNCHANGED <<scope, now, call>>,
         stored' = IF op = "put" /\ scope.ttl >= 1 THEN [stored EXCEPT ![c] = now] ELSE stored,
         gone' \in {gone, gone \cup {c}}
  PROVE  /\ stored' \in [CallId -> Nat \cup {Unstored}] /\ gone' \subseteq CallId
         /\ \A d \in CallId : Held(d)' /\ Begun(d)' /\ Later(d)
<1> USE DEF Key
<1>1. /\ stored \in [CallId -> Nat \cup {Unstored}] /\ now \in Nat /\ scope.ttl \in Int
      /\ db \in [CallId -> [there : BOOLEAN, payload : Payload, exp : Int]]
      /\ \A d \in CallId : Held(d) /\ Begun(d)
      /\ gone \subseteq CallId
  BY RedisVaultAssumption DEF RTInv, RTTypeOK, TypeOK, OfCall
<1>2. stored' \in [CallId -> Nat \cup {Unstored}] /\ gone' \subseteq CallId
  BY <1>1
<1>3. now # Unstored
  BY <1>1 DEF Unstored
<1>4. \A d \in CallId : Later(d)
  BY <1>1, <1>3 DEF Later
<1>5. \A d \in CallId : Begun(d)'
  BY <1>1, <1>3 DEF Begun
<1>6. CASE op = "put" /\ Set(c, e)
  <2> DEFINE r == [there |-> TRUE, payload |-> EncodeEntry(e), exp |-> now + scope.ttl]
  <2>1. /\ r.there /\ r.payload = EncodeEntry(e) /\ r.exp = now + scope.ttl
        /\ DecodePayloadOrEmpty(r.payload) = call[c].entry /\ now < r.exp
    BY <1>1, <1>6, Decoded DEF Set
  <2>2. db' = [db EXCEPT ![c] = r] /\ stored' = [stored EXCEPT ![c] = now]
    BY <1>6 DEF Set
  <2> HIDE DEF r
  <2>3. db'[c] = r /\ stored'[c] = now /\ \A d \in CallId \ {c} : db'[d] = db[d] /\ stored'[d] = stored[d]
    BY <1>1, <2>2
  <2>4. Held(c)'
    BY <1>6, <2>1, <2>3 DEF Held
  <2>5. \A d \in CallId \ {c} : Held(d)'
    BY <1>1, <2>3 DEF Held
  <2> QED BY <1>2, <1>4, <1>5, <2>4, <2>5
<1>7. CASE UNCHANGED db /\ stored' = stored
  BY <1>1, <1>2, <1>4, <1>5, <1>7 DEF Held
<1>8. CASE op = "pop" /\ GetDel(c)
  <2>1. db'[c] = Absent /\ ~Absent.there /\ \A d \in CallId \ {c} : db'[d] = db[d]
    BY <1>1, <1>8 DEF GetDel, Absent
  <2>2. Held(c)' /\ stored' = stored
    BY <1>8, <2>1 DEF Held
  <2>3. \A d \in CallId \ {c} : Held(d)'
    BY <1>1, <2>1, <2>2 DEF Held
  <2> QED BY <1>2, <1>4, <1>5, <2>2, <2>3
<1>9. \/ op = "put" /\ Set(c, e)
      \/ UNCHANGED db /\ stored' = stored
      \/ op = "pop" /\ GetDel(c)
  <2>1. CASE op = "put" /\ SetRejected
    <3>1. ~(scope.ttl >= 1) /\ UNCHANGED db
      BY <1>1, <2>1 DEF SetRejected
    <3> QED BY <3>1
  <2>2. CASE op = "peek" /\ GetKey(c)
    BY <2>2 DEF GetKey
  <2> QED BY <2>1, <2>2 DEF Execute
<1> QED BY <1>6, <1>7, <1>8, <1>9

\* What a call's read finds.
LEMMA Reads ==
  ASSUME RTInv, NEW c \in CallId, call[c].phase = "asking"
  PROVE  Heard(c, DecodePayloadOrEmpty(Answer(db, c, now)))
<1>1. Held(c) /\ Begun(c) /\ call[c].entry \in Entry \cup {NoEntry}
  BY DEF RTInv, OfCall, RTTypeOK, CallRecord
<1>2. CASE c \in gone \/ call[c].entry = NoEntry
  BY <1>1, <1>2, Decoded DEF Held, Heard, Answer, There, Key
<1>3. CASE c \notin gone /\ call[c].entry # NoEntry
  <2>1. stored[c] # Unstored
    BY <1>1, <1>3 DEF Begun
  <2>2. There(db[c], now) /\ db[c].payload = EncodeEntry(call[c].entry)
    BY <1>1, <1>3, <2>1 DEF Held, There
  <2> QED BY <1>1, <1>3, <2>2, Decoded DEF Heard, Answer, Key
<1> QED BY <1>2, <1>3

-----------------------------------------------------------------------------
\* A step of the network at one task, after which its command is k.
LEMMA TaskStep ==
  ASSUME RTInv, NEW p \in Client, NEW k, cmd' = [cmd EXCEPT ![p] = k], TypeOK',
         UNCHANGED <<scope, call>>,
         stored' \in [CallId -> Nat \cup {Unstored}], gone' \subseteq CallId,
         \A d \in CallId : Held(d)' /\ Begun(d)' /\ Later(d),
         p \in CallId => Awaited(p)',
         p \in Utility => k.op = "pop" \/ ~Busy(p)',
         LateOwn'
  PROVE  RTInv'
<1>1. /\ cmd \in [Client -> Command] /\ call \in [CallId -> CallRecord]
  BY DEF RTInv, RTTypeOK, TypeOK
<1>2. cmd'[p] = k /\ \A q \in Client \ {p} : cmd'[q] = cmd[q]
  BY <1>1
<1>3. RTTypeOK'
  BY DEF RTInv, RTTypeOK
<1>4. UtilityPops'
  BY <1>2, Tasks DEF RTInv, UtilityPops, Busy
<1>5. \A d \in CallId : OfCall(d)'
  <2> SUFFICES ASSUME NEW d \in CallId PROVE Told(d)' /\ Awaited(d)'
    BY DEF OfCall
  <2>1. OfCall(d) /\ Later(d) /\ call'[d] = call[d]
    BY DEF RTInv
  <2>2. Told(d)'
    BY <2>1, ToldStays DEF OfCall
  <2>3. Awaited(d)'
    BY <1>2, <2>1, Tasks, AwaitedStays DEF OfCall
  <2> QED BY <2>2, <2>3
<1> QED BY <1>3, <1>4, <1>5 DEF RTInv

\* The server executes a task's command.
LEMMA RTServeStep ==
  ASSUME RTInv, NEW p \in Client, RTServe(p)
  PROVE  RTInv' /\ Refined
<1> DEFINE op == cmd[p].op
           c == cmd[p].cid
           a == IF op = "put" THEN NotJson ELSE Answer(db, c, now)
           err == (op = "put" /\ scope.ttl < 1)
           k == [cmd[p] EXCEPT !.stage = "served", !.answer = a, !.error = err]
<1>1. /\ TypeOK /\ Busy(p) /\ cmd[p] \in Command /\ c \in CallId
      /\ scope.ttl \in Int /\ now \in Nat /\ stored \in [CallId -> Nat \cup {Unstored}]
  BY RedisVaultAssumption DEF RTInv, RTTypeOK, TypeOK, RTServe, Serve, Busy
<1>2. TypeOK' /\ Refined
  BY <1>1, ServeStep DEF RTServe
<1>3. /\ cmd' = [cmd EXCEPT ![p] = k] /\ UNCHANGED <<scope, now, late, call>>
      /\ Execute(op, c, cmd[p].entry) /\ Executed(op, c, p)
  BY DEF RTServe, Serve
<1>4. /\ k.stage = "served" /\ k.op = op /\ k.cid = c /\ k.entry = cmd[p].entry
      /\ k.answer = a /\ k.result = cmd[p].result
      /\ (~k.error => op # "put" \/ scope.ttl >= 1)
  <2>1. ~err => op # "put" \/ scope.ttl >= 1
    BY <1>1
  <2> HIDE DEF err, a
  <2> QED BY <1>1, <2>1 DEF Command
<1>5. /\ stored' = IF op = "put" /\ scope.ttl >= 1 THEN [stored EXCEPT ![c] = now] ELSE stored
      /\ gone' = IF op = "pop" /\ p \in Utility THEN gone \cup {c} ELSE gone
  BY <1>3 DEF Executed
<1> HIDE DEF k
<1>6. p \in CallId => \/ Storing(p) /\ call[p].phase = "storing"
                      \/ Asking(p) /\ call[p].phase = "asking"
  BY <1>1, CallsCommand
<1>7. p \in Utility => op = "pop"
  BY <1>1 DEF RTInv, UtilityPops
<1>8. op = "put" => cmd[p].entry \in Entry /\ cmd[p].entry = call[c].entry /\ call[c].phase # "new"
  BY <1>1, <1>6, <1>7, Tasks DEF TypeOK, Storing, Asking
<1>9. op = "pop" => c \in gone'
  BY <1>5, <1>6, Tasks DEF Storing, Asking
<1>10. gone' \in {gone, gone \cup {c}}
  BY <1>5
<1>11. /\ stored' \in [CallId -> Nat \cup {Unstored}] /\ gone' \subseteq CallId
       /\ \A d \in CallId : Held(d)' /\ Begun(d)' /\ Later(d)
  <2> HIDE DEF op, c
  <2> QED BY <1>1, <1>3, <1>5, <1>8, <1>9, <1>10, ServerExecutes
<1>12. LateOwn'
  <2>1. \A m \in late : m.cid \in CallId
    BY <1>1 DEF TypeOK, Abandoned
  <2> QED BY <1>3, <2>1 DEF RTInv, LateOwn
<1>13. ASSUME p \in CallId PROVE Awaited(p)'
  <2>1. cmd'[p] = k /\ call'[p] = call[p] /\ Later(p)
    BY <1>1, <1>3, <1>11, <1>13 DEF TypeOK
  <2>2. CASE Storing(p) /\ call[p].phase = "storing"
    <3>1. ~k.error => stored'[p] # Unstored
      BY <1>1, <1>4, <1>5, <1>13, <2>2 DEF Storing, Unstored
    <3> QED BY <1>4, <2>1, <2>2, <3>1 DEF Awaited, Storing
  <2>3. CASE Asking(p) /\ call[p].phase = "asking"
    <3>1. c = p /\ a = Answer(db, p, now)
      BY <2>3 DEF Asking
    <3>2. Heard(p, DecodePayloadOrEmpty(a))
      BY <1>13, <2>3, <3>1, Reads
    <3>3. cmd'[p].answer = a
      BY <1>4, <2>1
    <3> HIDE DEF a
    <3>4. Heard(p, DecodePayloadOrEmpty(cmd[p].answer))'
      BY <2>1, <3>2, <3>3 DEF Heard, Later
    <3>5. Asking(p)'
      BY <1>4, <2>1, <2>3, <3>1, <3>4 DEF Asking
    <3> QED BY <2>1, <2>3, <3>5 DEF Awaited
  <2> QED BY <1>6, <1>13, <2>2, <2>3
<1>14. p \in Utility => k.op = "pop"
  BY <1>4, <1>7
<1> HIDE DEF op, c, a
<1> QED BY <1>2, <1>3, <1>11, <1>12, <1>13, <1>14, TaskStep

\* Deliver, Break and Resend: only the command of the task changes.
LEMMA WireStep ==
  ASSUME RTInv, NEW p \in Client, NEW k, cmd' = [cmd EXCEPT ![p] = k], TypeOK',
         UNCHANGED <<scope, db, now, call, stored, gone>>,
         p \in CallId => Awaited(p)',
         p \in Utility => k.op = "pop" \/ ~Busy(p)',
         late' = late \/ (Abandon(cmd[p]) /\ Busy(p))
  PROVE  RTInv'
<1>1. \A d \in CallId : Held(d)' /\ Begun(d)' /\ Later(d)
  <2> SUFFICES ASSUME NEW d \in CallId PROVE Held(d)' /\ Begun(d)' /\ Later(d)
    OBVIOUS
  <2>1. OfCall(d) /\ Later(d)
    BY DEF RTInv, Later
  <2> QED BY <2>1, HeldStays, BegunStays DEF OfCall
<1>2. LateOwn'
  <2>1. ASSUME NEW m \in late', m.op = "put"
        PROVE  m.entry = call[m.cid].entry /\ call[m.cid].phase # "new"
    <3>1. CASE m \in late
      BY <2>1, <3>1 DEF RTInv, LateOwn
    <3>2. CASE m \notin late
      <4>1. /\ Busy(p) /\ m.op = cmd[p].op /\ m.cid = cmd[p].cid /\ m.entry = cmd[p].entry
        BY <3>2 DEF Abandon
      <4>2. p \in CallId
        BY <2>1, <4>1, Tasks DEF RTInv, UtilityPops
      <4>3. Storing(p) /\ call[p].phase = "storing"
        BY <2>1, <4>1, <4>2, CallsCommand DEF Asking
      <4> QED BY <4>1, <4>3 DEF Storing
    <3> QED BY <3>1, <3>2
  <2> QED BY <2>1 DEF LateOwn
<1>3. stored' \in [CallId -> Nat \cup {Unstored}] /\ gone' \subseteq CallId
  BY DEF RTInv, RTTypeOK
<1> QED BY <1>1, <1>2, <1>3, TaskStep

LEMMA ConnectionStep ==
  ASSUME RTInv, NEW p \in Client, Connection(p)
  PROVE  RTInv' /\ Refined
<1>1. /\ TypeOK /\ cmd[p] \in Command /\ cmd \in [Client -> Command] /\ Busy(p)
      /\ p \in Utility => cmd[p].op = "pop"
  BY DEF RTInv, RTTypeOK, TypeOK, UtilityPops, Connection, Deliver, Break, Resend, Busy
<1>2. /\ p \in CallId => \/ Storing(p) /\ call[p].phase = "storing"
                         \/ Asking(p) /\ call[p].phase = "asking"
  BY <1>1, CallsCommand
<1>3. CASE Deliver(p)
  <2> DEFINE x == IF cmd[p].op = "put" THEN NoEntry ELSE DecodePayloadOrEmpty(cmd[p].answer)
             k == [cmd[p] EXCEPT !.stage = "done", !.result = x]
  <2>1. /\ k.stage = "done" /\ k.op = cmd[p].op /\ k.cid = cmd[p].cid /\ k.result = x
        /\ k.entry = cmd[p].entry /\ k.error = cmd[p].error
    BY <1>1 DEF Command
  <2>2. /\ cmd' = [cmd EXCEPT ![p] = k] /\ UNCHANGED <<scope, db, now, call, stored, gone>>
        /\ late' = late /\ cmd[p].stage = "served"
    BY <1>3 DEF Connection, Deliver
  <2>3. TypeOK' /\ Refined
    BY <1>1, <1>3, DeliverStep
  <2> HIDE DEF k
  <2>4. cmd'[p] = k
    BY <1>1, <2>2
  <2>5. ASSUME Storing(p), call[p].phase = "storing" PROVE Awaited(p)'
    BY <2>1, <2>2, <2>4, <2>5 DEF Awaited, Storing
  <2>6. ASSUME Asking(p), call[p].phase = "asking" PROVE Awaited(p)'
    <3>1. Heard(p, x)
      BY <2>2, <2>6 DEF Asking
    <3> HIDE DEF x
    <3> QED BY <2>1, <2>2, <2>4, <2>6, <3>1 DEF Awaited, Asking, Heard
  <2>7. k.op = "pop" \/ ~Busy(p)'
    BY <2>1, <2>4 DEF Busy
  <2>8. p \in CallId => Awaited(p)'
    BY <1>2, <2>5, <2>6
  <2> HIDE DEF x
  <2> QED BY <2>2, <2>3, <2>7, <2>8, WireStep
<1>4. CASE Break(p)
  <2> DEFINE k == [cmd[p] EXCEPT !.stage = "done", !.error = TRUE]
  <2>1. /\ k.stage = "done" /\ k.op = cmd[p].op /\ k.cid = cmd[p].cid /\ k.error
        /\ k.entry = cmd[p].entry /\ k.result = cmd[p].result
    BY <1>1 DEF Command
  <2>2. /\ cmd' = [cmd EXCEPT ![p] = k] /\ UNCHANGED <<scope, db, now, call, stored, gone>>
        /\ late' = late \/ Abandon(cmd[p])
    BY <1>4 DEF Connection, Break
  <2>3. TypeOK' /\ Refined
    BY <1>1, <1>4, BreakStep
  <2> HIDE DEF k
  <2>4. cmd'[p] = k
    BY <1>1, <2>2
  <2>5. ASSUME Storing(p), call[p].phase = "storing" PROVE Awaited(p)'
    BY <2>1, <2>2, <2>4, <2>5 DEF Awaited, Storing
  <2>6. ASSUME Asking(p), call[p].phase = "asking" PROVE Awaited(p)'
    BY <2>1, <2>2, <2>4, <2>6 DEF Awaited, Asking
  <2>7. k.op = "pop" \/ ~Busy(p)'
    BY <2>1, <2>4 DEF Busy
  <2> QED BY <1>1, <1>2, <2>2, <2>3, <2>5, <2>6, <2>7, WireStep
<1>5. CASE Resend(p)
  <2> DEFINE k == [cmd[p] EXCEPT !.stage = "sent", !.sends = @ + 1]
  <2>1. /\ k.stage = "sent" /\ k.op = cmd[p].op /\ k.cid = cmd[p].cid
        /\ k.entry = cmd[p].entry /\ k.result = cmd[p].result
    BY <1>1 DEF Command
  <2>2. /\ cmd' = [cmd EXCEPT ![p] = k] /\ UNCHANGED <<scope, db, now, call, stored, gone>>
        /\ late' = late \/ Abandon(cmd[p])
    BY <1>5 DEF Connection, Resend
  <2>3. TypeOK' /\ Refined
    BY <1>1, <1>5, ResendStep
  <2> HIDE DEF k
  <2>4. cmd'[p] = k
    BY <1>1, <2>2
  <2>5. ASSUME Storing(p), call[p].phase = "storing" PROVE Awaited(p)'
    BY <2>1, <2>2, <2>4, <2>5 DEF Awaited, Storing
  <2>6. ASSUME Asking(p), call[p].phase = "asking" PROVE Awaited(p)'
    BY <2>1, <2>2, <2>4, <2>6 DEF Awaited, Asking
  <2>7. p \in Utility => k.op = "pop"
    BY <1>1, <2>1
  <2> QED BY <1>1, <1>2, <2>2, <2>3, <2>5, <2>6, <2>7, WireStep
<1> QED BY <1>3, <1>4, <1>5 DEF Connection

LEMMA PopUtilityStep ==
  ASSUME RTInv, NEW p \in Utility, NEW c \in CallId, PopUtility(p, c)
  PROVE  RTInv' /\ Refined
<1> DEFINE k == [NoCommand EXCEPT !.op = "pop", !.cid = c, !.entry = NoEntry, !.stage = "sent",
                                  !.sends = 1]
<1>1. k.op = "pop"
  BY DEF NoCommand
<1>2. /\ cmd' = [cmd EXCEPT ![p] = k]
      /\ UNCHANGED <<scope, db, now, call, stored, gone>>
      /\ late' = late
      /\ Send(p, "pop", c, NoEntry)
  BY DEF PopUtility, Send
<1> HIDE DEF k
<1>3. p \in Client /\ p \notin CallId /\ TypeOK
  BY Tasks DEF RTInv, RTTypeOK
<1>4. TypeOK' /\ Refined
  BY <1>2, <1>3, SendStep
<1> QED BY <1>1, <1>2, <1>3, <1>4, WireStep

-----------------------------------------------------------------------------
\* A step that no task takes part in.
LEMMA OutsideStep ==
  ASSUME RTInv, TypeOK', UNCHANGED <<cmd, call>>,
         late' \subseteq late, gone' \subseteq CallId,
         stored' \in [CallId -> Nat \cup {Unstored}],
         \A d \in CallId : Held(d)' /\ Begun(d)' /\ Later(d)
  PROVE  RTInv'
<1>1. RTTypeOK' /\ UtilityPops'
  BY DEF RTInv, RTTypeOK, UtilityPops, Busy
<1>2. \A d \in CallId : OfCall(d)'
  BY ToldStays, AwaitedStays DEF RTInv, OfCall
<1>3. LateOwn'
  <2>1. ASSUME NEW m \in late', m.op = "put"
        PROVE  m.entry = call[m.cid].entry /\ call[m.cid].phase # "new"
    BY <2>1 DEF RTInv, LateOwn
  <2> QED BY <2>1 DEF LateOwn
<1> QED BY <1>1, <1>2, <1>3 DEF RTInv

LEMMA RTServeLateStep ==
  ASSUME RTInv, NEW m \in late, RTServeLate(m)
  PROVE  RTInv' /\ Refined
<1>1. /\ TypeOK /\ m.cid \in CallId
      /\ m.op = "put" => m.entry \in Entry /\ m.entry = call[m.cid].entry /\ call[m.cid].phase # "new"
  BY DEF RTInv, RTTypeOK, TypeOK, Abandoned, LateOwn
<1>2. TypeOK' /\ Refined
  BY <1>1, ServeLateStep DEF RTServeLate
<1>3. /\ Execute(m.op, m.cid, m.entry) /\ UNCHANGED <<scope, now, cmd, call>>
      /\ late' = late \ {m}
      /\ stored' = IF m.op = "put" /\ scope.ttl >= 1 THEN [stored EXCEPT ![m.cid] = now] ELSE stored
      /\ gone' = IF m.op = "pop" THEN gone \cup {m.cid} ELSE gone
  BY DEF RTServeLate, ServeLate
<1>4. /\ stored' \in [CallId -> Nat \cup {Unstored}] /\ gone' \subseteq CallId
      /\ \A d \in CallId : Held(d)' /\ Begun(d)' /\ Later(d)
  BY <1>1, <1>3, ServerExecutes
<1> QED BY <1>2, <1>3, <1>4, OutsideStep

LEMMA RTTickStep ==
  ASSUME RTInv, RTTick
  PROVE  RTInv' /\ Refined
<1>1. /\ now \in Nat /\ now' = now + 1 /\ UNCHANGED <<scope, db, cmd, late, call, stored>>
      /\ gone' = gone \cup {c \in CallId : stored[c] # Unstored /\ now' >= stored[c] + scope.ttl}
      /\ gone \subseteq CallId /\ scope.ttl \in Int
      /\ stored \in [CallId -> Nat \cup {Unstored}]
  BY RedisVaultAssumption DEF RTInv, RTTypeOK, TypeOK, RTTick, Tick
<1>2. TypeOK' /\ Refined
  BY TickStep DEF RTTick, RTInv, RTTypeOK
<1>3. ASSUME NEW d \in CallId PROVE Held(d)' /\ Begun(d)' /\ Later(d)
  <2>1. Held(d) /\ Begun(d) /\ Later(d)
    BY <1>1 DEF RTInv, OfCall, Later
  <2>2. Begun(d)'
    BY <1>1, <2>1, BegunStays
  <2>3. stored[d] \in Int \/ stored[d] = Unstored
    BY <1>1
  <2>4. (stored[d] # Unstored /\ d \notin gone') => d \notin gone /\ now' < stored[d] + scope.ttl
    BY <1>1, <2>3
  <2>5. Held(d)'
    BY <1>1, <2>1, <2>4 DEF Held
  <2> QED BY <2>1, <2>2, <2>5
<1> QED BY <1>1, <1>2, <1>3, OutsideStep

\* An outsider takes entries away: their calls' records are the only ones that
\* notice.
LEMMA TakenStep ==
  ASSUME RTInv, TypeOK', UNCHANGED <<scope, now, cmd, late, call, stored>>,
         gone \subseteq gone', gone' \subseteq CallId,
         \A d \in CallId : \/ db'[d] = db[d]
                           \/ /\ d \in gone'
                              /\ db'[d].there => DecodePayloadOrEmpty(db'[d].payload) = NoEntry
  PROVE  RTInv'
<1>1. stored \in [CallId -> Nat \cup {Unstored}]
  BY DEF RTInv, RTTypeOK
<1>2. ASSUME NEW d \in CallId PROVE Held(d)' /\ Begun(d)' /\ Later(d)
  <2>1. Held(d) /\ Begun(d) /\ Later(d)
    BY DEF RTInv, OfCall, Later
  <2>2. Begun(d)'
    BY <2>1, BegunStays
  <2>3. Held(d)'
    BY <2>1 DEF Held
  <2> QED BY <2>1, <2>2, <2>3
<1> QED BY <1>1, <1>2, OutsideStep

LEMMA RTFlushStep ==
  ASSUME RTInv, RTFlush
  PROVE  RTInv' /\ Refined
<1>1. TypeOK' /\ Refined
  BY FlushStep DEF RTFlush, RTInv, RTTypeOK
<1>2. /\ UNCHANGED <<scope, now, cmd, late, call, stored>>
      /\ gone' = CallId /\ gone \subseteq CallId
      /\ db' = [c \in CallId |-> Absent] /\ ~Absent.there
  BY DEF RTFlush, Flush, Absent, RTInv, RTTypeOK
<1> QED BY <1>1, <1>2, TakenStep

LEMMA RTCorruptStep ==
  ASSUME RTInv, NEW c \in CallId, NEW j \in Junk, RTCorrupt(c, j)
  PROVE  RTInv' /\ Refined
<1>1. TypeOK' /\ Refined
  BY CorruptStep DEF RTCorrupt, RTInv, RTTypeOK
<1> DEFINE r == [db[c] EXCEPT !.payload = j]
<1>2. /\ UNCHANGED <<scope, now, cmd, late, call, stored>>
      /\ gone' = gone \cup {c} /\ gone \subseteq CallId
      /\ db' = [db EXCEPT ![c] = r]
      /\ db \in [CallId -> [there : BOOLEAN, payload : Payload, exp : Int]]
  BY DEF RTCorrupt, Corrupt, RTInv, RTTypeOK, TypeOK
<1>3. DecodePayloadOrEmpty(r.payload) = NoEntry
  <2>1. r.payload = j
    BY <1>2
  <2> QED BY <2>1, Decoded
<1> HIDE DEF r
<1>4. db'[c] = r /\ \A d \in CallId \ {c} : db'[d] = db[d]
  BY <1>2
<1> QED BY <1>1, <1>2, <1>3, <1>4, TakenStep
-----------------------------------------------------------------------------
LEMMA RTInvInit == RTInit => RTInv
<1> SUFFICES ASSUME RTInit PROVE RTInv
  OBVIOUS
<1>1. TypeOK
  BY TypeInit DEF RTInit
<1>2. NoCommand.stage = "idle" /\ ~Absent.there
  BY DEF NoCommand, Absent
<1>3. /\ late = {} /\ cmd = [p \in Client |-> NoCommand] /\ db = [c \in CallId |-> Absent]
      /\ stored = [c \in CallId |-> Unstored] /\ gone = {}
      /\ call = [c \in CallId |-> [phase |-> "new", entry |-> NoEntry, shown |-> <<>>]]
  BY DEF RTInit, Init
<1>4. RTTypeOK
  BY <1>1, <1>3 DEF RTTypeOK, CallRecord, Phases
<1>5. UtilityPops
  BY <1>2, <1>3, Tasks DEF UtilityPops, Busy
<1>6. ASSUME NEW c \in CallId PROVE OfCall(c)
  <2>1. Begun(c) /\ Told(c)
    BY <1>3 DEF Begun, Told
  <2>2. Held(c)
    BY <1>2, <1>3 DEF Held
  <2>3. Awaited(c)
    BY <1>2, <1>3, Tasks DEF Awaited, Busy
  <2> QED BY <2>1, <2>2, <2>3 DEF OfCall
<1> QED BY <1>3, <1>4, <1>5, <1>6 DEF RTInv, LateOwn

LEMMA RTNextStep ==
  ASSUME RTInv, [RTNext]_rtvars
  PROVE  RTInv' /\ Refined
<1>1. \A p \in scope.tasks : p \in Client
  BY RedisVaultAssumption DEF RTInv, RTTypeOK, TypeOK
<1>2. CASE UNCHANGED rtvars
  <2>1. UNCHANGED <<scope, db, now, cmd, late, reply, call, stored, gone>>
    BY <1>2 DEF rtvars
  <2>2. TypeOK'
    BY <2>1 DEF RTInv, RTTypeOK, TypeOK, Busy
  <2>3. RTInv'
    <3>1. gone \subseteq CallId
      BY DEF RTInv, RTTypeOK
    <3> QED BY <2>1, <2>2, <3>1, TakenStep
  <2> QED BY <2>1, <2>3, QuietStep
<1>3. CASE \E c \in CallId \cap scope.tasks :
              \/ PassThrough(c) \/ AnswerRequest(c)
              \/ Deanonymize(c) \/ AnswerResponse(c)
              \/ \E e \in Made[c] : Anonymize(c, e)
  <2>1. PICK c \in CallId : \/ PassThrough(c) \/ AnswerRequest(c)
                            \/ Deanonymize(c) \/ AnswerResponse(c)
                            \/ \E e \in Entry : Anonymize(c, e)
    BY <1>3, RoundTripAssumption
  <2> QED BY <2>1, PassThroughStep, AnswerRequestStep, DeanonymizeStep, AnswerResponseStep,
             AnonymizeStep
<1>4. CASE \E p \in Utility \cap scope.tasks, c \in CallId \cap scope.tasks : PopUtility(p, c)
  BY <1>4, PopUtilityStep
<1>5. CASE \E p \in scope.tasks : RTServe(p) \/ Connection(p)
  BY <1>1, <1>5, RTServeStep, ConnectionStep
<1>6. CASE (\E m \in late : RTServeLate(m)) \/ RTTick \/ RTFlush
  BY <1>6, RTServeLateStep, RTTickStep, RTFlushStep
<1>7. CASE \E c \in CallId, j \in Junk : RTCorrupt(c, j)
  BY <1>7, RTCorruptStep
<1> QED BY <1>2, <1>3, <1>4, <1>5, <1>6, <1>7 DEF RTNext

\* The inductive invariant the promises of a reply follow from.
THEOREM RTInvariant == RTSpec => []RTInv
BY RTInvInit, RTNextStep, PTL DEF RTSpec

\* Calls, stored moments and the calls whose entry is gone keep their types.
THEOREM RTTypeCorrect == RTSpec => []RTTypeOK
BY RTInvariant, PTL DEF RTInv

\* A request whose text carries surrogates goes on only when its entry is stored.
THEOREM StoredFirst == RTSpec => []ForwardedIsStored
<1>1. RTInv => ForwardedIsStored
  BY DEF RTInv, OfCall, Begun, ForwardedIsStored
<1> QED BY <1>1, RTInvariant, PTL

\* Whatever is restored is restored from the entry of the same call's request.
THEOREM OwnEntry == RTSpec => []RestoredByOwnEntry
<1>1. IsEmpty(NoEntry)
  BY DEF IsEmpty, NoEntry
<1>2. RTInv => RestoredByOwnEntry
  BY <1>1 DEF RTInv, OfCall, Told, RestoredByOwnEntry
<1> QED BY <1>2, RTInvariant, PTL

\* A sample is shown with its surrogates only when the entry was taken away.
THEOREM NothingRawWithoutCause == RTSpec => []RawForCause
<1>1. \A e \in Entry : ~IsEmpty(e)
  BY RedisVaultAssumption
<1>2. RTInv => RawForCause
  <2> SUFFICES ASSUME RTInv, NEW c \in CallId, NEW i \in DOMAIN call[c].shown,
                      call[c].entry # NoEntry, ~call[c].shown[i].blocked,
                      IsEmpty(call[c].shown[i].by)
               PROVE  c \in gone
    BY DEF RawForCause
  <2>1. call[c].entry \in Entry /\ Told(c)
    BY DEF RTInv, OfCall, RTTypeOK, CallRecord
  <2> QED BY <1>1, <2>1 DEF Told, Heard
<1> QED BY <1>2, RTInvariant, PTL

\* Under the guardrail's two halves and the outside world the Redis vault still
\* is the vault of the contract.
THEOREM RoundTripOnVault == RTSpec => ImplementsVault
<1>1. RTInv /\ [RTNext]_rtvars => [Abstract!Next]_(Abstract!vars)
  BY RTNextStep DEF Refined
<1>2. RTInit => Abstract!Init
  BY RefineInit DEF RTInit
<1> QED BY <1>1, <1>2, RTInvariant, PTL DEF RTSpec, ImplementsVault, Abstract!Spec
=============================================================================
