---------------------------- MODULE MemoryVault ----------------------------
(***************************************************************************)
(* MemoryVault (vault_memory.py): the in-process vault, an OrderedDict of  *)
(* (monotonic timestamp, entry) with a TTL and a cap on its length.  The   *)
(* dict is a sequence of records, oldest first.  Every method body runs    *)
(* under a lock without an await, so each is one action; the clock is read *)
(* separately by each, and twice by put.                                   *)
(***************************************************************************)
EXTENDS Integers, Sequences, FiniteSets, SequencesExt

CONSTANTS CallId,      \* non-empty call ids
          Entry,       \* non-empty vault entries
          NoEntry,     \* the empty VaultEntry()
          TtlS,        \* VAULT_TTL_S
          MaxEntries,  \* VAULT_MAX_ENTRIES as configured
          MaxTime      \* bound: the clock stops here

ASSUME MemoryVaultAssumption ==
    /\ TtlS \in Nat
    /\ MaxEntries \in Int
    /\ MaxTime \in Nat
    /\ NoEntry \notin Entry

VARIABLES store,   \* the OrderedDict
          now,     \* time.monotonic(), in ticks
          reply,   \* outcome of the last operation
          last,    \* auxiliary: the record of each call's last put since start
          later    \* auxiliary: the calls put since then

vars == <<store, now, reply, last, later>>

Record == [cid : CallId, ts : Nat, entry : Entry]
NoRecord == [cid |-> NoEntry, ts |-> 0, entry |-> NoEntry]
Reply(op, c, e) == [op |-> op, cid |-> c, entry |-> e]

\* max(1, max_entries): a mistyped 0 cannot disable the vault.
Cap == IF MaxEntries < 1 THEN 1 ELSE MaxEntries

Ids(s) == {s[i].cid : i \in 1..Len(s)}
Position(s, c) == CHOOSE i \in 1..Len(s) : s[i].cid = c

Expired(r, t) == t - r.ts > TtlS

\* Slip: one record per sweep.
EvictOldest(s, t) == IF s # <<>> /\ Expired(Head(s), t) THEN Tail(s) ELSE s

\* _evict_expired_locked: scan from the front, stop at the first live entry.
IsExpiredPrefix(s, t, k) ==
    /\ \A i \in 1..k : Expired(s[i], t)
    /\ k < Len(s) => ~Expired(s[k + 1], t)
EvictExpired(s, t) ==
    LET k == CHOOSE k \in 0..Len(s) : IsExpiredPrefix(s, t, k)
    IN SubSeq(s, k + 1, Len(s))

\* dict.pop(c, None)
Drop(s, c) == IF c \in Ids(s) THEN RemoveAt(s, Position(s, c)) ELSE s

\* Slips: the cap tested before the insert; popitem() without last=False.
KeepOneMore(s) == IF Len(s) > Cap + 1 THEN Tail(s) ELSE s
KeepOldest(s) == SubSeq(s, 1, IF Len(s) > Cap THEN Cap ELSE Len(s))

\* while len(store) > cap: popitem(last=False)
KeepNewest(s) == IF Len(s) > Cap THEN SubSeq(s, Len(s) - Cap + 1, Len(s)) ELSE s

\* What a get of c followed by the TTL test yields at time t.
Lookup(s, c, t) ==
    IF c \in Ids(s) /\ ~Expired(s[Position(s, c)], t)
    THEN s[Position(s, c)].entry ELSE NoEntry

Init == /\ store = <<>>
        /\ now = 0
        /\ reply = Reply("none", NoEntry, NoEntry)
        /\ last = [c \in CallId |-> NoRecord]
        /\ later = [c \in CallId |-> {}]

\* d ticks pass between the sweep's clock read and the timestamp's.
Put(c, e, d) ==
    LET r == [cid |-> c, ts |-> now + d, entry |-> e]
        swept == EvictExpired(store, now)
    IN /\ e # NoEntry
       /\ now + d <= MaxTime
       /\ now' = now + d
       /\ store' = KeepNewest(Append(Drop(swept, c), r))
       /\ reply' = Reply("put", c, e)
       /\ last' = [last EXCEPT ![c] = r]
       /\ later' = [b \in CallId |-> IF b = c THEN {} ELSE later[b] \cup {c}]

\* Slip: no is_empty test.
PutEmptyStored(c) ==
    /\ store' = KeepNewest(Append(Drop(EvictExpired(store, now), c),
                                  [cid |-> c, ts |-> now, entry |-> NoEntry]))
    /\ reply' = Reply("put", c, NoEntry)
    /\ UNCHANGED <<now, last, later>>

\* put with an empty entry, or no call id, returns before touching the store.
PutEmpty(c) == /\ reply' = Reply("put", c, NoEntry)
               /\ UNCHANGED <<store, now, last, later>>

\* Slip: peek without the TTL test.
PeekStale(c) ==
    /\ reply' = Reply("peek", c, IF c \in Ids(store) THEN store[Position(store, c)].entry
                                 ELSE NoEntry)
    /\ UNCHANGED <<store, now, last, later>>

Peek(c) == /\ reply' = Reply("peek", c, Lookup(store, c, now))
           /\ UNCHANGED <<store, now, last, later>>

\* pop removes the entry even when it then reports it as expired.
Pop(c) == /\ reply' = Reply("pop", c, Lookup(store, c, now))
          /\ store' = Drop(store, c)
          /\ last' = [last EXCEPT ![c] = NoRecord]
          /\ UNCHANGED <<now, later>>

Tick == /\ now < MaxTime
        /\ now' = now + 1
        /\ UNCHANGED <<store, reply, last, later>>

\* The process dies and a new one starts with an empty dict.
Restart == /\ store' = <<>>
           /\ last' = [c \in CallId |-> NoRecord]
           /\ later' = [c \in CallId |-> {}]
           /\ UNCHANGED <<now, reply>>

Next == \/ \E c \in CallId, e \in Entry, d \in 0..1 : Put(c, e, d)
        \/ \E c \in CallId : PutEmpty(c) \/ Peek(c) \/ Pop(c)
        \/ Tick
        \/ Restart

Spec == Init /\ [][Next]_vars
-----------------------------------------------------------------------------
TypeOK == /\ store \in Seq(Record)
          /\ now \in Nat
          /\ last \in [CallId -> Record \cup {NoRecord}]
          /\ later \in [CallId -> SUBSET CallId]

\* The dict's shape that the early exit of the sweep and the LRU rely on: one
\* record per call, in the order of their timestamps, never more than the cap.
DistinctIds == \A i, j \in 1..Len(store) : store[i].cid = store[j].cid => i = j
Chronological == /\ \A i, j \in 1..Len(store) : i <= j => store[i].ts <= store[j].ts
                 /\ \A i \in 1..Len(store) : store[i].ts <= now
Bounded == Len(store) <= Cap
StoreSound == DistinctIds /\ Chronological /\ Bounded

\* Although the sweep stops at the first live entry, after any put the only
\* record that may be too old is the one just written: nothing expired hides
\* behind something live (_evict_expired_locked's claim).
PutSweepsAll ==
    \A c \in CallId, e \in Entry, d \in 0..1 : Put(c, e, d) =>
        \A i \in 1..Len(store') : store'[i].cid = c \/ ~Expired(store'[i], now)
SweepComplete == [][PutSweepsAll]_vars

\* A record is never lost before its TTL unless as many other calls as the cap
\* holds were put after it: an unexpired one is found unchanged.  This is what
\* a post_call relies on when it arrives in time.
Retained ==
    \A c \in CallId :
        (/\ last[c] # NoRecord
         /\ ~Expired(last[c], now)
         /\ Cardinality(later[c]) < Cap) => 
            \E i \in 1..Len(store) : store[i] = last[c]

\* The backend implements the contract of Vault.
Abstract == INSTANCE Vault WITH
    visible <- [c \in CallId |-> Lookup(store, c, now)]
ImplementsVault == Abstract!Spec
=============================================================================
