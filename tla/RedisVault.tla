----------------------------- MODULE RedisVault -----------------------------
(***************************************************************************)
(* RedisVault (vault_redis.py): the vault shared by every replica.  A task *)
(* of a replica sends one command (SET with a TTL, GET, GETDEL); the       *)
(* server executes it at some later moment, in one step; the answer then   *)
(* reaches the task, or the connection breaks first and the task gets      *)
(* RedisVaultError, not knowing whether the command was or will be run.    *)
(* The client library may send a command again by itself.  Entries expire  *)
(* on the server; other users of the instance may flush it or overwrite a  *)
(* key with something that does not decode.                                *)
(***************************************************************************)
EXTENDS Integers, Sequences, FiniteSets, VaultWire

CONSTANTS Client,    \* tasks of the replicas
          CallId,    \* non-empty call ids: the keys vault:{call_id}
          Entry,     \* vault entries that hold at least one surrogate
          Junk,      \* payloads _decode_entry rejects
          Scopes     \* [ttl, tasks, sends, late, until]: VAULT_TTL_S, the tasks
                     \* that use the vault and, as bounds, how often one command
                     \* is sent, how many abandoned ones are on their way and
                     \* when the server's clock stops

ASSUME RedisVaultAssumption ==
    /\ \A s \in Scopes : /\ s.ttl \in Int
                          /\ s.tasks \subseteq Client
                          /\ {s.sends, s.late, s.until} \subseteq Nat
    /\ \A e \in Entry : IsVaultEntry(e) /\ ~IsEmpty(e)
    /\ \A j \in Junk : ~IsEntry(j)

VARIABLES scope,  \* the deployment
          db,     \* the keys: payload, moment it expires, whether it is there
          now,    \* the server's clock
          cmd,    \* per task: its command and how far that is
          late,   \* commands given up by their task that may still be executed
          reply   \* auxiliary: outcome of the last command the server executed

vars == <<scope, db, now, cmd, late, reply>>

Payload == {EncodeEntry(e) : e \in Entry} \cup Junk \cup {NotJson}
Absent == [there |-> FALSE, payload |-> NotJson, exp |-> 0]
Stages == {"idle", "sent", "served", "done"}
NoCommand == [op |-> "none", cid |-> "none", entry |-> NoEntry, stage |-> "idle",
              sends |-> 0, answer |-> NotJson, result |-> NoEntry, error |-> FALSE]
Reply(op, c, e) == [op |-> op, cid |-> c, entry |-> e]
Busy(p) == cmd[p].stage \in {"sent", "served"}

\* Slip: the key without the call id.
OneKey(c) == CHOOSE k \in CallId : TRUE
\* _key: the call id behind the reserved prefix.
Key(c) == c

\* GET: nil once the TTL has run out.
There(r, t) == r.there /\ t < r.exp
Answer(d, c, t) == IF There(d[Key(c)], t) THEN d[Key(c)].payload ELSE NotJson
\* What a task decodes from the key of c.
Lookup(d, c, t) ==
    IF There(d[Key(c)], t) THEN DecodePayloadOrEmpty(Answer(d, c, t)) ELSE NoEntry

Init == /\ scope \in Scopes
        /\ db = [c \in CallId |-> Absent]
        /\ now = 0
        /\ cmd = [p \in Client |-> NoCommand]
        /\ late = {}
        /\ reply = Reply("none", NoEntry, NoEntry)

\* put, peek, pop up to the await: the command is on the wire.
Send(p, op, c, e) ==
    /\ ~Busy(p)
    /\ op = "put" => ~IsEmpty(e)
    /\ cmd' = [cmd EXCEPT ![p] = [NoCommand EXCEPT !.op = op, !.cid = c, !.entry = e,
                                                   !.stage = "sent", !.sends = 1]]
    /\ UNCHANGED <<scope, db, now, late, reply>>

\* put of an empty entry returns at once.
PutEmpty(p, c) ==
    /\ ~Busy(p)
    /\ cmd' = [cmd EXCEPT ![p] = [NoCommand EXCEPT !.op = "put", !.cid = c, !.stage = "done"]]
    /\ reply' = Reply("put", c, NoEntry)
    /\ UNCHANGED <<scope, db, now, late>>

-----------------------------------------------------------------------------
\* SET key payload EX ttl; the server rejects an expiry that is not positive.
Set(c, e) ==
    /\ scope.ttl >= 1
    /\ db' = [db EXCEPT ![Key(c)] = [there |-> TRUE, payload |-> EncodeEntry(e),
                                exp |-> now + scope.ttl]]
    /\ reply' = Reply("put", c, e)
SetRejected == scope.ttl < 1 /\ UNCHANGED <<db, reply>>

GetKey(c) == /\ reply' = Reply("peek", c, Lookup(db, c, now))
             /\ UNCHANGED db

\* Slip: GET without DEL.
GetNoDel(c) == /\ reply' = Reply("pop", c, Lookup(db, c, now))
               /\ UNCHANGED db
GetDel(c) == /\ reply' = Reply("pop", c, Lookup(db, c, now))
             /\ db' = [db EXCEPT ![Key(c)] = Absent]

Execute(op, c, e) == \/ op = "put" /\ Set(c, e)
                     \/ op = "put" /\ SetRejected
                     \/ op = "peek" /\ GetKey(c)
                     \/ op = "pop" /\ GetDel(c)

\* The server executes the command of a waiting task.
Serve(p) ==
    /\ cmd[p].stage = "sent"
    /\ Execute(cmd[p].op, cmd[p].cid, cmd[p].entry)
    /\ cmd' = [cmd EXCEPT ![p].stage = "served",
                          ![p].answer = IF cmd[p].op = "put" THEN NotJson
                                        ELSE Answer(db, cmd[p].cid, now),
                          ![p].error = (cmd[p].op = "put" /\ scope.ttl < 1)]
    /\ UNCHANGED <<scope, now, late>>

\* The answer arrives: put returns or raises, peek and pop decode.
Deliver(p) ==
    /\ cmd[p].stage = "served"
    /\ cmd' = [cmd EXCEPT ![p].stage = "done",
                          ![p].result = IF cmd[p].op = "put" THEN NoEntry
                                        ELSE DecodePayloadOrEmpty(cmd[p].answer)]
    /\ UNCHANGED <<scope, db, now, late, reply>>

\* The command stays on its way to the server, its answer to no one.
Abandon(k) ==
    /\ Cardinality(late) < scope.late
    /\ late' = late \cup {[op |-> k.op, cid |-> k.cid, entry |-> k.entry]}

\* The connection breaks or times out: RedisVaultError.  What was not executed
\* yet is lost, or still on its way.
Break(p) ==
    /\ Busy(p)
    /\ cmd' = [cmd EXCEPT ![p].stage = "done", ![p].error = TRUE]
    /\ \/ UNCHANGED late
       \/ cmd[p].stage = "sent" /\ Abandon(cmd[p])
    /\ UNCHANGED <<scope, db, now, reply>>

\* The client library sends the command once more on a new connection.
Resend(p) ==
    /\ Busy(p)
    /\ cmd[p].sends < scope.sends
    /\ cmd' = [cmd EXCEPT ![p].stage = "sent", ![p].sends = @ + 1]
    /\ \/ cmd[p].stage = "served" /\ UNCHANGED late
       \/ cmd[p].stage = "sent" /\ Abandon(cmd[p])
    /\ UNCHANGED <<scope, db, now, reply>>

ServeLate(m) ==
    /\ m \in late
    /\ Execute(m.op, m.cid, m.entry)
    /\ late' = late \ {m}
    /\ UNCHANGED <<scope, now, cmd>>

-----------------------------------------------------------------------------
Tick == /\ now < scope.until
        /\ now' = now + 1
        /\ UNCHANGED <<scope, db, cmd, late, reply>>

\* FLUSHDB, a restart without persistence, maxmemory eviction of every key.
Flush == /\ \E c \in CallId : db[c].there
         /\ db' = [c \in CallId |-> Absent]
         /\ UNCHANGED <<scope, now, cmd, late, reply>>

\* Another consumer of the instance overwrites the key.
Corrupt(c, j) == /\ db[c].there
                 /\ db' = [db EXCEPT ![c].payload = j]
                 /\ UNCHANGED <<scope, now, cmd, late, reply>>

Network == \/ \E p \in scope.tasks : Serve(p) \/ Deliver(p) \/ Break(p) \/ Resend(p)
           \/ \E m \in late : ServeLate(m)
Outside == Tick \/ Flush \/ \E c \in CallId, j \in Junk : Corrupt(c, j)

Next == \/ \E p \in scope.tasks, c \in CallId, e \in Entry : Send(p, "put", c, e)
        \/ \E p \in scope.tasks, c \in CallId : \/ PutEmpty(p, c)
                                           \/ Send(p, "peek", c, NoEntry)
                                           \/ Send(p, "pop", c, NoEntry)
        \/ Network
        \/ Outside

Spec == Init /\ [][Next]_vars
-----------------------------------------------------------------------------
Command == [op : {"none", "put", "peek", "pop"}, cid : CallId \cup {"none"},
            entry : Entry \cup {NoEntry}, stage : Stages, sends : Nat, answer : Payload,
            result : Entry \cup {NoEntry}, error : BOOLEAN]
Abandoned == [op : {"put", "peek", "pop"}, cid : CallId, entry : Entry \cup {NoEntry}]

TypeOK ==
    /\ scope \in Scopes
    /\ db \in [CallId -> [there : BOOLEAN, payload : Payload, exp : Int]]
    /\ now \in Nat
    /\ cmd \in [Client -> Command]
    /\ \A p \in Client : Busy(p) => /\ cmd[p].op # "none" /\ cmd[p].cid \in CallId
                                    /\ cmd[p].op = "put" => cmd[p].entry \in Entry
    /\ late \subseteq Abandoned
    /\ \A m \in late : m.op = "put" => m.entry \in Entry

\* However commands are delayed, repeated or abandoned, each execution on the
\* server is one operation of the vault contract, and nothing but an operation,
\* its TTL or a stranger changes what a call's peek shows.
Abstract == INSTANCE Vault WITH
    visible <- [c \in CallId |-> Lookup(db, c, now)]
ImplementsVault == Abstract!Spec
=============================================================================
