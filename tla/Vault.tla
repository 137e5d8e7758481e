------------------------------- MODULE Vault -------------------------------
(***************************************************************************)
(* What the pipeline may rely on from a vault backend (the VaultBackend    *)
(* protocol of vault.py): an entry put for a call is what every later peek *)
(* of that call shows, until the backend forgets it; once forgotten it     *)
(* stays forgotten until the next put.  Why a backend forgets (TTL, LRU    *)
(* cap, restart of the process) is the backend's own business.             *)
(***************************************************************************)
CONSTANTS CallId,    \* non-empty litellm call ids
          Entry,     \* vault entries that hold at least one surrogate
          NoEntry    \* the empty VaultEntry()

VARIABLES visible,   \* what a peek of each call would show now
          reply      \* outcome of the last operation

vars == <<visible, reply>>

Reply(op, c, e) == [op |-> op, cid |-> c, entry |-> e]

Init == /\ visible = [c \in CallId |-> NoEntry]
        /\ reply = Reply("none", NoEntry, NoEntry)

\* The calls in S keep what they show or are forgotten.
KeptOrForgotten(S) == \A c \in S : visible'[c] \in {visible[c], NoEntry}

Put(c, e) == /\ visible' \in [CallId -> Entry \cup {NoEntry}]
             /\ visible'[c] = e
             /\ KeptOrForgotten(CallId \ {c})
             /\ reply' = Reply("put", c, e)

Forget == /\ visible' \in [CallId -> Entry \cup {NoEntry}]
          /\ KeptOrForgotten(CallId)
          /\ UNCHANGED reply

Peek(c) == /\ reply' = Reply("peek", c, visible[c])
           /\ UNCHANGED visible

Pop(c) == /\ reply' = Reply("pop", c, visible[c])
          /\ visible' = [visible EXCEPT ![c] = NoEntry]

\* A call without an id, or with nothing to store, touches nothing.
Ignored(op, c, e) == /\ reply' = Reply(op, c, e)
                     /\ UNCHANGED visible

Next == \/ \E c \in CallId, e \in Entry : Put(c, e)
        \/ Forget
        \/ \E c \in CallId : Peek(c) \/ Pop(c) \/ Ignored("put", c, NoEntry)

Spec == Init /\ [][Next]_vars
=============================================================================
