----------------------------- MODULE RoundTrip -----------------------------
(***************************************************************************)
(* One deployment with VAULT_BACKEND=redis: the guardrail endpoint's two   *)
(* halves (main.py: guardrail; Pipeline.anonymize and deanonymize) on any  *)
(* replica, and the vault between them.  The request half stores the       *)
(* call's entry before it answers; the response half reads it for every    *)
(* sample of the reply.  A utility task may pop entries.  LiteLLM sends    *)
(* the samples of one call one after the other, to any replica.            *)
(***************************************************************************)
EXTENDS RedisVault

CONSTANTS Made,        \* the entries detection may make of a call's request
          Utility,     \* tasks that are no call's
          MaxSamples   \* bound: samples of one reply

ASSUME RoundTripAssumption ==
    /\ Client = CallId \cup Utility
    /\ CallId \cap Utility = {}
    /\ Made \in [CallId -> SUBSET Entry]
    /\ MaxSamples \in Nat

VARIABLES call,    \* per call: phase, entry of its request, outcome per sample
          stored,  \* auxiliary: moment of the last execution of the call's SET
          gone     \* auxiliary: calls whose entry the outside took away since

rtvars == <<scope, db, now, cmd, late, reply, call, stored, gone>>

Phases == {"new", "storing", "forwarded", "asking", "blocked", "closed"}
Unstored == 0 - 1

RTInit == /\ Init
          /\ call = [c \in CallId |-> [phase |-> "new", entry |-> NoEntry, shown |-> <<>>]]
          /\ stored = [c \in CallId |-> Unstored]
          /\ gone = {}

Move(c, phase) == call' = [call EXCEPT ![c].phase = phase]

-----------------------------------------------------------------------------
\* Pipeline.anonymize found nothing: nothing is stored, the request passes as
\* it is.
PassThrough(c) ==
    /\ call[c].phase = "new"
    /\ Move(c, "forwarded")
    /\ UNCHANGED <<scope, db, now, cmd, late, reply, stored, gone>>

\* Pipeline.anonymize up to the await of vault.put.
Anonymize(c, e) ==
    /\ call[c].phase = "new"
    /\ call' = [call EXCEPT ![c].phase = "storing", ![c].entry = e]
    /\ Send(c, "put", c, e)
    /\ UNCHANGED <<stored, gone>>

\* Slip: the put's failure logged and swallowed.
AnswerAnyway(c) ==
    /\ call[c].phase = "storing"
    /\ cmd[c].stage = "done"
    /\ Move(c, "forwarded")
    /\ cmd' = [cmd EXCEPT ![c] = NoCommand]
    /\ UNCHANGED <<scope, db, now, late, reply, stored, gone>>

\* The anonymized text goes out, or the request is BLOCKED.
AnswerRequest(c) ==
    /\ call[c].phase = "storing"
    /\ cmd[c].stage = "done"
    /\ Move(c, IF cmd[c].error THEN "blocked" ELSE "forwarded")
    /\ cmd' = [cmd EXCEPT ![c] = NoCommand]
    /\ UNCHANGED <<scope, db, now, late, reply, stored, gone>>

\* Slip: pop where peek is meant.
DeanonymizePops(c) ==
    /\ call[c].phase = "forwarded"
    /\ Len(call[c].shown) < MaxSamples
    /\ Move(c, "asking")
    /\ Send(c, "pop", c, NoEntry)
    /\ UNCHANGED <<stored, gone>>

\* Pipeline.deanonymize up to the await of vault.peek.
Deanonymize(c) ==
    /\ call[c].phase = "forwarded"
    /\ Len(call[c].shown) < MaxSamples
    /\ Move(c, "asking")
    /\ Send(c, "peek", c, NoEntry)
    /\ UNCHANGED <<stored, gone>>

\* What the client is shown of a sample: the entry that restored it, nothing
\* restored, or BLOCKED; a blocked reply ends there.
AnswerResponse(c) ==
    /\ call[c].phase = "asking"
    /\ cmd[c].stage = "done"
    /\ call' = [call EXCEPT ![c].phase = IF cmd[c].error THEN "closed" ELSE "forwarded",
                            ![c].shown = Append(@, [blocked |-> cmd[c].error,
                                                    by |-> cmd[c].result])]
    /\ cmd' = [cmd EXCEPT ![c] = NoCommand]
    /\ UNCHANGED <<scope, db, now, late, reply, stored, gone>>

-----------------------------------------------------------------------------
PopUtility(p, c) == /\ Send(p, "pop", c, NoEntry)
                    /\ UNCHANGED <<call, stored, gone>>

Executed(op, c, from) ==
    /\ stored' = IF op = "put" /\ scope.ttl >= 1 THEN [stored EXCEPT ![c] = now] ELSE stored
    /\ gone' = IF op = "pop" /\ from \in Utility THEN gone \cup {c} ELSE gone

RTServe(p) == /\ Serve(p)
              /\ Executed(cmd[p].op, cmd[p].cid, p)
              /\ UNCHANGED call

\* Only utility tasks pop.
RTServeLate(m) == /\ ServeLate(m)
                  /\ stored' = IF m.op = "put" /\ scope.ttl >= 1
                               THEN [stored EXCEPT ![m.cid] = now] ELSE stored
                  /\ gone' = IF m.op = "pop" THEN gone \cup {m.cid} ELSE gone
                  /\ UNCHANGED call

Connection(p) == /\ Deliver(p) \/ Break(p) \/ Resend(p)
                 /\ UNCHANGED <<call, stored, gone>>

RTTick == /\ Tick
          /\ gone' = gone \cup {c \in CallId : stored[c] # Unstored /\ now' >= stored[c] + scope.ttl}
          /\ UNCHANGED <<call, stored>>

RTFlush == Flush /\ gone' = CallId /\ UNCHANGED <<call, stored>>

RTCorrupt(c, j) == Corrupt(c, j) /\ gone' = gone \cup {c} /\ UNCHANGED <<call, stored>>

RTNext == \/ \E c \in CallId \cap scope.tasks : \/ PassThrough(c) \/ AnswerRequest(c)
                               \/ Deanonymize(c) \/ AnswerResponse(c)
                               \/ \E e \in Made[c] : Anonymize(c, e)
          \/ \E p \in Utility \cap scope.tasks, c \in CallId \cap scope.tasks : PopUtility(p, c)
          \/ \E p \in scope.tasks : RTServe(p) \/ Connection(p)
          \/ \E m \in late : RTServeLate(m)
          \/ RTTick
          \/ RTFlush
          \/ \E c \in CallId, j \in Junk : RTCorrupt(c, j)

RTSpec == RTInit /\ [][RTNext]_rtvars
-----------------------------------------------------------------------------
Sample == [blocked : BOOLEAN, by : Entry \cup {NoEntry}]
CallRecord == [phase : Phases, entry : Entry \cup {NoEntry}, shown : Seq(Sample)]

RTTypeOK == /\ TypeOK
            /\ call \in [CallId -> CallRecord]
            /\ stored \in [CallId -> Nat \cup {Unstored}]
            /\ gone \subseteq CallId

\* A request whose text carries surrogates goes on to the model only when the
\* entry that restores them has been stored (the promise of the failure modes in
\* vault_redis.py), whichever commands were lost or repeated on the way.
ForwardedIsStored ==
    \A c \in CallId :
        call[c].phase \in {"forwarded", "asking", "closed"} /\ call[c].entry # NoEntry
            => stored[c] # Unstored

\* A sample of an anonymized call's reply is shown with its surrogates only when
\* the entry's TTL ran out or an outsider removed it: not because of another
\* sample, another call, a repeated command or another replica.
RawForCause ==
    \A c \in CallId : \A i \in DOMAIN call[c].shown :
        (/\ call[c].entry # NoEntry
         /\ ~call[c].shown[i].blocked
         /\ IsEmpty(call[c].shown[i].by)) => c \in gone

\* Whatever is restored is restored from the entry of the same call's request,
\* type, sources, mode and kwargs included.
RestoredByOwnEntry ==
    \A c \in CallId : \A i \in DOMAIN call[c].shown :
        ~IsEmpty(call[c].shown[i].by) => call[c].shown[i].by = call[c].entry
=============================================================================
