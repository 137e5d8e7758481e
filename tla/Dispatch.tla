------------------------------ MODULE Dispatch ------------------------------
(***************************************************************************)
(* Detection dispatch in Pipeline (pipeline.py: _run_detection,            *)
(* _detect_one, _run_detector): a request opens a TaskGroup with one task  *)
(* per text and one per merged-mode detector; each text task opens an      *)
(* inner TaskGroup with one call per per-text detector.  A call of a gated *)
(* detector holds a permit of that detector's semaphore, shared by all     *)
(* requests, and counts as in flight.  A fail-closed error cancels every   *)
(* sibling call and blocks the request; a fail-open error yields no match. *)
(*                                                                         *)
(* asyncio runs one step of one task at a time; a step here is what a task *)
(* does between two awaits.  Cancelling a task only marks it: the task     *)
(* unwinds in a step of its own.                                           *)
(***************************************************************************)
EXTENDS Integers, Sequences, FiniteSets, SequencesExt

CONSTANTS Request, Text,
          Blob,         \* the sentinel-joined text merged detectors get
          Detector,     \* active detectors
          Merged,       \* those configured with input_mode merged
          Gated,        \* those whose spec has a semaphore
          FailClosed,   \* those with a typed error and fail_closed set
          Permits       \* [Gated -> Nat]: <DETECTOR>_MAX_CONCURRENCY

ASSUME DispatchAssumption ==
    /\ Merged \subseteq Detector
    /\ Gated \subseteq Detector
    /\ FailClosed \subseteq Detector
    /\ Permits \in [Gated -> Nat \ {0}]
    /\ Blob \notin Text
    /\ IsFiniteSet(Request) /\ IsFiniteSet(Text) /\ IsFiniteSet(Detector)

Call == Request \X (Text \cup {Blob}) \X Detector
TextTask == Request \X Text
Nobody == "nobody"

VARIABLES status,   \* per request: idle, running, aborting, ok, blocked
          demoted,  \* per request: merged detectors whose blob was too long
          task,     \* per text task: its state
          call,     \* per detector call: its state
          marked,   \* tasks and calls cancel() was called on
          value,    \* semaphore: permits not handed out
          queue,    \* semaphore: waiters, first come first served
          inflight, \* _inflight_counters
          culprit   \* per request: whose error blocked it

vars == <<status, demoted, task, call, marked, value, queue, inflight, culprit>>
semaphore == <<value, queue, inflight>>

TextStates == {"none", "ready", "computing", "aborting", "ok", "failed", "cancelled"}
CallStates == {"none", "ready", "waiting", "woken", "running",
               "ok", "degraded", "failed", "cancelled"}
Done == {"ok", "degraded", "failed", "cancelled"}

PerText(r) == (Detector \ Merged) \cup demoted[r]
TextCalls(r, t) == {r} \X {t} \X PerText(r)
MergedCalls(r) == {r} \X {Blob} \X (Merged \ demoted[r])
TextTasks(r) == {r} \X Text
Created(r) == (UNION {TextCalls(r, t) : t \in Text}) \cup MergedCalls(r)

Init == /\ status = [r \in Request |-> "idle"]
        /\ demoted = [r \in Request |-> {}]
        /\ task = [p \in TextTask |-> "none"]
        /\ call = [c \in Call |-> "none"]
        /\ marked = {}
        /\ value = Permits
        /\ queue = [d \in Gated |-> <<>>]
        /\ inflight = [d \in Gated |-> 0]
        /\ culprit = [r \in Request |-> Nobody]
-----------------------------------------------------------------------------
\* asyncio.Semaphore (of the image's Python, 3.12).  Cancelling a call that waits
\* cancels its place in the queue at once, though it leaves the queue only when it
\* unwinds; one that was handed a permit holds its place until it resumes.
Waiters(q, cs) == {c \in Range(q) : cs[c] = "waiting" /\ c \notin marked}
Locked(d) == value[d] = 0 \/ \E c \in Range(queue[d]) : c \in Waiters(queue[d], call)
                                                        \/ call[c] = "woken"
Before(q, b, c) == \E i, j \in DOMAIN q : i < j /\ q[i] = b /\ q[j] = c
Without(q, c) == RemoveAt(q, CHOOSE i \in DOMAIN q : q[i] = c)

\* Slip: nobody is told that a permit is free.
WakeNobody(d, n, most, q, cs) ==
    /\ call' = cs
    /\ value' = [value EXCEPT ![d] = n]
    /\ queue' = [queue EXCEPT ![d] = q]

\* The calls are as in cs, q is the queue of d and n permits are free: up to most
\* of them are handed to the first waiters.
Wake(d, n, most, q, cs) ==
    \E first \in SUBSET Waiters(q, cs) :
        /\ \A c \in first, b \in Waiters(q, cs) : Before(q, b, c) => b \in first
        /\ Cardinality(first) <= most
        /\ Cardinality(first) = most \/ first = Waiters(q, cs)
        /\ call' = [c \in Call |-> IF c \in first THEN "woken" ELSE cs[c]]
        /\ value' = [value EXCEPT ![d] = n - Cardinality(first)]
        /\ queue' = [queue EXCEPT ![d] = q]

\* release() tells one waiter; acquire() tells as many as there are permits.
Release(d, cs) == Wake(d, value[d] + 1, 1, queue[d], cs)
LeaveQueue(d, n, c, cs) == Wake(d, n, n, Without(queue[d], c), cs)

\* Slip: the decrement not in a finally, so a cancelled call stays in flight.
LeaveStillCounted(c, outcome) ==
    LET d == c[3]
        cs == [call EXCEPT ![c] = outcome]
    IN IF d \in Gated
       THEN /\ inflight' = [inflight EXCEPT ![d] = IF outcome = "cancelled" THEN @ ELSE @ - 1]
            /\ Release(d, cs)
       ELSE call' = cs /\ UNCHANGED semaphore

\* A call leaves det.detect: the counter goes down, then the permit goes back.
Leave(c, outcome) ==
    LET d == c[3]
        cs == [call EXCEPT ![c] = outcome]
    IN IF d \in Gated
       THEN /\ inflight' = [inflight EXCEPT ![d] = @ - 1]
            /\ Release(d, cs)
       ELSE /\ call' = cs
            /\ UNCHANGED semaphore

\* The request starts: every task of the outer group is created.
Begin(r, big) ==
    /\ status[r] = "idle"
    /\ status' = [status EXCEPT ![r] = "running"]
    /\ demoted' = [demoted EXCEPT ![r] = big]
    /\ task' = [p \in TextTask |-> IF p[1] = r THEN "ready" ELSE task[p]]
    /\ call' = [c \in Call |-> IF c \in {r} \X {Blob} \X (Merged \ big)
                               THEN "ready" ELSE call[c]]
    /\ UNCHANGED <<marked, semaphore, culprit>>

TextStart(r, t) ==
    /\ task[<<r, t>>] = "ready"
    /\ <<r, t>> \notin marked
    /\ task' = [task EXCEPT ![<<r, t>>] = "computing"]
    /\ call' = [c \in Call |-> IF c \in TextCalls(r, t) THEN "ready" ELSE call[c]]
    /\ UNCHANGED <<status, demoted, marked, semaphore, culprit>>

\* A call's first step: run at once, take a free permit, or queue for one.
CallStart(c) ==
    /\ call[c] = "ready"
    /\ c \notin marked
    /\ IF c[3] \notin Gated
       THEN /\ call' = [call EXCEPT ![c] = "running"]
            /\ UNCHANGED semaphore
       ELSE IF Locked(c[3])
       THEN /\ call' = [call EXCEPT ![c] = "waiting"]
            /\ queue' = [queue EXCEPT ![c[3]] = Append(@, c)]
            /\ UNCHANGED <<value, inflight>>
       ELSE /\ call' = [call EXCEPT ![c] = "running"]
            /\ value' = [value EXCEPT ![c[3]] = @ - 1]
            /\ inflight' = [inflight EXCEPT ![c[3]] = @ + 1]
            /\ UNCHANGED queue
    /\ UNCHANGED <<status, demoted, task, marked, culprit>>

\* A waiter that was handed a permit resumes.
CallResume(c) ==
    LET d == c[3]
    IN /\ call[c] = "woken"
       /\ c \notin marked
       /\ inflight' = [inflight EXCEPT ![d] = @ + 1]
       /\ LeaveQueue(d, value[d], c, [call EXCEPT ![c] = "running"])
       /\ UNCHANGED <<status, demoted, task, marked, culprit>>

\* det.detect returns.
CallReturn(c) ==
    /\ call[c] = "running"
    /\ c \notin marked
    /\ Leave(c, "ok")
    /\ UNCHANGED <<status, demoted, task, marked, culprit>>

\* Slips: acquire without async with, so an error keeps the permit; every typed
\* error blocks, whatever fail_closed says.
CallRaiseKeepsPermit(c) ==
    /\ call[c] = "running" /\ c \notin marked
    /\ call' = [call EXCEPT ![c] = IF c[3] \in FailClosed THEN "failed" ELSE "degraded"]
    /\ UNCHANGED <<status, demoted, task, marked, semaphore, culprit>>
CallRaiseBlocks(c) ==
    /\ call[c] = "running" /\ c \notin marked
    /\ Leave(c, "failed")
    /\ UNCHANGED <<status, demoted, task, marked, culprit>>

\* det.detect raises, with its typed error or any other.
CallRaise(c) ==
    /\ call[c] = "running"
    /\ c \notin marked
    /\ Leave(c, IF c[3] \in FailClosed THEN "failed" ELSE "degraded")
    /\ UNCHANGED <<status, demoted, task, marked, culprit>>

\* Slip: the try whose finally decrements begins before the acquire.
CallCancelledLeaves(c) ==
    /\ c \in marked /\ call[c] \in {"waiting", "woken", "running"}
    /\ Leave(c, "cancelled")
    /\ UNCHANGED <<status, demoted, task, marked, culprit>>

\* A marked call unwinds from wherever it is.
CallCancelled(c) ==
    LET d == c[3]
        cs == [call EXCEPT ![c] = "cancelled"]
    IN /\ c \in marked
       /\ \/ /\ call[c] = "ready"
             /\ call' = cs
             /\ UNCHANGED semaphore
          \/ /\ call[c] = "waiting"
             /\ LeaveQueue(d, value[d], c, cs)
             /\ UNCHANGED inflight
          \/ /\ call[c] = "woken"
             /\ LeaveQueue(d, value[d] + 1, c, cs)
             /\ UNCHANGED inflight
          \/ /\ call[c] = "running"
             /\ Leave(c, "cancelled")
       /\ UNCHANGED <<status, demoted, task, marked, culprit>>

Failed(cs) == {c \in cs : call[c] = "failed"}
Unfinished(cs) == {c \in cs : call[c] \notin Done}

\* The inner group sees a failed call, or the text task's own cancellation:
\* every call still unfinished is cancelled.
TextAbort(r, t) ==
    /\ task[<<r, t>>] = "computing"
    /\ Failed(TextCalls(r, t)) # {} \/ <<r, t>> \in marked
    /\ Unfinished(TextCalls(r, t)) # {}
    /\ task' = [task EXCEPT ![<<r, t>>] = "aborting"]
    /\ marked' = marked \cup Unfinished(TextCalls(r, t))
    /\ UNCHANGED <<status, demoted, call, semaphore, culprit>>

\* The inner group is empty.  An error goes before the cancellation.
TextFinish(r, t) ==
    /\ task[<<r, t>>] \in {"computing", "aborting"}
    /\ Unfinished(TextCalls(r, t)) = {}
    /\ task' = [task EXCEPT ![<<r, t>>] = IF Failed(TextCalls(r, t)) # {} THEN "failed"
                                      ELSE IF <<r, t>> \in marked THEN "cancelled"
                                      ELSE "ok"]
    /\ UNCHANGED <<status, demoted, call, marked, semaphore, culprit>>

TextCancelled(r, t) ==
    /\ task[<<r, t>>] = "ready"
    /\ <<r, t>> \in marked
    /\ task' = [task EXCEPT ![<<r, t>>] = "cancelled"]
    /\ UNCHANGED <<status, demoted, call, marked, semaphore, culprit>>

UnfinishedTasks(r) == {p \in TextTasks(r) : task[p] \notin Done}

\* Slip: errors inside the text tasks are not collected.
CulpritsMergedOnly(r) == {c[3] : c \in Failed(MergedCalls(r))}

\* The errors the outer group has collected: of merged calls, and of calls whose
\* text task has passed them on; their detectors.
Collected(r) == {c \in Created(r) : /\ call[c] = "failed"
                                    /\ c[2] = Blob \/ task[<<r, c[2]>>] = "failed"}
Culprits(r) == {c[3] : c \in Collected(r)}

RequestAbort(r) ==
    /\ status[r] = "running"
    /\ Culprits(r) # {}
    /\ UnfinishedTasks(r) # {} \/ Unfinished(MergedCalls(r)) # {}
    /\ status' = [status EXCEPT ![r] = "aborting"]
    /\ marked' = marked \cup UnfinishedTasks(r) \cup Unfinished(MergedCalls(r))
    /\ UNCHANGED <<demoted, task, call, semaphore, culprit>>

\* Slip: gather, which re-raises at once and waits for nobody.
RequestFinishAtOnce(r) ==
    /\ status[r] = "running" /\ Culprits(r) # {}
    /\ status' = [status EXCEPT ![r] = "blocked"]
    /\ \E d \in Culprits(r) : culprit' = [culprit EXCEPT ![r] = d]
    /\ UNCHANGED <<demoted, task, call, marked, semaphore>>

\* The outer group is empty: the first error is re-raised and blocks.
RequestFinish(r) ==
    /\ status[r] \in {"running", "aborting"}
    /\ UnfinishedTasks(r) = {} /\ Unfinished(MergedCalls(r)) = {}
    /\ IF Culprits(r) = {}
       THEN /\ status' = [status EXCEPT ![r] = "ok"]
            /\ UNCHANGED culprit
       ELSE /\ status' = [status EXCEPT ![r] = "blocked"]
            /\ \E d \in Culprits(r) : culprit' = [culprit EXCEPT ![r] = d]
    /\ UNCHANGED <<demoted, task, call, marked, semaphore>>

AllDone == /\ \A r \in Request : status[r] \in {"ok", "blocked"}
           /\ UNCHANGED vars

CallStep(c) == CallStart(c) \/ CallResume(c) \/ CallReturn(c) \/ CallRaise(c)
               \/ CallCancelled(c)
TextStep(r, t) == TextStart(r, t) \/ TextAbort(r, t) \/ TextFinish(r, t)
                  \/ TextCancelled(r, t)
RequestStep(r) == RequestAbort(r) \/ RequestFinish(r)

Next == \/ \E r \in Request, big \in SUBSET Merged : Begin(r, big)
        \/ \E r \in Request, t \in Text : TextStep(r, t)
        \/ \E c \in Call : CallStep(c)
        \/ \E r \in Request : RequestStep(r)
        \/ AllDone

\* The event loop runs every ready task, and a detector call ends: each one has
\* a timeout of its own.
Fairness == /\ \A c \in Call : WF_vars(CallStep(c))
            /\ \A r \in Request, t \in Text : WF_vars(TextStep(r, t))
            /\ \A r \in Request : WF_vars(RequestStep(r))

Spec == Init /\ [][Next]_vars
FairSpec == Spec /\ Fairness
-----------------------------------------------------------------------------
TypeOK == /\ status \in [Request -> {"idle", "running", "aborting", "ok", "blocked"}]
          /\ demoted \in [Request -> SUBSET Merged]
          /\ task \in [TextTask -> TextStates]
          /\ call \in [Call -> CallStates]
          /\ marked \subseteq TextTask \cup Call
          /\ value \in [Gated -> Nat]
          /\ queue \in [Gated -> Seq(Call)]
          /\ inflight \in [Gated -> Nat]
          /\ culprit \in [Request -> Detector \cup {Nobody}]

CallsIn(d, state) == {c \in Call : c[3] = d /\ call[c] = state}

\* Whatever is cancelled wherever it is, no permit is lost and none is made up:
\* the free ones, the ones handed to waiters and the running calls add up.
PermitsConserved ==
    \A d \in Gated : value[d] + Cardinality(CallsIn(d, "woken"))
                       + Cardinality(CallsIn(d, "running")) = Permits[d]

\* /health's in-flight counter is the number of calls really inside detect, so
\* it never exceeds the cap and never sticks above zero.
InflightExact ==
    \A d \in Gated : /\ inflight[d] = Cardinality(CallsIn(d, "running"))
                     /\ inflight[d] <= Permits[d]

\* No call waits while a permit of its detector is free, unless a call ahead of it
\* was handed one and has yet to resume: that call will tell it.
NoIdlePermit ==
    \A d \in Gated : CallsIn(d, "waiting") \subseteq marked \/ value[d] = 0
                     \/ CallsIn(d, "woken") # {}

\* A request that was let through had every active detector run to the end on
\* what it was to see, and none of them failed closed.
NothingSkipped ==
    \A r \in Request : status[r] = "ok" =>
        \A c \in Created(r) : \/ call[c] = "ok"
                              \/ call[c] = "degraded" /\ c[3] \notin FailClosed

\* A blocked request names a fail-closed detector that did fail for it.
BlockedForCause ==
    \A r \in Request : status[r] = "blocked" =>
        /\ culprit[r] \in FailClosed
        /\ \E c \in Created(r) : c[3] = culprit[r] /\ call[c] = "failed"

\* When the handler has its answer, no call of the request is still queued or
\* running: a doomed request does not pin a slot others wait for.
NoCallOutlivesRequest ==
    \A r \in Request : status[r] \in {"ok", "blocked"} =>
        \A c \in Call : c[1] = r => call[c] \in Done \cup {"none"}

\* Every request that starts is answered, however its calls end.
EveryRequestAnswered ==
    \A r \in Request : status[r] = "running" ~> status[r] \in {"ok", "blocked"}

\* A call that waits for a permit stops waiting.
EveryWaiterServed ==
    \A c \in Call : call[c] = "waiting" ~> call[c] # "waiting"
=============================================================================
