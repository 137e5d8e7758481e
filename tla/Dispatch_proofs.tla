-------------------------- MODULE Dispatch_proofs --------------------------
(***************************************************************************)
(* Theorems of Dispatch for any number of requests, texts, detectors and   *)
(* permits.  The invariant has two halves: how requests, text tasks and    *)
(* calls stand to each other (structured concurrency), and how each        *)
(* semaphore's count, queue and counter stand to the calls that hold or    *)
(* await a permit.                                                         *)
(***************************************************************************)
EXTENDS Dispatch, FiniteSetTheorems, SequenceTheorems, WellFoundedInduction, TLAPS

\* A call exists only when created, and ends for its reasons.
CallSound(c) ==
    /\ call[c] # "none" => c \in Created(c[1]) /\ status[c[1]] # "idle"
    /\ call[c] \in {"waiting", "woken"} => c[3] \in Gated
    /\ call[c] = "failed" => c[3] \in FailClosed
    /\ call[c] = "degraded" => c[3] \notin FailClosed
    /\ call[c] = "cancelled" => c \in marked
    /\ c \in marked => call[c] # "none"
    /\ (c \in marked /\ c[2] = Blob) => status[c[1]] \in {"aborting", "blocked"}

\* A text task and its calls.
TextSound(r, t) ==
    /\ task[<<r, t>>] = "none" <=> status[r] = "idle"
    /\ task[<<r, t>>] \in {"none", "ready"} => \A d \in Detector : call[<<r, t, d>>] = "none"
    /\ task[<<r, t>>] \in {"computing", "aborting", "ok", "failed"}
          => \A c \in TextCalls(r, t) : call[c] # "none"
    /\ task[<<r, t>>] \in {"computing", "ok"} => TextCalls(r, t) \cap marked = {}
    /\ task[<<r, t>>] \in {"ok", "failed", "cancelled"}
          => \A d \in Detector : call[<<r, t, d>>] \in Done \cup {"none"}
    /\ task[<<r, t>>] = "ok" => Failed(TextCalls(r, t)) = {}
    /\ task[<<r, t>>] = "failed" => Failed(TextCalls(r, t)) # {}
    /\ task[<<r, t>>] = "aborting" => Failed(TextCalls(r, t)) # {} \/ <<r, t>> \in marked
    /\ task[<<r, t>>] = "cancelled" => <<r, t>> \in marked
    /\ <<r, t>> \in marked => status[r] \in {"aborting", "blocked"}

\* A request, its text tasks and its merged calls.
RequestSound(r) ==
    /\ status[r] # "idle" => \A c \in MergedCalls(r) : call[c] # "none"
    /\ status[r] = "aborting" => Culprits(r) # {}
    /\ status[r] \in {"ok", "blocked"} => /\ UnfinishedTasks(r) = {}
                                          /\ Unfinished(MergedCalls(r)) = {}
    /\ status[r] = "ok" => Culprits(r) = {}
    /\ status[r] = "blocked" => culprit[r] \in Culprits(r)

Structure == /\ \A c \in Call : CallSound(c)
             /\ \A r \in Request, t \in Text : TextSound(r, t)
             /\ \A r \in Request : RequestSound(r)

\* A semaphore with n free permits, queue q and f counted calls; m are marked.
In(cs, d, state) == {c \in Call : c[3] = d /\ cs[c] = state}
NoTwice(q) == \A i, j \in DOMAIN q : q[i] = q[j] => i = j
Queued(cs, q, d) == /\ q \in Seq(Call) /\ NoTwice(q)
                    /\ Range(q) = In(cs, d, "waiting") \cup In(cs, d, "woken")
Balanced(cs, n, d) == n + Cardinality(In(cs, d, "woken"))
                        + Cardinality(In(cs, d, "running")) = Permits[d]
Told(cs, m, n, d) == \/ In(cs, d, "waiting") \subseteq m
                     \/ n = 0 \/ In(cs, d, "woken") # {}
Semaphore(cs, m, n, q, f, d) ==
    /\ n \in Nat
    /\ Queued(cs, q, d)
    /\ Balanced(cs, n, d)
    /\ f = Cardinality(In(cs, d, "running"))
    /\ Told(cs, m, n, d)

Semaphores == \A d \in Gated : Semaphore(call, marked, value[d], queue[d], inflight[d], d)

DispatchInv == TypeOK /\ Structure /\ Semaphores
-----------------------------------------------------------------------------
\* Calls and text tasks are tuples of their parts.
LEMMA CallParts ==
  ASSUME NEW c \in Call
  PROVE  /\ c[1] \in Request /\ c[2] \in Text \cup {Blob} /\ c[3] \in Detector
         /\ c = <<c[1], c[2], c[3]>>
BY DEF Call

LEMMA Tuples ==
  /\ \A r, t, d : <<r, t, d>> \in Call
        <=> r \in Request /\ t \in Text \cup {Blob} /\ d \in Detector
  /\ \A r \in Request, t \in Text : <<r, t>> \in TextTask
  /\ \A p \in TextTask : p \notin Call
  /\ \A p \in TextTask : p[1] \in Request /\ p[2] \in Text /\ p = <<p[1], p[2]>>
BY DEF Call, TextTask

\* The calls of a text task and the merged calls of a request.
LEMMA CallsOf ==
  ASSUME TypeOK, NEW r \in Request
  PROVE  /\ \A t \in Text : \A c : c \in TextCalls(r, t)
               <=> c \in Call /\ c[1] = r /\ c[2] = t /\ c[3] \in PerText(r)
         /\ \A c : c \in MergedCalls(r)
               <=> c \in Call /\ c[1] = r /\ c[2] = Blob /\ c[3] \in Merged \ demoted[r]
         /\ PerText(r) \subseteq Detector /\ Merged \subseteq Detector
         /\ \A c : c \in Created(r) <=> \/ c \in MergedCalls(r)
                                        \/ \E t \in Text : c \in TextCalls(r, t)
<1>1. demoted[r] \subseteq Merged /\ Merged \subseteq Detector /\ Blob \notin Text
  BY DispatchAssumption DEF TypeOK
<1>2. PerText(r) \subseteq Detector
  BY <1>1 DEF PerText
<1> HIDE DEF PerText
<1>3. \A t \in Text : \A c : c \in TextCalls(r, t)
         <=> c \in Call /\ c[1] = r /\ c[2] = t /\ c[3] \in PerText(r)
  BY <1>2 DEF TextCalls, Call
<1>4. \A c : c \in MergedCalls(r)
         <=> c \in Call /\ c[1] = r /\ c[2] = Blob /\ c[3] \in Merged \ demoted[r]
  BY <1>1 DEF MergedCalls, Call
<1>5. \A c : c \in Created(r) <=> \/ c \in MergedCalls(r)
                                 \/ \E t \in Text : c \in TextCalls(r, t)
  BY DEF Created
<1> QED BY <1>1, <1>2, <1>3, <1>4, <1>5

-----------------------------------------------------------------------------
\* What a step of call c leaves of the rest: only waiters change beside it.
Moves(c) ==
    /\ UNCHANGED <<status, demoted, task, marked, culprit>>
    /\ call' \in [Call -> CallStates]
    /\ call[c] \notin Done \cup {"none"} /\ call'[c] \notin {"none", "ready"}
    /\ call'[c] \in {"waiting", "woken"} => c[3] \in Gated
    /\ call'[c] = "failed" => c[3] \in FailClosed
    /\ call'[c] = "degraded" => c[3] \notin FailClosed
    /\ call'[c] = "cancelled" => c \in marked
    /\ \A b \in Call \ {c} : \/ call'[b] = call[b]
                             \/ call[b] = "waiting" /\ call'[b] = "woken"

LEMMA MovesKeep ==
  ASSUME TypeOK, Structure, NEW c \in Call, Moves(c)
  PROVE  Structure'
<1>1. \A b \in Call : /\ call'[b] = "none" <=> call[b] = "none"
                      /\ call[b] \in Done => call'[b] = call[b]
                      /\ b = c \/ call'[b] = call[b] \/ (call[b] = "waiting" /\ call'[b] = "woken")
  BY DEF Moves, Done
<1>2. UNCHANGED <<status, demoted, task, marked, culprit>>
  BY DEF Moves
<1>3. \A r \in Request : /\ \A t \in Text : TextCalls(r, t)' = TextCalls(r, t)
                         /\ MergedCalls(r)' = MergedCalls(r) /\ Created(r)' = Created(r)
  BY <1>2 DEF TextCalls, MergedCalls, Created, PerText
<1>4. ASSUME NEW b \in Call PROVE CallSound(b)'
  <2>1. CallSound(b) /\ b[1] \in Request
    BY CallParts DEF Structure
  <2>2. CASE b = c
    BY <1>2, <1>3, <2>1, <2>2 DEF CallSound, Moves, Done
  <2>3. CASE b # c
    BY <1>1, <1>2, <1>3, <2>1, <2>3 DEF CallSound
  <2> QED BY <2>2, <2>3
<1>5. ASSUME NEW r \in Request, NEW t \in Text PROVE TextSound(r, t)'
  <2>1. TextSound(r, t)
    BY DEF Structure
  <2>2. \A b \in TextCalls(r, t) : b \in Call
    BY CallsOf
  <2>3. \A d \in Detector : <<r, t, d>> \in Call
    BY Tuples
  <2>4. \A b \in Failed(TextCalls(r, t)) : b \in Failed(TextCalls(r, t))'
    BY <1>1, <1>3, <2>2 DEF Failed, Done
  <2>5. task[<<r, t>>] = "ok" => Failed(TextCalls(r, t))' = {}
    <3> SUFFICES ASSUME task[<<r, t>>] = "ok", NEW b \in Failed(TextCalls(r, t))'
                 PROVE  FALSE
      OBVIOUS
    <3>1. b \in TextCalls(r, t) /\ call'[b] = "failed"
      BY <1>3 DEF Failed
    <3>2. b = <<r, t, b[3]>> /\ b[3] \in Detector /\ b \in Call
      BY <3>1, CallsOf, CallParts
    <3>3. call[b] \in Done \cup {"none"}
      BY <2>1, <3>2 DEF TextSound
    <3>4. call[b] = "failed"
      BY <1>1, <3>1, <3>2, <3>3
    <3> QED BY <2>1, <3>1, <3>4 DEF TextSound, Failed
  <2>6. task[<<r, t>>] \in {"ok", "failed", "cancelled"}
           => \A d \in Detector : call'[<<r, t, d>>] \in Done \cup {"none"}
    BY <1>1, <2>1, <2>3 DEF TextSound
  <2>7. task[<<r, t>>] \in {"none", "ready"} => \A d \in Detector : call'[<<r, t, d>>] = "none"
    BY <1>1, <2>1, <2>3 DEF TextSound
  <2>8. task[<<r, t>>] \in {"computing", "aborting", "ok", "failed"}
           => \A b \in TextCalls(r, t) : call'[b] # "none"
    BY <1>1, <2>1, <2>2 DEF TextSound
  <2> QED BY <1>2, <1>3, <2>1, <2>4, <2>5, <2>6, <2>7, <2>8 DEF TextSound
<1>6. ASSUME NEW r \in Request PROVE RequestSound(r)'
  <2>1. RequestSound(r)
    BY DEF Structure
  <2>2. \A b \in MergedCalls(r) : b \in Call
    BY CallsOf
  <2>3. \A b \in Created(r) : b \in Call
    BY CallsOf
  <2>4. \A b \in Collected(r) : b \in Collected(r)'
    BY <1>1, <1>2, <1>3, <2>3 DEF Collected, Done
  <2>5. \A d \in Culprits(r) : d \in Culprits(r)'
    BY <2>4 DEF Culprits
  <2>6. UnfinishedTasks(r)' = UnfinishedTasks(r)
    BY <1>2 DEF UnfinishedTasks, TextTasks
  <2>7. Unfinished(MergedCalls(r)) = {} => Unfinished(MergedCalls(r))' = {}
    BY <1>1, <1>3, <2>2 DEF Unfinished
  <2>8. status[r] = "ok" => Culprits(r)' = {}
    <3> SUFFICES ASSUME status[r] = "ok", NEW b \in Collected(r)' PROVE FALSE
      BY DEF Culprits
    <3>1. b \in Created(r) /\ call'[b] = "failed" /\ (b[2] = Blob \/ task[<<r, b[2]>>] = "failed")
      BY <1>2, <1>3 DEF Collected
    <3>2. b \in Call
      BY <2>3, <3>1
    <3>3. Collected(r) = {} /\ Unfinished(MergedCalls(r)) = {}
      BY <2>1 DEF RequestSound, Culprits
    <3>4. CASE b \in MergedCalls(r)
      <4>1. call[b] \in Done
        BY <3>3, <3>4 DEF Unfinished
      <4>2. call[b] = "failed"
        BY <1>1, <3>1, <3>2, <4>1
      <4> QED BY <3>1, <3>3, <4>2 DEF Collected
    <3>5. CASE \E t \in Text : b \in TextCalls(r, t)
      <4>1. PICK t \in Text : b \in TextCalls(r, t)
        BY <3>5
      <4>2. b[2] = t /\ b = <<r, t, b[3]>> /\ b[3] \in Detector /\ b[2] # Blob
        BY <4>1, CallsOf, CallParts, DispatchAssumption
      <4>3. call[b] \in Done \cup {"none"}
        BY <3>1, <4>2 DEF Structure, TextSound
      <4>4. call[b] = "failed"
        BY <1>1, <3>1, <3>2, <4>3
      <4> QED BY <3>1, <3>3, <4>4 DEF Collected
    <3> QED BY <3>1, <3>4, <3>5, CallsOf
  <2>9. status[r] # "idle" => \A b \in MergedCalls(r)' : call'[b] # "none"
    BY <1>1, <1>3, <2>1, <2>2 DEF RequestSound
  <2> QED BY <1>2, <2>1, <2>5, <2>6, <2>7, <2>8, <2>9 DEF RequestSound
<1> QED BY <1>4, <1>5, <1>6 DEF Structure

-----------------------------------------------------------------------------
\* A step of a request or a text task only creates calls.
Creates == /\ UNCHANGED semaphore
           /\ marked \subseteq marked'
           /\ call' \in [Call -> CallStates]
           /\ \A c \in Call : call'[c] = call[c] \/ (call[c] = "none" /\ call'[c] = "ready")

\* Requests other than r do not notice a step that leaves all of theirs alone.
Untouched(r) ==
    /\ status'[r] = status[r] /\ demoted'[r] = demoted[r] /\ culprit'[r] = culprit[r]
    /\ \A t \in Text : task'[<<r, t>>] = task[<<r, t>>]
    /\ \A t \in Text : <<r, t>> \in marked' <=> <<r, t>> \in marked
    /\ \A c \in Call : c[1] = r => call'[c] = call[c] /\ (c \in marked' <=> c \in marked)

LEMMA UntouchedKeeps ==
  ASSUME TypeOK, Structure, NEW r \in Request, Untouched(r)
  PROVE  /\ \A c \in Call : c[1] = r => CallSound(c)'
         /\ \A t \in Text : TextSound(r, t)'
         /\ RequestSound(r)'
<1>1. /\ \A t \in Text : TextCalls(r, t)' = TextCalls(r, t)
      /\ MergedCalls(r)' = MergedCalls(r) /\ Created(r)' = Created(r)
  BY DEF Untouched, TextCalls, MergedCalls, Created, PerText
<1>2. ASSUME NEW c \in Call, c[1] = r PROVE CallSound(c)'
  <2>1. CallSound(c)
    BY DEF Structure
  <2> QED BY <1>1, <1>2, <2>1 DEF CallSound, Untouched
<1>3. ASSUME NEW t \in Text PROVE TextSound(r, t)'
  <2>1. TextSound(r, t)
    BY DEF Structure
  <2>2. \A c \in TextCalls(r, t) : c \in Call /\ c[1] = r
    BY CallsOf
  <2>3. \A d \in Detector : call'[<<r, t, d>>] = call[<<r, t, d>>]
    BY Tuples DEF Untouched
  <2>4. /\ \A c \in TextCalls(r, t) : call'[c] = call[c]
        /\ TextCalls(r, t) \cap marked' = TextCalls(r, t) \cap marked
        /\ Failed(TextCalls(r, t))' = Failed(TextCalls(r, t))
    BY <1>1, <2>2 DEF Untouched, Failed
  <2> QED BY <1>1, <2>1, <2>3, <2>4 DEF TextSound, Untouched
<1>4. RequestSound(r)'
  <2>1. RequestSound(r)
    BY DEF Structure
  <2>2. /\ \A c \in MergedCalls(r) : c \in Call /\ c[1] = r /\ call'[c] = call[c]
        /\ \A c \in Created(r) : /\ c \in Call /\ c[1] = r /\ call'[c] = call[c]
                                 /\ c[2] \in Text \cup {Blob}
    BY CallsOf, CallParts DEF Untouched
  <2>3. Unfinished(MergedCalls(r))' = Unfinished(MergedCalls(r))
    BY <1>1, <2>2 DEF Unfinished
  <2>4. Collected(r)' = Collected(r)
    BY <1>1, <2>2 DEF Collected, Untouched
  <2>5. Culprits(r)' = Culprits(r)
    BY <2>4 DEF Culprits
  <2>6. UnfinishedTasks(r)' = UnfinishedTasks(r)
    BY DEF UnfinishedTasks, TextTasks, Untouched
  <2> QED BY <1>1, <2>1, <2>2, <2>3, <2>5, <2>6 DEF RequestSound, Untouched
<1> QED BY <1>2, <1>3, <1>4

\* So only the request the step belongs to is left to look at.
LEMMA OneRequest ==
  ASSUME TypeOK, Structure, NEW r \in Request,
         \A s \in Request \ {r} : Untouched(s),
         \A c \in Call : c[1] = r => CallSound(c)',
         \A t \in Text : TextSound(r, t)',
         RequestSound(r)'
  PROVE  Structure'
BY UntouchedKeeps, CallParts DEF Structure

LEMMA BeginKeeps ==
  ASSUME TypeOK, Structure, NEW r \in Request, NEW big \in SUBSET Merged, Begin(r, big)
  PROVE  Structure' /\ Creates /\ TypeOK'
<1>1. /\ status[r] = "idle" /\ status' = [status EXCEPT ![r] = "running"]
      /\ demoted' = [demoted EXCEPT ![r] = big]
      /\ task' = [p \in TextTask |-> IF p[1] = r THEN "ready" ELSE task[p]]
      /\ call' = [c \in Call |-> IF c \in {r} \X {Blob} \X (Merged \ big) THEN "ready" ELSE call[c]]
      /\ UNCHANGED <<marked, semaphore, culprit>>
  BY DEF Begin
<1>2. /\ \A c \in Call : c[1] = r => call[c] = "none" /\ c \notin marked
      /\ \A t \in Text : <<r, t>> \notin marked
  BY <1>1 DEF Structure, CallSound, TextSound
<1>3. TypeOK'
  BY <1>1 DEF TypeOK, TextStates, CallStates, semaphore
<1>4. status'[r] = "running" /\ demoted'[r] = big
  BY <1>1 DEF TypeOK
<1>5. /\ MergedCalls(r)' = {r} \X {Blob} \X (Merged \ big)
      /\ \A c \in MergedCalls(r)' : c \in Call /\ c[1] = r /\ c[2] = Blob
      /\ MergedCalls(r)' \subseteq Created(r)'
  BY <1>4, DispatchAssumption DEF MergedCalls, Call, Created
<1>6. \A c \in Call : call'[c] = IF c \in MergedCalls(r)' THEN "ready" ELSE call[c]
  BY <1>1, <1>5
<1>7. \A t \in Text : task'[<<r, t>>] = "ready"
  BY <1>1 DEF TextTask
<1>8. ASSUME NEW s \in Request \ {r} PROVE Untouched(s)
  <2>1. \A t \in Text : task'[<<s, t>>] = task[<<s, t>>]
    BY <1>1 DEF TextTask
  <2> QED BY <1>1, <1>5, <1>6, <2>1 DEF Untouched, TypeOK
<1>9. ASSUME NEW c \in Call, c[1] = r PROVE CallSound(c)'
  BY <1>1, <1>2, <1>4, <1>5, <1>6, <1>9 DEF CallSound
<1>10. ASSUME NEW t \in Text PROVE TextSound(r, t)'
  <2>1. \A d \in Detector : <<r, t, d>> \in Call /\ <<r, t, d>>[2] # Blob
    BY Tuples, DispatchAssumption
  <2>2. \A d \in Detector : call'[<<r, t, d>>] = "none"
    BY <1>2, <1>5, <1>6, <2>1
  <2> QED BY <1>1, <1>2, <1>4, <1>7, <2>2 DEF TextSound
<1>11. RequestSound(r)'
  BY <1>4, <1>5, <1>6 DEF RequestSound
<1>12. Creates
  BY <1>1, <1>2, <1>3, <1>5, <1>6 DEF Creates, TypeOK
<1> QED BY <1>3, <1>8, <1>9, <1>10, <1>11, <1>12, OneRequest

LEMMA TextStartKeeps ==
  ASSUME TypeOK, Structure, NEW r \in Request, NEW t \in Text, TextStart(r, t)
  PROVE  Structure' /\ Creates /\ TypeOK'
<1>1. /\ task[<<r, t>>] = "ready" /\ <<r, t>> \notin marked
      /\ task' = [task EXCEPT ![<<r, t>>] = "computing"]
      /\ call' = [c \in Call |-> IF c \in TextCalls(r, t) THEN "ready" ELSE call[c]]
      /\ UNCHANGED <<status, demoted, marked, semaphore, culprit>>
  BY DEF TextStart
<1>2. TypeOK'
  BY <1>1, Tuples DEF TypeOK, TextStates, CallStates, semaphore
<1>3. /\ \A s \in Request : /\ \A u \in Text : TextCalls(s, u)' = TextCalls(s, u)
                            /\ MergedCalls(s)' = MergedCalls(s) /\ Created(s)' = Created(s)
  BY <1>1 DEF TextCalls, MergedCalls, Created, PerText
<1>4. \A c \in TextCalls(r, t) : /\ c \in Call /\ c[1] = r /\ c[2] = t /\ c[3] \in Detector
                                 /\ c = <<r, t, c[3]>> /\ c \in Created(r)
  BY CallsOf, CallParts
<1>5. status[r] # "idle" /\ \A c \in TextCalls(r, t) : call[c] = "none" /\ c \notin marked
  BY <1>1, <1>4 DEF Structure, TextSound, CallSound
<1>6. /\ task'[<<r, t>>] = "computing"
      /\ \A s \in Request, u \in Text : s # r \/ u # t => task'[<<s, u>>] = task[<<s, u>>]
  BY <1>1, Tuples DEF TypeOK
<1>7. \A c \in Call : call'[c] = IF c \in TextCalls(r, t) THEN "ready" ELSE call[c]
  BY <1>1
<1>8. ASSUME NEW s \in Request \ {r} PROVE Untouched(s)
  BY <1>1, <1>4, <1>6, <1>7 DEF Untouched
<1>9. ASSUME NEW c \in Call, c[1] = r PROVE CallSound(c)'
  <2>1. CallSound(c)
    BY DEF Structure
  <2> QED BY <1>1, <1>3, <1>4, <1>5, <1>7, <1>9, <2>1 DEF CallSound
<1>10. ASSUME NEW u \in Text, u # t PROVE TextSound(r, u)'
  <2>1. TextSound(r, u)
    BY DEF Structure
  <2>2. \A c \in Call : c[2] = u => call'[c] = call[c]
    BY <1>4, <1>7, <1>10
  <2>3. \A d \in Detector : call'[<<r, u, d>>] = call[<<r, u, d>>]
    BY <2>2, Tuples
  <2>4. \A c \in TextCalls(r, u) : call'[c] = call[c]
    BY <2>2, CallsOf
  <2>5. Failed(TextCalls(r, u))' = Failed(TextCalls(r, u))
    BY <1>3, <2>4 DEF Failed
  <2> QED BY <1>1, <1>3, <1>6, <1>10, <2>1, <2>3, <2>4, <2>5 DEF TextSound
<1>11. TextSound(r, t)'
  BY <1>1, <1>3, <1>4, <1>5, <1>6, <1>7 DEF TextSound
<1>12. RequestSound(r)'
  <2>1. RequestSound(r)
    BY DEF Structure
  <2>2. \A c \in MergedCalls(r) : c \in Call /\ c[2] = Blob /\ call'[c] = call[c]
    BY <1>4, <1>7, CallsOf, DispatchAssumption
  <2>3. Unfinished(MergedCalls(r))' = Unfinished(MergedCalls(r))
    BY <1>3, <2>2 DEF Unfinished
  <2>4. Collected(r)' = Collected(r)
    <3>1. \A c \in Created(r) : c \in Call /\ c[1] = r /\ c[2] \in Text \cup {Blob}
      BY CallsOf, CallParts
    <3>2. \A c \in Created(r) : call'[c] = "failed" <=> call[c] = "failed"
      BY <1>5, <1>7, <3>1
    <3>3. \A c \in Created(r) : (c[2] = Blob \/ task'[<<r, c[2]>>] = "failed")
                                 <=> (c[2] = Blob \/ task[<<r, c[2]>>] = "failed")
      BY <1>1, <1>6, <3>1
    <3> QED BY <1>3, <3>2, <3>3 DEF Collected
  <2>5. Culprits(r)' = Culprits(r)
    BY <2>4 DEF Culprits
  <2>6. status[r] \notin {"ok", "blocked"}
    BY <1>1, <2>1, Tuples DEF RequestSound, UnfinishedTasks, TextTasks, Done
  <2> QED BY <1>1, <1>3, <2>1, <2>2, <2>5, <2>6 DEF RequestSound
<1>13. Creates
  BY <1>1, <1>2, <1>5, <1>7 DEF Creates, TypeOK
<1> QED BY <1>2, <1>8, <1>9, <1>10, <1>11, <1>12, <1>13, OneRequest

\* A text task that is not at its end goes on to x and may mark its own calls.
LEMMA TaskMoves ==
  ASSUME TypeOK, Structure, NEW r \in Request, NEW t \in Text, NEW x \in TextStates,
         UNCHANGED <<status, demoted, call, semaphore, culprit>>,
         task' = [task EXCEPT ![<<r, t>>] = x],
         task[<<r, t>>] \notin Done \cup {"none"},
         NEW new \in SUBSET TextCalls(r, t), marked' = marked \cup new,
         \A c \in new : call[c] # "none",
         TextSound(r, t)'
  PROVE  Structure' /\ Creates /\ TypeOK'
<1>1. /\ \A c \in TextCalls(r, t) : c \in Call /\ c[1] = r /\ c[2] = t /\ c[2] # Blob
      /\ new \subseteq Call
  BY CallsOf, DispatchAssumption
<1>2. TypeOK'
  BY <1>1, Tuples DEF TypeOK, semaphore
<1>3. \A s \in Request : /\ \A u \in Text : TextCalls(s, u)' = TextCalls(s, u)
                         /\ MergedCalls(s)' = MergedCalls(s) /\ Created(s)' = Created(s)
  BY DEF TextCalls, MergedCalls, Created, PerText
<1>4. /\ task'[<<r, t>>] = x
      /\ \A s \in Request, u \in Text : s # r \/ u # t => task'[<<s, u>>] = task[<<s, u>>]
  BY Tuples DEF TypeOK
<1>5. \A p \in TextTask : p \in marked' <=> p \in marked
  BY <1>1, Tuples
<1>6. ASSUME NEW s \in Request \ {r} PROVE Untouched(s)
  <2>1. \A u \in Text : task'[<<s, u>>] = task[<<s, u>>] /\ (<<s, u>> \in marked' <=> <<s, u>> \in marked)
    BY <1>4, <1>5, Tuples
  <2>2. \A c \in Call : c[1] = s => (c \in marked' <=> c \in marked)
    BY <1>1
  <2>3. /\ status'[s] = status[s] /\ demoted'[s] = demoted[s] /\ culprit'[s] = culprit[s]
        /\ \A c \in Call : call'[c] = call[c]
    OBVIOUS
  <2> QED BY <2>1, <2>2, <2>3 DEF Untouched
<1>7. ASSUME NEW c \in Call, c[1] = r PROVE CallSound(c)'
  <2>1. CallSound(c) /\ c[1] \in Request
    BY CallParts DEF Structure
  <2>2. c \in marked' => c \in marked \/ (c[2] # Blob /\ call[c] # "none")
    BY <1>1
  <2>3. Created(c[1])' = Created(c[1])
    BY <1>3, <2>1
  <2>4. call'[c] = call[c] /\ status' = status
    OBVIOUS
  <2>5. c \in marked => c \in marked'
    OBVIOUS
  <2> HIDE DEF CallSound
  <2> QED BY <2>1, <2>2, <2>3, <2>4, <2>5 DEF CallSound
<1>8. ASSUME NEW u \in Text, u # t PROVE TextSound(r, u)'
  <2>1. TextSound(r, u)
    BY DEF Structure
  <2>2. TextCalls(r, u) \cap marked' = TextCalls(r, u) \cap marked
    BY <1>1, <1>8, CallsOf
  <2>3. Failed(TextCalls(r, u))' = Failed(TextCalls(r, u))
    BY <1>3 DEF Failed
  <2>4. <<r, u>> \in marked' <=> <<r, u>> \in marked
    BY <1>5, Tuples
  <2> QED BY <1>3, <1>4, <1>8, <2>1, <2>2, <2>3, <2>4 DEF TextSound
<1>9. RequestSound(r)'
  <2>1. RequestSound(r)
    BY DEF Structure
  <2>2. Unfinished(MergedCalls(r))' = Unfinished(MergedCalls(r))
    BY <1>3 DEF Unfinished
  <2>3. \A c \in Collected(r) : c \in Collected(r)'
    <3>1. \A c \in Created(r) : c \in Call /\ c[1] = r /\ c[2] \in Text \cup {Blob}
      BY CallsOf, CallParts
    <3>2. \A c \in Created(r) : (c[2] = Blob \/ task[<<r, c[2]>>] = "failed")
                                 => (c[2] = Blob \/ task'[<<r, c[2]>>] = "failed")
      BY <1>4, <3>1 DEF Done
    <3> QED BY <1>3, <3>2 DEF Collected
  <2>4. \A d \in Culprits(r) : d \in Culprits(r)'
    BY <2>3 DEF Culprits
  <2>5. status[r] \notin {"ok", "blocked"}
    BY <2>1 DEF RequestSound, UnfinishedTasks, TextTasks
  <2> QED BY <1>3, <2>1, <2>2, <2>4, <2>5 DEF RequestSound
<1>10. Creates
  BY DEF Creates, TypeOK
<1> QED BY <1>2, <1>6, <1>7, <1>8, <1>9, <1>10, OneRequest

LEMMA TextAbortKeeps ==
  ASSUME TypeOK, Structure, NEW r \in Request, NEW t \in Text, TextAbort(r, t)
  PROVE  Structure' /\ Creates /\ TypeOK'
<1> DEFINE new == Unfinished(TextCalls(r, t))
<1>1. /\ task[<<r, t>>] = "computing"
      /\ Failed(TextCalls(r, t)) # {} \/ <<r, t>> \in marked
      /\ task' = [task EXCEPT ![<<r, t>>] = "aborting"]
      /\ marked' = marked \cup new
      /\ UNCHANGED <<status, demoted, call, semaphore, culprit>>
  BY DEF TextAbort
<1>2. TextSound(r, t) /\ new \subseteq TextCalls(r, t)
  BY DEF Structure, Unfinished
<1>3. \A c \in new : call[c] # "none"
  BY <1>1, <1>2 DEF TextSound
<1>4. TextCalls(r, t)' = TextCalls(r, t) /\ Failed(TextCalls(r, t))' = Failed(TextCalls(r, t))
  BY <1>1 DEF TextCalls, PerText, Failed
<1>5. task'[<<r, t>>] = "aborting"
  BY <1>1, Tuples DEF TypeOK
<1>6. <<r, t>> \in marked' <=> <<r, t>> \in marked
  BY <1>1, <1>2, Tuples, CallsOf
<1> HIDE DEF new
<1>7. TextSound(r, t)'
  BY <1>1, <1>2, <1>4, <1>5, <1>6 DEF TextSound
<1>8. "aborting" \in TextStates /\ task[<<r, t>>] \notin Done \cup {"none"}
  BY <1>1 DEF TextStates, Done
<1> QED BY <1>1, <1>2, <1>3, <1>7, <1>8, TaskMoves

LEMMA TextFinishKeeps ==
  ASSUME TypeOK, Structure, NEW r \in Request, NEW t \in Text, TextFinish(r, t)
  PROVE  Structure' /\ Creates /\ TypeOK'
<1> DEFINE x == IF Failed(TextCalls(r, t)) # {} THEN "failed"
                ELSE IF <<r, t>> \in marked THEN "cancelled" ELSE "ok"
<1>1. /\ task[<<r, t>>] \in {"computing", "aborting"}
      /\ Unfinished(TextCalls(r, t)) = {}
      /\ task' = [task EXCEPT ![<<r, t>>] = x]
      /\ UNCHANGED <<status, demoted, call, marked, semaphore, culprit>>
  BY DEF TextFinish
<1>2. TextSound(r, t)
  BY DEF Structure
<1>3. /\ x \in {"failed", "cancelled", "ok"}
      /\ x = "failed" <=> Failed(TextCalls(r, t)) # {}
      /\ x = "cancelled" => <<r, t>> \in marked
      /\ x = "ok" => task[<<r, t>>] = "computing"
  BY <1>1, <1>2 DEF TextSound
<1>4. TextCalls(r, t)' = TextCalls(r, t) /\ Failed(TextCalls(r, t))' = Failed(TextCalls(r, t))
  BY <1>1 DEF TextCalls, PerText, Failed
<1>5. task'[<<r, t>>] = x
  BY <1>1, Tuples DEF TypeOK
<1>6. \A d \in Detector : call[<<r, t, d>>] \in Done \cup {"none"}
  <2> SUFFICES ASSUME NEW d \in Detector, call[<<r, t, d>>] # "none"
               PROVE  call[<<r, t, d>>] \in Done
    OBVIOUS
  <2> DEFINE c == <<r, t, d>>
  <2>1. c \in Call /\ c[1] = r /\ c[2] = t /\ t # Blob
    BY Tuples, DispatchAssumption
  <2>2. c \in Created(r)
    BY <2>1 DEF Structure, CallSound
  <2>3. c \in TextCalls(r, t)
    BY <2>1, <2>2, CallsOf
  <2> QED BY <1>1, <2>3 DEF Unfinished
<1> HIDE DEF x
<1>7. \A c \in TextCalls(r, t) : call[c] # "none"
  BY <1>1, <1>2 DEF TextSound
<1>8. TextSound(r, t)'
  BY <1>1, <1>2, <1>3, <1>4, <1>5, <1>6, <1>7 DEF TextSound
<1>9. x \in TextStates /\ task[<<r, t>>] \notin Done \cup {"none"}
  BY <1>1, <1>3 DEF TextStates, Done
<1>10. {} \in SUBSET TextCalls(r, t) /\ marked' = marked \cup {} /\ \A c \in {} : call[c] # "none"
  BY <1>1
<1> QED BY <1>1, <1>8, <1>9, <1>10, TaskMoves

LEMMA TextCancelledKeeps ==
  ASSUME TypeOK, Structure, NEW r \in Request, NEW t \in Text, TextCancelled(r, t)
  PROVE  Structure' /\ Creates /\ TypeOK'
<1>1. /\ task[<<r, t>>] = "ready" /\ <<r, t>> \in marked
      /\ task' = [task EXCEPT ![<<r, t>>] = "cancelled"]
      /\ UNCHANGED <<status, demoted, call, marked, semaphore, culprit>>
  BY DEF TextCancelled
<1>2. TextSound(r, t)
  BY DEF Structure
<1>3. task'[<<r, t>>] = "cancelled"
  BY <1>1, Tuples DEF TypeOK
<1>4. TextSound(r, t)'
  BY <1>1, <1>2, <1>3 DEF TextSound
<1>5. "cancelled" \in TextStates /\ task[<<r, t>>] \notin Done \cup {"none"}
  BY <1>1 DEF TextStates, Done
<1>6. {} \in SUBSET TextCalls(r, t) /\ marked' = marked \cup {} /\ \A c \in {} : call[c] # "none"
  BY <1>1
<1> QED BY <1>1, <1>4, <1>5, <1>6, TaskMoves

LEMMA RequestAbortKeeps ==
  ASSUME TypeOK, Structure, NEW r \in Request, RequestAbort(r)
  PROVE  Structure' /\ Creates /\ TypeOK'
<1>1. /\ status[r] = "running" /\ Culprits(r) # {}
      /\ status' = [status EXCEPT ![r] = "aborting"]
      /\ marked' = (marked \cup UnfinishedTasks(r)) \cup Unfinished(MergedCalls(r))
      /\ UNCHANGED <<demoted, task, call, semaphore, culprit>>
  BY DEF RequestAbort
<1>2. /\ \A p \in UnfinishedTasks(r) : p \in TextTask /\ p[1] = r
      /\ \A c \in Unfinished(MergedCalls(r)) : c \in MergedCalls(r) /\ c \in Call /\ c[1] = r /\ c[2] = Blob
  BY CallsOf DEF UnfinishedTasks, TextTasks, TextTask, Unfinished
<1>3. status'[r] = "aborting"
  BY <1>1 DEF TypeOK
<1>4. TypeOK'
  BY <1>1, <1>2 DEF TypeOK, semaphore
<1>5. \A s \in Request : /\ \A u \in Text : TextCalls(s, u)' = TextCalls(s, u)
                         /\ MergedCalls(s)' = MergedCalls(s) /\ Created(s)' = Created(s)
  BY <1>1 DEF TextCalls, MergedCalls, Created, PerText
<1>6. ASSUME NEW s \in Request \ {r} PROVE Untouched(s)
  <2>1. \A t \in Text : <<s, t>> \in TextTask /\ <<s, t>> \notin Call /\ <<s, t>>[1] = s
    BY Tuples
  <2>2. \A c \in Call : c \notin TextTask
    BY Tuples
  <2> QED BY <1>1, <1>2, <2>1, <2>2 DEF Untouched, TypeOK
<1>7. ASSUME NEW c \in Call, c[1] = r PROVE CallSound(c)'
  <2>1. CallSound(c) /\ RequestSound(r)
    BY DEF Structure
  <2>2. c \in marked' => c \in marked \/ (c \in MergedCalls(r) /\ call[c] # "none")
    BY <1>1, <1>2, <2>1, Tuples DEF RequestSound
  <2> QED BY <1>1, <1>3, <1>5, <1>7, <2>1, <2>2 DEF CallSound
<1>8. ASSUME NEW t \in Text PROVE TextSound(r, t)'
  <2>1. TextSound(r, t)
    BY DEF Structure
  <2>2. TextCalls(r, t) \cap marked' = TextCalls(r, t) \cap marked
    <3>1. \A c \in TextCalls(r, t) : c \in Call /\ c[2] # Blob
      BY CallsOf, DispatchAssumption
    <3> QED BY <1>1, <1>2, <3>1, Tuples
  <2>3. Failed(TextCalls(r, t))' = Failed(TextCalls(r, t))
    BY <1>1, <1>5 DEF Failed
  <2> QED BY <1>1, <1>3, <1>5, <2>1, <2>2, <2>3 DEF TextSound
<1>9. RequestSound(r)'
  <2>1. RequestSound(r)
    BY DEF Structure
  <2>2. Collected(r)' = Collected(r)
    BY <1>1, <1>5 DEF Collected
  <2>3. Culprits(r)' = Culprits(r)
    BY <2>2 DEF Culprits
  <2> QED BY <1>1, <1>3, <1>5, <2>1, <2>3 DEF RequestSound
<1>10. Creates
  BY <1>1 DEF Creates, TypeOK
<1> QED BY <1>4, <1>6, <1>7, <1>8, <1>9, <1>10, OneRequest

LEMMA RequestFinishKeeps ==
  ASSUME TypeOK, Structure, NEW r \in Request, RequestFinish(r)
  PROVE  Structure' /\ Creates /\ TypeOK'
<1>1. /\ status[r] \in {"running", "aborting"}
      /\ UnfinishedTasks(r) = {} /\ Unfinished(MergedCalls(r)) = {}
      /\ UNCHANGED <<demoted, task, call, marked, semaphore>>
  BY DEF RequestFinish
<1>2. \A c \in Collected(r) : c[3] \in Detector
  BY CallsOf, CallParts DEF Collected
<1>3. \/ /\ Culprits(r) = {} /\ status'[r] = "ok" /\ culprit' = culprit
         /\ status' = [status EXCEPT ![r] = "ok"]
      \/ /\ culprit'[r] \in Culprits(r) /\ status'[r] = "blocked"
         /\ status' = [status EXCEPT ![r] = "blocked"]
         /\ \E d \in Detector : culprit' = [culprit EXCEPT ![r] = d]
  <2>1. CASE Culprits(r) = {}
    BY <2>1 DEF RequestFinish, TypeOK
  <2>2. CASE Culprits(r) # {}
    <3>1. /\ status' = [status EXCEPT ![r] = "blocked"]
          /\ \E d \in Culprits(r) : culprit' = [culprit EXCEPT ![r] = d]
      BY <2>2 DEF RequestFinish
    <3>2. PICK d \in Culprits(r) : culprit' = [culprit EXCEPT ![r] = d]
      BY <3>1
    <3>3. d \in Detector
      BY <1>2 DEF Culprits
    <3> QED BY <3>1, <3>2, <3>3 DEF TypeOK
  <2> QED BY <2>1, <2>2
<1>4. TypeOK'
  BY <1>1, <1>3 DEF TypeOK, semaphore
<1>5. \A s \in Request : /\ \A u \in Text : TextCalls(s, u)' = TextCalls(s, u)
                         /\ MergedCalls(s)' = MergedCalls(s) /\ Created(s)' = Created(s)
  BY <1>1 DEF TextCalls, MergedCalls, Created, PerText
<1>6. ASSUME NEW s \in Request \ {r} PROVE Untouched(s)
  BY <1>1, <1>3 DEF Untouched, TypeOK
<1>7. /\ UnfinishedTasks(r)' = UnfinishedTasks(r)
      /\ Unfinished(MergedCalls(r))' = Unfinished(MergedCalls(r))
      /\ Culprits(r)' = Culprits(r)
      /\ \A t \in Text : Failed(TextCalls(r, t))' = Failed(TextCalls(r, t))
  BY <1>1, <1>5 DEF UnfinishedTasks, TextTasks, Unfinished, Collected, Culprits, Failed
<1>8. status[r] = "running" => Culprits(r) = {} \/ \A t \in Text : <<r, t>> \notin marked
  BY DEF Structure, TextSound
<1>9. status'[r] = "ok" => status[r] = "running"
  BY <1>1, <1>3 DEF Structure, RequestSound
<1>10. ASSUME NEW c \in Call, c[1] = r PROVE CallSound(c)'
  <2>1. CallSound(c)
    BY DEF Structure
  <2> QED BY <1>1, <1>3, <1>5, <1>9, <1>10, <2>1 DEF CallSound
<1>11. ASSUME NEW t \in Text PROVE TextSound(r, t)'
  <2>1. TextSound(r, t)
    BY DEF Structure
  <2> QED BY <1>1, <1>3, <1>5, <1>7, <1>9, <2>1 DEF TextSound
<1>12. RequestSound(r)'
  <2>1. RequestSound(r)
    BY DEF Structure
  <2> QED BY <1>1, <1>3, <1>5, <1>7, <2>1 DEF RequestSound
<1>13. Creates
  BY <1>1 DEF Creates, TypeOK
<1> QED BY <1>4, <1>6, <1>10, <1>11, <1>12, <1>13, OneRequest

-----------------------------------------------------------------------------
\* Calls are finite in number, so the sets of calls in a state can be counted.
LEMMA CallFinite == IsFiniteSet(Call)
<1> DEFINE Source == (Request \X (Text \cup {Blob})) \X Detector
           f == [s \in Source |-> <<s[1][1], s[1][2], s[2]>>]
<1>1. IsFiniteSet(Text \cup {Blob})
  BY FS_AddElement, DispatchAssumption
<1>2. IsFiniteSet(Source)
  BY <1>1, FS_Product, DispatchAssumption
<1>3. f \in Surjection(Source, Call)
  <2>1. f \in [Source -> Call]
    BY DEF Call
  <2>2. \A c \in Call : \E s \in Source : f[s] = c
    <3> SUFFICES ASSUME NEW c \in Call PROVE \E s \in Source : f[s] = c
      OBVIOUS
    <3>1. <<<<c[1], c[2]>>, c[3]>> \in Source
      BY CallParts
    <3>2. f[<<<<c[1], c[2]>>, c[3]>>] = c
      BY <3>1, CallParts
    <3> QED BY <3>1, <3>2
  <2> QED BY <2>1, <2>2 DEF Surjection
<1> QED BY <1>2, <1>3, FS_Surjection

LEMMA InFinite ==
  ASSUME NEW cs, NEW d, NEW s
  PROVE  /\ IsFiniteSet(In(cs, d, s)) /\ Cardinality(In(cs, d, s)) \in Nat
         /\ Cardinality(In(cs, d, s)) = 0 <=> In(cs, d, s) = {}
<1>1. In(cs, d, s) \in SUBSET Call
  BY DEF In
<1>2. IsFiniteSet(In(cs, d, s))
  BY <1>1, CallFinite, FS_Subset
<1> QED BY <1>2, FS_CardinalityType, FS_EmptySet

\* One call goes to state x: the counts of its detector follow.
Shift(cs, ds, c, x) ==
    /\ cs \in [Call -> CallStates] /\ c \in Call /\ x \in CallStates
    /\ cs[c] # x /\ ds = [cs EXCEPT ![c] = x]

LEMMA OneMoved ==
  ASSUME NEW cs, NEW ds, NEW c, NEW x, Shift(cs, ds, c, x), NEW d, d = c[3]
  PROVE  /\ ds \in [Call -> CallStates]
         /\ In(ds, d, x) = In(cs, d, x) \cup {c}
         /\ Cardinality(In(ds, d, x)) = Cardinality(In(cs, d, x)) + 1
         /\ In(ds, d, cs[c]) = In(cs, d, cs[c]) \ {c}
         /\ Cardinality(In(ds, d, cs[c])) = Cardinality(In(cs, d, cs[c])) - 1
         /\ \A s \in CallStates \ {x, cs[c]} : In(ds, d, s) = In(cs, d, s)
<1>1. /\ ds \in [Call -> CallStates]
      /\ In(ds, d, x) = In(cs, d, x) \cup {c} /\ c \notin In(cs, d, x)
      /\ In(ds, d, cs[c]) = In(cs, d, cs[c]) \ {c} /\ c \in In(cs, d, cs[c])
      /\ \A s \in CallStates \ {x, cs[c]} : In(ds, d, s) = In(cs, d, s)
  BY DEF In, Shift
<1>2. IsFiniteSet(In(cs, d, x)) /\ IsFiniteSet(In(cs, d, cs[c]))
  BY InFinite
<1>3. Cardinality(In(cs, d, x) \cup {c}) = Cardinality(In(cs, d, x)) + 1
  BY <1>1, <1>2, FS_AddElement
<1>4. Cardinality(In(cs, d, cs[c]) \ {c}) = Cardinality(In(cs, d, cs[c])) - 1
  BY <1>1, <1>2, FS_RemoveElement
<1> QED BY <1>1, <1>3, <1>4

\* Taking a call out of a queue that holds nobody twice leaves the others.
LEMMA WithoutKeeps ==
  ASSUME NEW q \in Seq(Call), NoTwice(q), NEW c \in Range(q)
  PROVE  /\ Without(q, c) \in Seq(Call) /\ NoTwice(Without(q, c))
         /\ Range(Without(q, c)) = Range(q) \ {c}
<1> DEFINE p == CHOOSE i \in DOMAIN q : q[i] = c
           u == Without(q, c)
           v == SubSeq(q, 1, p - 1)
           w == SubSeq(q, p + 1, Len(q))
<1>1. Len(q) \in Nat /\ DOMAIN q = 1..Len(q)
  BY LenProperties
<1>2. p \in 1..Len(q) /\ q[p] = c
  BY <1>1 DEF Range
<1>3. u = v \o w
  BY DEF Without, RemoveAt
<1> HIDE DEF p, u
<1>4. \A i \in 1..Len(q) : q[i] \in Call
  BY ElementOfSeq
<1>5. v \in Seq(Call) /\ Len(v) = p - 1 /\ \A i \in 1..(p - 1) : v[i] = q[i]
  <2>1. 1 \in Int /\ p - 1 \in Int /\ \A i \in 1..(p - 1) : q[i] \in Call
    BY <1>1, <1>2, <1>4
  <2>2. /\ v \in Seq(Call) /\ Len(v) = IF 1 <= p - 1 THEN (p - 1) - 1 + 1 ELSE 0
        /\ \A i \in 1..((p - 1) - 1 + 1) : v[i] = q[1 + i - 1]
    BY <2>1, SubSeqProperties
  <2> HIDE DEF v
  <2> QED BY <1>1, <1>2, <2>2
<1>6. w \in Seq(Call) /\ Len(w) = Len(q) - p /\ \A i \in 1..(Len(q) - p) : w[i] = q[p + i]
  <2>1. p + 1 \in Int /\ Len(q) \in Int /\ \A i \in (p + 1)..Len(q) : q[i] \in Call
    BY <1>1, <1>2, <1>4
  <2>2. /\ w \in Seq(Call) /\ Len(w) = IF p + 1 <= Len(q) THEN Len(q) - (p + 1) + 1 ELSE 0
        /\ \A i \in 1..(Len(q) - (p + 1) + 1) : w[i] = q[p + 1 + i - 1]
    BY <2>1, SubSeqProperties
  <2> HIDE DEF w
  <2>3. ASSUME NEW i \in 1..(Len(q) - p) PROVE w[i] = q[p + i]
    <3>1. i \in 1..(Len(q) - (p + 1) + 1) /\ p + 1 + i - 1 = p + i
      BY <1>1, <1>2
    <3> QED BY <2>2, <3>1
  <2>4. Len(w) = Len(q) - p
    <3>1. Len(w) = IF p + 1 <= Len(q) THEN Len(q) - (p + 1) + 1 ELSE 0
      BY <2>2
    <3>2. Len(q) \in Nat /\ p \in 1..Len(q)
      BY <1>1, <1>2
    <3>3. (IF p + 1 <= Len(q) THEN Len(q) - (p + 1) + 1 ELSE 0) = Len(q) - p
      BY <3>2
    <3> QED BY <3>1, <3>3
  <2> QED BY <2>2, <2>3, <2>4
<1> HIDE DEF v, w
<1>7. /\ u \in Seq(Call) /\ Len(u) = Len(q) - 1
      /\ \A i \in 1..(Len(q) - 1) : u[i] = IF i < p THEN q[i] ELSE q[i + 1]
  <2>1. /\ u \in Seq(Call) /\ Len(u) = (p - 1) + (Len(q) - p)
        /\ \A i \in 1..((p - 1) + (Len(q) - p)) : u[i] = IF i <= p - 1 THEN v[i] ELSE w[i - (p - 1)]
    <3>1. /\ v \o w \in Seq(Call) /\ Len(v \o w) = Len(v) + Len(w)
          /\ \A i \in 1..(Len(v) + Len(w)) : (v \o w)[i] = IF i <= Len(v) THEN v[i] ELSE w[i - Len(v)]
      BY <1>5, <1>6, ConcatProperties
    <3>2. Len(v) = p - 1 /\ Len(w) = Len(q) - p
      BY <1>5, <1>6
    <3> QED BY <1>3, <3>1, <3>2
  <2>2. ASSUME NEW i \in 1..(Len(q) - 1) PROVE u[i] = IF i < p THEN q[i] ELSE q[i + 1]
    <3>1. i \in 1..((p - 1) + (Len(q) - p)) /\ (i <= p - 1 <=> i < p)
      BY <1>1, <1>2
    <3>2. i < p => v[i] = q[i]
      BY <1>1, <1>2, <1>5
    <3>3. ~(i < p) => w[i - (p - 1)] = q[i + 1]
      <4> SUFFICES ASSUME ~(i < p) PROVE w[i - (p - 1)] = q[i + 1]
        OBVIOUS
      <4>1. i - (p - 1) \in 1..(Len(q) - p) /\ p + (i - (p - 1)) = i + 1
        BY <1>1, <1>2
      <4> QED BY <1>6, <4>1
    <3> QED BY <2>1, <3>1, <3>2, <3>3
  <2> QED BY <1>1, <1>2, <2>1, <2>2
<1>8. DOMAIN u = 1..(Len(q) - 1)
  BY <1>7, LenProperties
<1>9. \A i \in DOMAIN u : LET k == IF i < p THEN i ELSE i + 1
                          IN k \in 1..Len(q) /\ k # p /\ u[i] = q[k]
  BY <1>1, <1>2, <1>7, <1>8
<1>10. \A k \in 1..Len(q) : k # p => LET i == IF k < p THEN k ELSE k - 1
                                     IN i \in DOMAIN u /\ u[i] = q[k]
  BY <1>1, <1>2, <1>7, <1>8
<1>11. \A i, j \in 1..Len(q) : q[i] = q[j] => i = j
  BY <1>1 DEF NoTwice
<1>12. NoTwice(u)
  <2> SUFFICES ASSUME NEW i \in DOMAIN u, NEW j \in DOMAIN u, u[i] = u[j] PROVE i = j
    BY DEF NoTwice
  <2> DEFINE k(n) == IF n < p THEN n ELSE n + 1
  <2>1. k(i) \in 1..Len(q) /\ k(j) \in 1..Len(q) /\ q[k(i)] = q[k(j)]
    BY <1>9
  <2>2. k(i) = k(j)
    BY <1>11, <2>1
  <2> QED BY <1>1, <1>2, <1>8, <2>2
<1>13. Range(u) = Range(q) \ {c}
  <2>1. ASSUME NEW i \in DOMAIN u PROVE u[i] \in Range(q) \ {c}
    <3>1. PICK k \in 1..Len(q) : k # p /\ u[i] = q[k]
      BY <1>9
    <3> QED BY <1>1, <1>2, <1>11, <3>1 DEF Range
  <2>2. ASSUME NEW e \in Range(q) \ {c} PROVE e \in Range(u)
    <3>1. PICK k \in 1..Len(q) : q[k] = e
      BY <1>1 DEF Range
    <3>2. k # p
      BY <1>2, <3>1
    <3> QED BY <1>10, <3>1, <3>2 DEF Range
  <2> QED BY <2>1, <2>2 DEF Range
<1> QED BY <1>7, <1>12, <1>13 DEF u

-----------------------------------------------------------------------------
\* The calls are as in cs but those in first are handed a permit.
Chosen(first, n, most, q, cs) == /\ n \in Nat /\ most \in Nat /\ most <= n /\ most \in {1, n}
                                 /\ first \subseteq Waiters(q, cs)
                                 /\ Cardinality(first) <= most
                                 /\ Cardinality(first) = most \/ first = Waiters(q, cs)
Handed(cs, ds, first) == ds = [c \in Call |-> IF c \in first THEN "woken" ELSE cs[c]]

\* After waking, the semaphore is as it should be, whoever was handed a permit.
LEMMA WakeKeeps ==
  ASSUME NEW cs, NEW n, NEW most, NEW q, NEW d, NEW first, NEW ds,
         cs \in [Call -> CallStates], Queued(cs, q, d), Balanced(cs, n, d),
         Chosen(first, n, most, q, cs), Handed(cs, ds, first)
  PROVE  /\ first \subseteq In(cs, d, "waiting")
         /\ ds \in [Call -> CallStates]
         /\ Semaphore(ds, marked, n - Cardinality(first), q, Cardinality(In(cs, d, "running")), d)
<1> USE DEF Chosen
<1>1. Waiters(q, cs) = In(cs, d, "waiting") \ marked
  <2>1. Range(q) = In(cs, d, "waiting") \cup In(cs, d, "woken")
    BY DEF Queued
  <2> QED BY <2>1 DEF Waiters, In
<1>2. first \subseteq In(cs, d, "waiting") /\ first \cap marked = {}
  BY <1>1
<1>3. ds \in [Call -> CallStates]
  BY DEF CallStates, Handed
<1>4. /\ In(ds, d, "waiting") = In(cs, d, "waiting") \ first
      /\ In(ds, d, "woken") = In(cs, d, "woken") \cup first
      /\ In(ds, d, "running") = In(cs, d, "running")
      /\ In(cs, d, "woken") \cap first = {}
  BY <1>2 DEF In, Handed
<1>5. /\ IsFiniteSet(first) /\ Cardinality(first) \in Nat
      /\ Cardinality(first) = 0 <=> first = {}
  <2>1. IsFiniteSet(In(cs, d, "waiting"))
    BY InFinite
  <2>2. IsFiniteSet(first)
    BY <1>2, <2>1, FS_Subset
  <2> QED BY <2>2, FS_CardinalityType, FS_EmptySet
<1>6. Cardinality(In(ds, d, "woken")) = Cardinality(In(cs, d, "woken")) + Cardinality(first)
  <2>1. IsFiniteSet(In(cs, d, "woken")) /\ Cardinality(In(cs, d, "woken")) \in Nat
    BY InFinite
  <2>2. Cardinality(In(cs, d, "woken") \cup first)
          = Cardinality(In(cs, d, "woken")) + Cardinality(first)
             - Cardinality(In(cs, d, "woken") \cap first)
    BY <1>5, <2>1, FS_Union
  <2>3. Cardinality(In(cs, d, "woken") \cap first) = 0
    BY <1>4, FS_EmptySet
  <2>4. Cardinality(In(cs, d, "woken") \cup first)
          = Cardinality(In(cs, d, "woken")) + Cardinality(first)
    BY <1>5, <2>1, <2>2, <2>3
  <2>5. In(ds, d, "woken") = In(cs, d, "woken") \cup first
    BY <1>4
  <2> QED BY <2>4, <2>5
<1>7. n - Cardinality(first) \in Nat
  BY <1>5
<1>8. Queued(ds, q, d)
  BY <1>2, <1>4 DEF Queued
<1>9. Balanced(ds, n - Cardinality(first), d)
  <2>1. Cardinality(In(cs, d, "woken")) \in Nat /\ Cardinality(In(cs, d, "running")) \in Nat
    BY InFinite
  <2>2. n + Cardinality(In(cs, d, "woken")) + Cardinality(In(cs, d, "running")) = Permits[d]
    BY DEF Balanced
  <2>3. (n - Cardinality(first)) + Cardinality(In(ds, d, "woken")) + Cardinality(In(ds, d, "running"))
          = Permits[d]
    BY <1>4, <1>5, <1>6, <2>1, <2>2
  <2> QED BY <2>3 DEF Balanced
<1>10. Told(ds, marked, n - Cardinality(first), d)
  <2>1. CASE first = Waiters(q, cs)
    BY <1>1, <1>4, <2>1 DEF Told
  <2>2. CASE Cardinality(first) = most /\ most = n
    BY <1>5, <2>2 DEF Told
  <2>3. CASE Cardinality(first) = most /\ most = 1
    BY <1>4, <1>5, <2>3 DEF Told
  <2> QED BY <2>1, <2>2, <2>3
<1> QED BY <1>2, <1>3, <1>4, <1>7, <1>8, <1>9, <1>10 DEF Semaphore

\* A step that moves no call of detector e among these states leaves e's semaphore.
LEMMA Bystander ==
  ASSUME NEW cs, NEW ds, NEW m, NEW o, NEW n, NEW q, NEW f, NEW d,
         Semaphore(cs, m, n, q, f, d), m \subseteq o,
         In(ds, d, "waiting") = In(cs, d, "waiting"),
         In(ds, d, "woken") = In(cs, d, "woken"),
         In(ds, d, "running") = In(cs, d, "running")
  PROVE  Semaphore(ds, o, n, q, f, d)
BY DEF Semaphore, Queued, Balanced, Told

\* So a step on one semaphore is all there is to look at.
LEMMA OneSemaphore ==
  ASSUME TypeOK, Semaphores, NEW c \in Call, c[3] \in Gated,
         UNCHANGED <<status, demoted, task, marked, culprit>>,
         call' \in [Call -> CallStates],
         \A b \in Call : b[3] # c[3] => call'[b] = call[b],
         NEW n, NEW q, NEW f, Semaphore(call', marked, n, q, f, c[3]),
         value' = [value EXCEPT ![c[3]] = n],
         queue' = [queue EXCEPT ![c[3]] = q],
         inflight' = [inflight EXCEPT ![c[3]] = f]
  PROVE  Semaphores' /\ TypeOK'
<1>1. n \in Nat /\ q \in Seq(Call) /\ f \in Nat
  BY InFinite DEF Semaphore, Queued
<1>2. TypeOK'
  BY <1>1 DEF TypeOK
<1>3. ASSUME NEW e \in Gated
      PROVE  Semaphore(call', marked', value'[e], queue'[e], inflight'[e], e)
  <2>1. CASE e = c[3]
    BY <2>1 DEF TypeOK
  <2>2. CASE e # c[3]
    <3>1. Semaphore(call, marked, value[e], queue[e], inflight[e], e)
      BY DEF Semaphores
    <3>2. \A s : In(call', e, s) = In(call, e, s)
      BY <2>2 DEF In
    <3>3. value'[e] = value[e] /\ queue'[e] = queue[e] /\ inflight'[e] = inflight[e]
          /\ marked' = marked
      BY <2>2 DEF TypeOK
    <3> QED BY <3>1, <3>2, <3>3, Bystander
  <2> QED BY <2>1, <2>2
<1> QED BY <1>2, <1>3 DEF Semaphores

\* A step that wakes: call c goes to x, then the first waiters are woken.
LEMMA WakingStep ==
  ASSUME TypeOK, Semaphores, NEW c \in Call, c[3] \in Gated,
         NEW x \in Done \cup {"running"},
         call[c] \notin Done \cup {"none"},
         x = "failed" => c[3] \in FailClosed, x = "degraded" => c[3] \notin FailClosed,
         x = "cancelled" => c \in marked,
         NEW cs, cs = [call EXCEPT ![c] = x],
         NEW n \in Nat, NEW most \in Nat, most <= n, most \in {1, n}, NEW q,
         Queued(cs, q, c[3]), Balanced(cs, n, c[3]),
         Wake(c[3], n, most, q, cs),
         inflight' = [inflight EXCEPT ![c[3]] = Cardinality(In(cs, c[3], "running"))],
         UNCHANGED <<status, demoted, task, marked, culprit>>
  PROVE  Moves(c) /\ Semaphores' /\ TypeOK'
<1> DEFINE d == c[3]
<1>1. cs \in [Call -> CallStates]
  BY DEF TypeOK, CallStates, Done
<1>2. PICK first \in SUBSET Waiters(q, cs) :
         /\ Cardinality(first) <= most
         /\ Cardinality(first) = most \/ first = Waiters(q, cs)
         /\ call' = [b \in Call |-> IF b \in first THEN "woken" ELSE cs[b]]
         /\ value' = [value EXCEPT ![d] = n - Cardinality(first)]
         /\ queue' = [queue EXCEPT ![d] = q]
  BY DEF Wake
<1>3. /\ first \subseteq In(cs, d, "waiting") /\ call' \in [Call -> CallStates]
      /\ Semaphore(call', marked, n - Cardinality(first), q, Cardinality(In(cs, d, "running")), d)
  <2>1. Handed(cs, call', first) /\ Chosen(first, n, most, q, cs)
    BY <1>2 DEF Handed, Chosen
  <2> QED BY <1>1, <2>1, WakeKeeps
<1>4. \A b \in Call : /\ b \in first => b[3] = d /\ cs[b] = "waiting"
                      /\ b # c => cs[b] = call[b]
                      /\ cs[c] = x
  BY <1>3 DEF In, TypeOK
<1>5. c \notin first
  BY <1>4 DEF Done
<1>6. \A b \in Call : b[3] # d => call'[b] = call[b]
  BY <1>2, <1>4
<1>7. Moves(c)
  <2>1. call'[c] = x
    BY <1>2, <1>4, <1>5
  <2>2. \A b \in Call \ {c} : call'[b] = call[b] \/ (call[b] = "waiting" /\ call'[b] = "woken")
    BY <1>2, <1>4
  <2> QED BY <1>3, <2>1, <2>2 DEF Moves, Done
<1> QED BY <1>2, <1>3, <1>6, <1>7, OneSemaphore

\* A step of a call outside its semaphore: ungated, or cancelled before it began.
LEMMA QuietStep ==
  ASSUME TypeOK, Semaphores, NEW c \in Call, NEW x \in Done \cup {"running"},
         call[c] \notin Done \cup {"none"},
         x = "failed" => c[3] \in FailClosed, x = "degraded" => c[3] \notin FailClosed,
         x = "cancelled" => c \in marked,
         call' = [call EXCEPT ![c] = x],
         c[3] \notin Gated \/ (call[c] = "ready" /\ x = "cancelled"),
         UNCHANGED semaphore, UNCHANGED <<status, demoted, task, marked, culprit>>
  PROVE  Moves(c) /\ Semaphores' /\ TypeOK'
<1>1. call' \in [Call -> CallStates] /\ call'[c] = x
  BY DEF TypeOK, CallStates, Done
<1>2. TypeOK'
  BY <1>1 DEF TypeOK, semaphore
<1>3. Moves(c)
  BY <1>1 DEF Moves, Done, TypeOK
<1>4. ASSUME NEW e \in Gated
      PROVE  Semaphore(call', marked', value'[e], queue'[e], inflight'[e], e)
  <2>1. Semaphore(call, marked, value[e], queue[e], inflight[e], e)
    BY DEF Semaphores
  <2>2. \A b \in Call : b # c => call'[b] = call[b]
    BY DEF TypeOK
  <2>3. ASSUME NEW s \in {"waiting", "woken", "running"} PROVE In(call', e, s) = In(call, e, s)
    <3>1. CASE c[3] # e
      BY <2>2, <3>1 DEF In
    <3>2. CASE call[c] = "ready" /\ x = "cancelled"
      BY <1>1, <2>2, <3>2 DEF In
    <3> QED BY <3>1, <3>2
  <2>4. /\ In(call', e, "waiting") = In(call, e, "waiting")
        /\ In(call', e, "woken") = In(call, e, "woken")
        /\ In(call', e, "running") = In(call, e, "running")
    BY <2>3
  <2>5. marked \subseteq marked' /\ value' = value /\ queue' = queue /\ inflight' = inflight
    BY DEF semaphore
  <2> QED BY <2>1, <2>4, <2>5, Bystander
<1> QED BY <1>2, <1>3, <1>4 DEF Semaphores

\* What is known of the semaphore of call c, and of its calls once c is in state x.
LEMMA SemaphoreOf ==
  ASSUME TypeOK, Semaphores, NEW c, NEW x, NEW cs, Shift(call, cs, c, x), NEW d, d = c[3], d \in Gated
  PROVE  /\ value[d] \in Nat /\ Queued(call, queue[d], d)
         /\ Balanced(call, value[d], d) /\ Told(call, marked, value[d], d)
         /\ inflight[d] = Cardinality(In(call, d, "running"))
         /\ Cardinality(In(call, d, "running")) \in Nat /\ Cardinality(In(call, d, "woken")) \in Nat
         /\ cs \in [Call -> CallStates]
         /\ In(cs, d, x) = In(call, d, x) \cup {c}
         /\ Cardinality(In(cs, d, x)) = Cardinality(In(call, d, x)) + 1
         /\ In(cs, d, call[c]) = In(call, d, call[c]) \ {c}
         /\ Cardinality(In(cs, d, call[c])) = Cardinality(In(call, d, call[c])) - 1
         /\ \A s \in CallStates \ {x, call[c]} : In(cs, d, s) = In(call, d, s)
<1>1. Semaphore(call, marked, value[d], queue[d], inflight[d], d)
  BY DEF Semaphores
<1>2. Cardinality(In(call, d, "running")) \in Nat /\ Cardinality(In(call, d, "woken")) \in Nat
  BY InFinite
<1>3. /\ cs \in [Call -> CallStates]
      /\ In(cs, d, x) = In(call, d, x) \cup {c}
      /\ Cardinality(In(cs, d, x)) = Cardinality(In(call, d, x)) + 1
      /\ In(cs, d, call[c]) = In(call, d, call[c]) \ {c}
      /\ Cardinality(In(cs, d, call[c])) = Cardinality(In(call, d, call[c])) - 1
      /\ \A s \in CallStates \ {x, call[c]} : In(cs, d, s) = In(call, d, s)
  BY OneMoved
<1> QED BY <1>1, <1>2, <1>3 DEF Semaphore

LEMMA LeaveKeeps ==
  ASSUME TypeOK, Semaphores, NEW c \in Call, call[c] = "running", NEW x \in Done,
         x = "failed" => c[3] \in FailClosed, x = "degraded" => c[3] \notin FailClosed,
         x = "cancelled" => c \in marked,
         Leave(c, x), UNCHANGED <<status, demoted, task, marked, culprit>>
  PROVE  Moves(c) /\ Semaphores' /\ TypeOK'
<1> DEFINE d == c[3]
           cs == [call EXCEPT ![c] = x]
<1>1. x \in Done \cup {"running"} /\ x \in CallStates /\ x # "running" /\ call[c] \notin Done \cup {"none"}
  BY DEF Done, CallStates
<1>2. CASE d \notin Gated
  BY <1>1, <1>2, QuietStep DEF Leave
<1>3. CASE d \in Gated
  <2>1. /\ inflight' = [inflight EXCEPT ![d] = inflight[d] - 1]
        /\ Wake(d, value[d] + 1, 1, queue[d], cs)
    BY <1>3 DEF Leave, Release
  <2>2. /\ value[d] \in Nat /\ Queued(call, queue[d], d) /\ Balanced(call, value[d], d)
        /\ inflight[d] = Cardinality(In(call, d, "running"))
        /\ Cardinality(In(call, d, "running")) \in Nat /\ Cardinality(In(call, d, "woken")) \in Nat
        /\ Cardinality(In(cs, d, "running")) = Cardinality(In(call, d, "running")) - 1
        /\ \A s \in CallStates \ {x, "running"} : In(cs, d, s) = In(call, d, s)
    <3>1. Shift(call, cs, c, x)
      BY <1>1 DEF Shift, TypeOK
    <3> HIDE DEF cs
    <3> QED BY <1>3, <3>1, SemaphoreOf
  <2> HIDE DEF cs
  <2>3. In(cs, d, "waiting") = In(call, d, "waiting") /\ In(cs, d, "woken") = In(call, d, "woken")
    BY <2>2 DEF CallStates, Done
  <2>4. Queued(cs, queue[d], d)
    BY <2>2, <2>3 DEF Queued
  <2>5. Balanced(cs, value[d] + 1, d)
    <3>1. /\ value[d] + Cardinality(In(call, d, "woken")) + Cardinality(In(call, d, "running")) = Permits[d]
          /\ Cardinality(In(call, d, "woken")) \in Nat /\ Cardinality(In(call, d, "running")) \in Nat
      BY <2>2 DEF Balanced
    <3>2. (value[d] + 1) + Cardinality(In(cs, d, "woken")) + Cardinality(In(cs, d, "running")) = Permits[d]
      BY <2>2, <2>3, <3>1
    <3> QED BY <3>2 DEF Balanced
  <2>6. inflight' = [inflight EXCEPT ![d] = Cardinality(In(cs, d, "running"))]
    BY <2>1, <2>2
  <2>7. value[d] + 1 \in Nat /\ 1 \in Nat /\ 1 <= value[d] + 1 /\ 1 \in {1, value[d] + 1}
    BY <2>2
  <2>8. cs = [call EXCEPT ![c] = x]
    BY DEF cs
  <2> QED BY <1>1, <1>3, <2>1, <2>4, <2>5, <2>6, <2>7, <2>8, WakingStep
<1> QED BY <1>2, <1>3

\* A call leaves the queue: it resumes with its permit (free permits stay n), or is
\* cancelled while it waits, or gives back the permit it was handed.
QueueLeft(c, x, n, f) ==
    \/ call[c] = "woken" /\ x = "running" /\ n = value[c[3]] /\ f = inflight[c[3]] + 1
    \/ call[c] = "waiting" /\ x = "cancelled" /\ n = value[c[3]] /\ f = inflight[c[3]]
    \/ call[c] = "woken" /\ x = "cancelled" /\ n = value[c[3]] + 1 /\ f = inflight[c[3]]

LEMMA QueueStep ==
  ASSUME TypeOK, Semaphores, NEW c \in Call, c[3] \in Gated, NEW x, NEW n, NEW f,
         QueueLeft(c, x, n, f), x = "cancelled" => c \in marked,
         NEW cs, Shift(call, cs, c, x), LeaveQueue(c[3], n, c, cs),
         inflight' = [inflight EXCEPT ![c[3]] = f],
         UNCHANGED <<status, demoted, task, marked, culprit>>
  PROVE  Moves(c) /\ Semaphores' /\ TypeOK'
<1> DEFINE d == c[3]
           q == Without(queue[d], c)
<1>1. /\ x \in Done \cup {"running"} /\ x \in CallStates /\ call[c] # x
      /\ call[c] \notin Done \cup {"none"} /\ x \in {"running", "cancelled"}
  BY DEF Done, CallStates, QueueLeft
<1>3. Wake(d, n, n, q, cs)
  BY DEF LeaveQueue
<1>5. /\ value[d] \in Nat /\ Queued(call, queue[d], d) /\ Balanced(call, value[d], d)
      /\ inflight[d] = Cardinality(In(call, d, "running"))
      /\ Cardinality(In(call, d, "running")) \in Nat /\ Cardinality(In(call, d, "woken")) \in Nat
      /\ In(cs, d, x) = In(call, d, x) \cup {c}
      /\ Cardinality(In(cs, d, x)) = Cardinality(In(call, d, x)) + 1
      /\ In(cs, d, call[c]) = In(call, d, call[c]) \ {c}
      /\ Cardinality(In(cs, d, call[c])) = Cardinality(In(call, d, call[c])) - 1
      /\ \A s \in CallStates \ {x, call[c]} : In(cs, d, s) = In(call, d, s)
  BY SemaphoreOf
<1>6. c \in In(call, d, call[c])
  BY DEF In
<1>7. c \in Range(queue[d]) /\ queue[d] \in Seq(Call) /\ NoTwice(queue[d])
  BY <1>5, <1>6 DEF Queued, QueueLeft
<1>8. q \in Seq(Call) /\ NoTwice(q) /\ Range(q) = Range(queue[d]) \ {c}
  BY <1>7, WithoutKeeps
<1> HIDE DEF q
<1>9. In(cs, d, "waiting") \cup In(cs, d, "woken")
         = (In(call, d, "waiting") \cup In(call, d, "woken")) \ {c}
  <2>1. CASE call[c] = "woken"
    <3>1. In(cs, d, "waiting") = In(call, d, "waiting")
      BY <1>1, <1>5, <2>1 DEF CallStates
    <3>2. c \notin In(call, d, "waiting")
      BY <2>1 DEF In
    <3> QED BY <1>5, <2>1, <3>1, <3>2
  <2>2. CASE call[c] = "waiting"
    <3>1. In(cs, d, "woken") = In(call, d, "woken")
      BY <1>1, <1>5, <2>2 DEF CallStates
    <3>2. c \notin In(call, d, "woken")
      BY <2>2 DEF In
    <3> QED BY <1>5, <2>2, <3>1, <3>2
  <2> QED BY <2>1, <2>2 DEF QueueLeft
<1>10. Queued(cs, q, d)
  BY <1>5, <1>8, <1>9 DEF Queued
<1>11. /\ n \in Nat /\ f = Cardinality(In(cs, d, "running"))
       /\ n + Cardinality(In(cs, d, "woken")) + Cardinality(In(cs, d, "running"))
            = value[d] + Cardinality(In(call, d, "woken")) + Cardinality(In(call, d, "running"))
  <2>1. CASE call[c] = "woken" /\ x = "running" /\ n = value[d] /\ f = inflight[d] + 1
    <3>1. /\ Cardinality(In(cs, d, "running")) = Cardinality(In(call, d, "running")) + 1
          /\ Cardinality(In(cs, d, "woken")) = Cardinality(In(call, d, "woken")) - 1
          /\ value[d] \in Nat /\ inflight[d] = Cardinality(In(call, d, "running"))
      BY <1>5, <2>1
    <3>2. Cardinality(In(call, d, "running")) \in Nat /\ Cardinality(In(call, d, "woken")) \in Nat
      BY <1>5
    <3> QED BY <2>1, <3>1, <3>2
  <2>2. CASE call[c] = "waiting" /\ x = "cancelled" /\ n = value[d] /\ f = inflight[d]
    <3>1. In(cs, d, "running") = In(call, d, "running") /\ In(cs, d, "woken") = In(call, d, "woken")
      BY <1>5, <2>2 DEF CallStates
    <3> QED BY <1>5, <2>2, <3>1
  <2>3. CASE call[c] = "woken" /\ x = "cancelled" /\ n = value[d] + 1 /\ f = inflight[d]
    <3>1. In(cs, d, "running") = In(call, d, "running")
      BY <1>5, <2>3 DEF CallStates
    <3>2. Cardinality(In(cs, d, "woken")) = Cardinality(In(call, d, "woken")) - 1
      BY <1>5, <2>3
    <3> QED BY <1>5, <2>3, <3>1, <3>2
  <2> QED BY <2>1, <2>2, <2>3 DEF QueueLeft
<1>12. Balanced(cs, n, d)
  BY <1>5, <1>11 DEF Balanced
<1>13. n <= n /\ n \in {1, n}
  BY <1>11
<1>14. inflight' = [inflight EXCEPT ![d] = Cardinality(In(cs, d, "running"))]
  BY <1>11
<1>15. cs = [call EXCEPT ![c] = x]
  BY DEF Shift
<1> QED BY <1>1, <1>3, <1>10, <1>11, <1>12, <1>13, <1>14, <1>15, WakingStep

\* A call joins the queue, or takes a free permit at once.
LEMMA StartKeeps ==
  ASSUME TypeOK, Semaphores, NEW c \in Call, CallStart(c)
  PROVE  Moves(c) /\ Semaphores' /\ TypeOK'
<1> DEFINE d == c[3]
<1>1. call[c] = "ready" /\ UNCHANGED <<status, demoted, task, marked, culprit>>
  BY DEF CallStart
<1>2. CASE d \notin Gated
  <2>1. "running" \in Done \cup {"running"} /\ call[c] \notin Done \cup {"none"}
    BY <1>1 DEF Done
  <2>2. call' = [call EXCEPT ![c] = "running"] /\ UNCHANGED semaphore
    BY <1>2 DEF CallStart
  <2> QED BY <1>1, <1>2, <2>1, <2>2, QuietStep
<1>3. CASE d \in Gated /\ Locked(d)
  <2>1. /\ call' = [call EXCEPT ![c] = "waiting"]
        /\ queue' = [queue EXCEPT ![d] = Append(queue[d], c)]
        /\ value' = value /\ inflight' = inflight
    BY <1>3 DEF CallStart
  <2>2. Shift(call, call', c, "waiting")
    BY <1>1, <2>1 DEF Shift, TypeOK, CallStates
  <2>3. /\ value[d] \in Nat /\ Queued(call, queue[d], d) /\ Balanced(call, value[d], d)
        /\ Told(call, marked, value[d], d)
        /\ inflight[d] = Cardinality(In(call, d, "running"))
        /\ call' \in [Call -> CallStates]
        /\ In(call', d, "waiting") = In(call, d, "waiting") \cup {c}
        /\ \A s \in CallStates \ {"waiting", call[c]} : In(call', d, s) = In(call, d, s)
    BY <1>3, <2>2, SemaphoreOf
  <2>4. In(call', d, "woken") = In(call, d, "woken") /\ In(call', d, "running") = In(call, d, "running")
    BY <1>1, <2>3 DEF CallStates
  <2>5. Queued(call', Append(queue[d], c), d)
    <3> DEFINE q == queue[d]
               a == Append(q, c)
    <3>1. /\ q \in Seq(Call) /\ Len(q) \in Nat /\ DOMAIN q = 1..Len(q)
          /\ NoTwice(q) /\ Range(q) = In(call, d, "waiting") \cup In(call, d, "woken")
      BY <2>3, LenProperties DEF Queued
    <3>2. c \notin Range(q)
      BY <1>1, <3>1 DEF In
    <3>3. /\ a \in Seq(Call) /\ Len(a) = Len(q) + 1
          /\ \A i \in 1..Len(q) : a[i] = q[i]
          /\ a[Len(q) + 1] = c
      BY <3>1, AppendProperties
    <3> HIDE DEF q, a
    <3>4. DOMAIN a = 1..(Len(q) + 1)
      BY <3>3, LenProperties
    <3>5. \A i \in 1..(Len(q) + 1) : i \in 1..Len(q) \/ i = Len(q) + 1
      BY <3>1
    <3>6. Range(a) = Range(q) \cup {c}
      BY <3>1, <3>3, <3>4, <3>5 DEF Range
    <3>7. NoTwice(a)
      <4> SUFFICES ASSUME NEW i \in DOMAIN a, NEW j \in DOMAIN a, a[i] = a[j] PROVE i = j
        BY DEF NoTwice
      <4>1. CASE i \in 1..Len(q) /\ j \in 1..Len(q)
        BY <3>1, <3>3, <4>1 DEF NoTwice
      <4>2. CASE i = Len(q) + 1 /\ j = Len(q) + 1
        BY <4>2
      <4>3. CASE i \in 1..Len(q) /\ j = Len(q) + 1
        BY <3>1, <3>2, <3>3, <4>3 DEF Range
      <4>4. CASE i = Len(q) + 1 /\ j \in 1..Len(q)
        BY <3>1, <3>2, <3>3, <4>4 DEF Range
      <4> QED BY <3>4, <3>5, <4>1, <4>2, <4>3, <4>4
    <3>8. Range(a) = In(call', d, "waiting") \cup In(call', d, "woken")
      BY <2>3, <2>4, <3>1, <3>6
    <3> QED BY <3>3, <3>7, <3>8 DEF Queued, a, q
  <2>6. Told(call', marked, value[d], d)
    <3>1. \A b \in Range(queue[d]) : b \in In(call, d, "waiting") \/ b \in In(call, d, "woken")
      BY <2>3 DEF Queued
    <3>2. CASE value[d] = 0
      BY <3>2 DEF Told
    <3>3. CASE \E b \in Range(queue[d]) : call[b] = "woken"
      BY <2>4, <3>1, <3>3 DEF Told, In
    <3>4. CASE \E b \in Range(queue[d]) : b \in Waiters(queue[d], call)
      BY <2>3, <2>4, <3>1, <3>4 DEF Told, In, Waiters
    <3> QED BY <1>3, <3>2, <3>3, <3>4 DEF Locked
  <2>7. Semaphore(call', marked, value[d], Append(queue[d], c), inflight[d], d)
    BY <2>3, <2>4, <2>5, <2>6 DEF Semaphore, Balanced
  <2>8. value' = [value EXCEPT ![d] = value[d]] /\ inflight' = [inflight EXCEPT ![d] = inflight[d]]
    BY <2>1 DEF TypeOK
  <2>9. \A b \in Call : b # c => call'[b] = call[b]
    BY <2>1 DEF TypeOK
  <2>10. Moves(c)
    BY <1>1, <1>3, <2>1, <2>3, <2>9 DEF Moves, Done, TypeOK
  <2>11. \A b \in Call : b[3] # d => call'[b] = call[b]
    BY <2>9
  <2>12. queue' = [queue EXCEPT ![d] = Append(queue[d], c)] /\ call' \in [Call -> CallStates]
    BY <2>1, <2>3
  <2> QED BY <1>1, <1>3, <2>7, <2>8, <2>10, <2>11, <2>12, OneSemaphore
<1>4. CASE d \in Gated /\ ~Locked(d)
  <2>1. /\ call' = [call EXCEPT ![c] = "running"]
        /\ value' = [value EXCEPT ![d] = value[d] - 1]
        /\ inflight' = [inflight EXCEPT ![d] = inflight[d] + 1]
        /\ queue' = queue
    BY <1>4 DEF CallStart
  <2>2. Shift(call, call', c, "running")
    BY <1>1, <2>1 DEF Shift, TypeOK, CallStates
  <2>3. /\ value[d] \in Nat /\ Queued(call, queue[d], d) /\ Balanced(call, value[d], d)
        /\ inflight[d] = Cardinality(In(call, d, "running"))
        /\ Cardinality(In(call, d, "running")) \in Nat /\ Cardinality(In(call, d, "woken")) \in Nat
        /\ call' \in [Call -> CallStates]
        /\ Cardinality(In(call', d, "running")) = Cardinality(In(call, d, "running")) + 1
        /\ \A s \in CallStates \ {"running", call[c]} : In(call', d, s) = In(call, d, s)
    BY <1>4, <2>2, SemaphoreOf
  <2>4. In(call', d, "waiting") = In(call, d, "waiting") /\ In(call', d, "woken") = In(call, d, "woken")
    BY <1>1, <2>3 DEF CallStates
  <2>5. value[d] - 1 \in Nat /\ In(call, d, "waiting") \subseteq marked
    <3>1. value[d] # 0 /\ \A b \in Range(queue[d]) : b \notin Waiters(queue[d], call)
      BY <1>4 DEF Locked
    <3>2. In(call, d, "waiting") \subseteq marked
      BY <2>3, <3>1 DEF Queued, Waiters, In
    <3> QED BY <2>3, <3>1, <3>2
  <2>6. Queued(call', queue[d], d)
    BY <2>3, <2>4 DEF Queued
  <2>7. Balanced(call', value[d] - 1, d)
    <3>1. value[d] + Cardinality(In(call, d, "woken")) + Cardinality(In(call, d, "running")) = Permits[d]
      BY <2>3 DEF Balanced
    <3>2. (value[d] - 1) + Cardinality(In(call', d, "woken")) + Cardinality(In(call', d, "running")) = Permits[d]
      BY <2>3, <2>4, <3>1
    <3> QED BY <3>2 DEF Balanced
  <2>8. Semaphore(call', marked, value[d] - 1, queue[d], inflight[d] + 1, d)
    BY <2>3, <2>4, <2>5, <2>6, <2>7 DEF Semaphore, Told
  <2>9. queue' = [queue EXCEPT ![d] = queue[d]]
    BY <2>1 DEF TypeOK
  <2>10. \A b \in Call : b # c => call'[b] = call[b]
    BY <2>1 DEF TypeOK
  <2>11. Moves(c)
    BY <1>1, <2>1, <2>3, <2>10 DEF Moves, Done, TypeOK
  <2> QED BY <1>1, <1>4, <2>1, <2>3, <2>8, <2>9, <2>10, <2>11, OneSemaphore
<1> QED BY <1>2, <1>3, <1>4

LEMMA CallStepKeeps ==
  ASSUME DispatchInv, NEW c \in Call, CallStep(c)
  PROVE  DispatchInv'
<1>1. TypeOK /\ Structure /\ Semaphores /\ CallSound(c)
  BY DEF DispatchInv, Structure
<1> SUFFICES Moves(c) /\ Semaphores' /\ TypeOK'
  BY <1>1, MovesKeep DEF DispatchInv
<1>2. CASE CallStart(c)
  BY <1>1, <1>2, StartKeeps
<1>3. CASE CallResume(c)
  <2>1. /\ call[c] = "woken" /\ UNCHANGED <<status, demoted, task, marked, culprit>>
        /\ inflight' = [inflight EXCEPT ![c[3]] = inflight[c[3]] + 1]
        /\ LeaveQueue(c[3], value[c[3]], c, [call EXCEPT ![c] = "running"])
    BY <1>3 DEF CallResume
  <2>2. c[3] \in Gated
    BY <1>1, <2>1 DEF CallSound
  <2>3. /\ QueueLeft(c, "running", value[c[3]], inflight[c[3]] + 1)
        /\ Shift(call, [call EXCEPT ![c] = "running"], c, "running")
    BY <1>1, <2>1 DEF QueueLeft, Shift, TypeOK, CallStates
  <2> QED BY <1>1, <2>1, <2>2, <2>3, QueueStep
<1>4. CASE CallReturn(c)
  <2>1. /\ call[c] = "running" /\ Leave(c, "ok")
        /\ UNCHANGED <<status, demoted, task, marked, culprit>>
    BY <1>4 DEF CallReturn
  <2> QED BY <1>1, <2>1, LeaveKeeps DEF Done
<1>5. CASE CallRaise(c)
  <2> DEFINE x == IF c[3] \in FailClosed THEN "failed" ELSE "degraded"
  <2>1. /\ call[c] = "running" /\ Leave(c, x)
        /\ UNCHANGED <<status, demoted, task, marked, culprit>>
    BY <1>5 DEF CallRaise
  <2>2. /\ x \in Done /\ x # "cancelled"
        /\ x = "failed" => c[3] \in FailClosed
        /\ x = "degraded" => c[3] \notin FailClosed
    BY DEF Done
  <2> HIDE DEF x
  <2> QED BY <1>1, <2>1, <2>2, LeaveKeeps
<1>6. CASE CallCancelled(c)
  <2>1. c \in marked /\ UNCHANGED <<status, demoted, task, marked, culprit>>
    BY <1>6 DEF CallCancelled
  <2>2. CASE call[c] = "ready" /\ call' = [call EXCEPT ![c] = "cancelled"] /\ UNCHANGED semaphore
    <3>1. "cancelled" \in Done \cup {"running"} /\ call[c] \notin Done \cup {"none"}
      BY <2>2 DEF Done
    <3> QED BY <1>1, <2>1, <2>2, <3>1, QuietStep
  <2>3. CASE /\ call[c] = "waiting" /\ UNCHANGED inflight
             /\ LeaveQueue(c[3], value[c[3]], c, [call EXCEPT ![c] = "cancelled"])
    <3>1. c[3] \in Gated
      BY <1>1, <2>3 DEF CallSound
    <3>2. inflight' = [inflight EXCEPT ![c[3]] = inflight[c[3]]]
      BY <1>1, <2>3 DEF TypeOK
    <3>3. call[c] = "waiting" /\ LeaveQueue(c[3], value[c[3]], c, [call EXCEPT ![c] = "cancelled"])
      BY <2>3
    <3>4. /\ QueueLeft(c, "cancelled", value[c[3]], inflight[c[3]])
          /\ Shift(call, [call EXCEPT ![c] = "cancelled"], c, "cancelled")
      BY <1>1, <2>3 DEF QueueLeft, Shift, TypeOK, CallStates
    <3> QED BY <1>1, <2>1, <3>1, <3>2, <3>3, <3>4, QueueStep
  <2>4. CASE /\ call[c] = "woken" /\ UNCHANGED inflight
             /\ LeaveQueue(c[3], value[c[3]] + 1, c, [call EXCEPT ![c] = "cancelled"])
    <3>1. c[3] \in Gated
      BY <1>1, <2>4 DEF CallSound
    <3>2. inflight' = [inflight EXCEPT ![c[3]] = inflight[c[3]]]
      BY <1>1, <2>4 DEF TypeOK
    <3>3. call[c] = "woken" /\ LeaveQueue(c[3], value[c[3]] + 1, c, [call EXCEPT ![c] = "cancelled"])
      BY <2>4
    <3>4. /\ QueueLeft(c, "cancelled", value[c[3]] + 1, inflight[c[3]])
          /\ Shift(call, [call EXCEPT ![c] = "cancelled"], c, "cancelled")
      BY <1>1, <2>4 DEF QueueLeft, Shift, TypeOK, CallStates
    <3> QED BY <1>1, <2>1, <3>1, <3>2, <3>3, <3>4, QueueStep
  <2>5. CASE call[c] = "running" /\ Leave(c, "cancelled")
    BY <1>1, <2>1, <2>5, LeaveKeeps DEF Done
  <2> QED BY <1>6, <2>2, <2>3, <2>4, <2>5 DEF CallCancelled
<1> QED BY <1>2, <1>3, <1>4, <1>5, <1>6 DEF CallStep

\* Creating and marking calls leaves the semaphores alone.
LEMMA CreatesKeeps ==
  ASSUME Semaphores, Creates
  PROVE  Semaphores'
<1>1. ASSUME NEW e \in Gated
      PROVE  Semaphore(call', marked', value'[e], queue'[e], inflight'[e], e)
  <2>1. Semaphore(call, marked, value[e], queue[e], inflight[e], e)
    BY DEF Semaphores
  <2>2. /\ In(call', e, "waiting") = In(call, e, "waiting")
        /\ In(call', e, "woken") = In(call, e, "woken")
        /\ In(call', e, "running") = In(call, e, "running")
    BY DEF Creates, In
  <2>3. marked \subseteq marked' /\ value' = value /\ queue' = queue /\ inflight' = inflight
    BY DEF Creates, semaphore
  <2> QED BY <2>1, <2>2, <2>3, Bystander
<1> QED BY <1>1 DEF Semaphores

LEMMA StutterKeeps ==
  ASSUME DispatchInv, UNCHANGED vars
  PROVE  DispatchInv'
<1>1. TypeOK /\ Structure /\ Semaphores /\ UNCHANGED vars
  BY DEF DispatchInv
<1>2. TypeOK'
  BY <1>1 DEF TypeOK, vars
<1>3. ASSUME NEW r \in Request PROVE Untouched(r)
  BY <1>1 DEF Untouched, vars
<1>4. Structure'
  <2>1. ASSUME NEW c \in Call PROVE CallSound(c)'
    BY <1>1, <1>3, CallParts, UntouchedKeeps
  <2>2. \A r \in Request : (\A t \in Text : TextSound(r, t)') /\ RequestSound(r)'
    BY <1>1, <1>3, UntouchedKeeps
  <2> QED BY <2>1, <2>2 DEF Structure
<1>5. Semaphores'
  BY <1>1 DEF Semaphores, vars
<1> QED BY <1>2, <1>4, <1>5 DEF DispatchInv

LEMMA InitEstablishes == Init => DispatchInv
<1> SUFFICES ASSUME Init PROVE DispatchInv
  OBVIOUS
<1> USE DEF Init
<1>1. TypeOK
  BY DispatchAssumption DEF TypeOK, TextStates, CallStates
<1>2. ASSUME NEW c \in Call PROVE CallSound(c)
  BY CallParts DEF CallSound
<1>3. ASSUME NEW r \in Request, NEW t \in Text PROVE TextSound(r, t)
  BY Tuples DEF TextSound
<1>4. ASSUME NEW r \in Request PROVE RequestSound(r)
  BY DEF RequestSound
<1>5. ASSUME NEW d \in Gated PROVE Semaphore(call, marked, value[d], queue[d], inflight[d], d)
  <2>1. \A s \in {"waiting", "woken", "running"} : In(call, d, s) = {}
    BY DEF In
  <2>2. value[d] = Permits[d] /\ Permits[d] \in Nat
    BY DispatchAssumption
  <2>3. queue[d] = <<>> /\ queue[d] \in Seq(Call) /\ DOMAIN queue[d] = {}
    OBVIOUS
  <2>4. Queued(call, queue[d], d)
    BY <2>1, <2>3 DEF Queued, NoTwice, Range
  <2>5. Balanced(call, value[d], d) /\ inflight[d] = Cardinality(In(call, d, "running"))
    <3>1. /\ Cardinality(In(call, d, "woken")) = 0 /\ Cardinality(In(call, d, "running")) = 0
          /\ inflight[d] = 0
      BY <2>1, FS_EmptySet
    <3> QED BY <2>2, <3>1 DEF Balanced
  <2>6. Told(call, marked, value[d], d)
    BY <2>1 DEF Told
  <2> QED BY <2>2, <2>4, <2>5, <2>6 DEF Semaphore
<1> QED BY <1>1, <1>2, <1>3, <1>4, <1>5 DEF DispatchInv, Structure, Semaphores

LEMMA StepKeeps == DispatchInv /\ [Next]_vars => DispatchInv'
<1> SUFFICES ASSUME DispatchInv, [Next]_vars PROVE DispatchInv'
  OBVIOUS
<1>1. TypeOK /\ Structure /\ Semaphores
  BY DEF DispatchInv
<1> DEFINE Kept == Structure' /\ Creates /\ TypeOK'
<1>2. Kept => DispatchInv'
  BY <1>1, CreatesKeeps DEF DispatchInv
<1>3. ASSUME NEW r \in Request, NEW big \in SUBSET Merged, Begin(r, big) PROVE Kept
  BY <1>1, <1>3, BeginKeeps
<1>4. ASSUME NEW r \in Request, NEW t \in Text, TextStep(r, t) PROVE Kept
  BY <1>1, <1>4, TextStartKeeps, TextAbortKeeps, TextFinishKeeps, TextCancelledKeeps DEF TextStep
<1>5. ASSUME NEW r \in Request, RequestStep(r) PROVE Kept
  BY <1>1, <1>5, RequestAbortKeeps, RequestFinishKeeps DEF RequestStep
<1> HIDE DEF Kept
<1>6. CASE \E c \in Call : CallStep(c)
  BY <1>6, CallStepKeeps
<1>7. CASE AllDone \/ UNCHANGED vars
  BY <1>7, StutterKeeps DEF AllDone
<1> QED BY <1>2, <1>3, <1>4, <1>5, <1>6, <1>7 DEF Next

-----------------------------------------------------------------------------
\* The invariant holds throughout: every task and call of _run_detection stands to
\* its group as structured concurrency has it, every semaphore to its calls.
THEOREM Invariant == Spec => []DispatchInv
<1>1. Init => DispatchInv
  BY InitEstablishes
<1>2. DispatchInv /\ [Next]_vars => DispatchInv'
  BY StepKeeps
<1> QED BY <1>1, <1>2, PTL DEF Spec

\* Every variable keeps its type.
THEOREM TypeCorrect == Spec => []TypeOK
<1>1. DispatchInv => TypeOK
  BY DEF DispatchInv
<1> QED BY <1>1, Invariant, PTL

\* No cancellation loses or makes up a permit of _run_detector's semaphore.
THEOREM PermitsKept == Spec => []PermitsConserved
<1>1. DispatchInv => PermitsConserved
  <2> SUFFICES ASSUME DispatchInv, NEW d \in Gated
               PROVE  value[d] + Cardinality(CallsIn(d, "woken"))
                               + Cardinality(CallsIn(d, "running")) = Permits[d]
    BY DEF PermitsConserved
  <2>1. Balanced(call, value[d], d)
    BY DEF DispatchInv, Semaphores, Semaphore
  <2>2. \A s : CallsIn(d, s) = In(call, d, s)
    BY DEF CallsIn, In
  <2> QED BY <2>1, <2>2 DEF Balanced
<1> QED BY <1>1, Invariant, PTL

\* /health counts exactly the calls inside detect, never more than the cap.
THEOREM CounterExact == Spec => []InflightExact
<1>1. DispatchInv => InflightExact
  <2> SUFFICES ASSUME DispatchInv, NEW d \in Gated
               PROVE  inflight[d] = Cardinality(CallsIn(d, "running")) /\ inflight[d] <= Permits[d]
    BY DEF InflightExact
  <2>1. /\ Balanced(call, value[d], d) /\ value[d] \in Nat
        /\ inflight[d] = Cardinality(In(call, d, "running"))
    BY DEF DispatchInv, Semaphores, Semaphore
  <2>2. CallsIn(d, "running") = In(call, d, "running")
    BY DEF CallsIn, In
  <2>3. Cardinality(In(call, d, "running")) \in Nat /\ Cardinality(In(call, d, "woken")) \in Nat
    BY InFinite
  <2> QED BY <2>1, <2>2, <2>3 DEF Balanced
<1> QED BY <1>1, Invariant, PTL

\* No free permit goes unnoticed by the calls that wait for one.
THEOREM NoPermitIdle == Spec => []NoIdlePermit
<1>1. DispatchInv => NoIdlePermit
  BY DEF DispatchInv, Semaphores, Semaphore, Told, NoIdlePermit, CallsIn, In
<1> QED BY <1>1, Invariant, PTL

\* How the calls of a request that has its answer ended.
LEMMA Answered ==
  ASSUME DispatchInv, NEW r \in Request, status[r] \in {"ok", "blocked"},
         NEW c \in Call, c[1] = r, call[c] # "none"
  PROVE  call[c] \in Done /\ (status[r] = "ok" => call[c] \notin {"failed", "cancelled"})
<1>1. TypeOK /\ CallSound(c) /\ RequestSound(r)
  BY DEF DispatchInv, Structure
<1>2. c \in Created(r)
  BY <1>1 DEF CallSound
<1>3. status[r] = "ok" => Collected(r) = {}
  BY <1>1 DEF RequestSound, Culprits
<1>4. CASE c \in MergedCalls(r)
  <2>1. c[2] = Blob
    BY <1>1, <1>4, CallsOf
  <2>2. call[c] \in Done
    BY <1>1, <1>4 DEF RequestSound, Unfinished
  <2>3. call[c] = "failed" => c \in Collected(r)
    BY <1>2, <2>1 DEF Collected
  <2>4. call[c] = "cancelled" => status[r] # "ok"
    BY <1>1, <2>1 DEF CallSound
  <2> QED BY <1>3, <2>2, <2>3, <2>4
<1>5. CASE \E t \in Text : c \in TextCalls(r, t)
  <2>1. PICK t \in Text : c \in TextCalls(r, t)
    BY <1>5
  <2>2. TextSound(r, t)
    BY DEF DispatchInv, Structure
  <2>3. c[2] = t /\ c = <<r, t, c[3]>> /\ c[3] \in Detector
    BY <1>1, <2>1, CallsOf, CallParts
  <2>4. task[<<r, t>>] \in {"ok", "failed", "cancelled"}
    <3>1. <<r, t>> \in TextTasks(r) /\ task[<<r, t>>] \in TextStates
      BY <1>1, Tuples DEF TextTasks, TypeOK
    <3>2. task[<<r, t>>] \in Done
      BY <1>1, <3>1 DEF RequestSound, UnfinishedTasks
    <3> QED BY <3>1, <3>2 DEF Done, TextStates
  <2>5. call[c] \in Done
    BY <2>2, <2>3, <2>4 DEF TextSound
  <2>6. status[r] = "ok" => task[<<r, t>>] = "ok"
    <3> SUFFICES ASSUME status[r] = "ok" PROVE task[<<r, t>>] = "ok"
      OBVIOUS
    <3>1. task[<<r, t>>] # "cancelled"
      BY <2>2 DEF TextSound
    <3>2. ASSUME task[<<r, t>>] = "failed" PROVE FALSE
      <4>1. PICK b \in TextCalls(r, t) : call[b] = "failed"
        BY <2>2, <3>2 DEF TextSound, Failed
      <4>2. b[2] = t /\ b \in Created(r)
        BY <1>1, <4>1, CallsOf
      <4> QED BY <1>3, <3>2, <4>1, <4>2 DEF Collected
    <3> QED BY <2>4, <3>1, <3>2
  <2>7. task[<<r, t>>] = "ok" => call[c] \notin {"failed", "cancelled"}
    BY <1>1, <2>1, <2>2 DEF TextSound, CallSound, Failed
  <2> QED BY <2>5, <2>6, <2>7
<1> QED BY <1>1, <1>2, <1>4, <1>5, CallsOf

\* A request that is let through had every detector run to its end on every text.
THEOREM NoneSkipped == Spec => []NothingSkipped
<1>1. DispatchInv => NothingSkipped
  <2> SUFFICES ASSUME DispatchInv, NEW r \in Request, status[r] = "ok", NEW c \in Created(r)
               PROVE  call[c] = "ok" \/ (call[c] = "degraded" /\ c[3] \notin FailClosed)
    BY DEF NothingSkipped
  <2>1. TypeOK /\ RequestSound(r)
    BY DEF DispatchInv, Structure
  <2>2. c \in Call /\ c[1] = r
    BY <2>1, CallsOf
  <2>3. CallSound(c)
    BY <2>2 DEF DispatchInv, Structure
  <2>4. call[c] # "none"
    <3>1. CASE c \in MergedCalls(r)
      BY <2>1, <3>1 DEF RequestSound
    <3>2. CASE \E t \in Text : c \in TextCalls(r, t)
      <4>1. PICK t \in Text : c \in TextCalls(r, t)
        BY <3>2
      <4>2. TextSound(r, t)
        BY DEF DispatchInv, Structure
      <4>3. task[<<r, t>>] \in Done
        BY <2>1, Tuples DEF RequestSound, UnfinishedTasks, TextTasks
      <4>4. task[<<r, t>>] # "cancelled" /\ task[<<r, t>>] \in TextStates
        BY <2>1, <4>2, Tuples DEF TextSound, TypeOK
      <4>5. task[<<r, t>>] \in {"ok", "failed"}
        BY <4>3, <4>4 DEF Done, TextStates
      <4> QED BY <4>1, <4>2, <4>5 DEF TextSound
    <3> QED BY <2>1, <3>1, <3>2, CallsOf
  <2>5. call[c] \in Done /\ call[c] \notin {"failed", "cancelled"}
    BY <2>2, <2>4, Answered
  <2> QED BY <2>3, <2>5 DEF CallSound, Done
<1> QED BY <1>1, Invariant, PTL

\* A blocked request names a fail-closed detector that failed for it.
THEOREM CauseOfBlock == Spec => []BlockedForCause
<1>1. DispatchInv => BlockedForCause
  <2> SUFFICES ASSUME DispatchInv, NEW r \in Request, status[r] = "blocked"
               PROVE  /\ culprit[r] \in FailClosed
                      /\ \E c \in Created(r) : c[3] = culprit[r] /\ call[c] = "failed"
    BY DEF BlockedForCause
  <2>1. PICK c \in Collected(r) : c[3] = culprit[r]
    BY DEF DispatchInv, Structure, RequestSound, Culprits
  <2>2. c \in Created(r) /\ call[c] = "failed" /\ c \in Call
    BY <2>1, CallsOf DEF Collected, DispatchInv
  <2>3. c[3] \in FailClosed
    BY <2>2 DEF DispatchInv, Structure, CallSound
  <2> QED BY <2>1, <2>2, <2>3
<1> QED BY <1>1, Invariant, PTL

\* No call of a request outlives the request's answer.
THEOREM NoneOutlives == Spec => []NoCallOutlivesRequest
<1>1. DispatchInv => NoCallOutlivesRequest
  BY Answered DEF NoCallOutlivesRequest
<1> QED BY <1>1, Invariant, PTL
=============================================================================
