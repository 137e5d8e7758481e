------------------------------- MODULE Intake -------------------------------
(***************************************************************************)
(* What stands between a client and the endpoint (main.py): the body size  *)
(* limit, which drains the ASGI messages of a request before the           *)
(* application sees one, and the bearer token a proxy forwards.            *)
(***************************************************************************)
EXTENDS Integers, Sequences, SequencesExt

Message(type, bytes, more) == [type |-> type, bytes |-> bytes, more |-> more]
NoLength == -1   \* no Content-Length, or one that is no number

\* Chunks are counted and kept until the body ends, the client leaves or the
\* cap is crossed.
Drain(messages, cap) ==
    LET Take(acc, m) ==
            IF acc.at # "open" THEN acc
            ELSE IF m.type # "http.request" THEN [acc EXCEPT !.at = "gone"]
            ELSE IF acc.total + m.bytes > cap THEN [acc EXCEPT !.at = "over"]
            ELSE [acc EXCEPT !.total = @ + m.bytes, !.at = IF m.more THEN "open" ELSE "whole"]
    IN FoldLeft(Take, [at |-> "open", total |-> 0], messages)

\* Too large by its header, without reading it, or by what arrived: 503.  A
\* client that left gets its chunks and the disconnect replayed: no handler.
Admitted(declared, messages, cap) ==
    /\ declared <= cap
    /\ Drain(messages, cap).at = "whole"

\* _forwarded_bearer: only a bearer token counts, not LiteLLM's redaction mark.
ForwardedBearer(header) == IF header = "bearer" THEN "user" ELSE ""
=============================================================================
