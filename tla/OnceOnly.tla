------------------------------ MODULE OnceOnly ------------------------------
(***************************************************************************)
(* What the idempotency middleware promises the clients that use one key:  *)
(* a request takes effect at most once while its key is kept, unless the   *)
(* client was told that it failed, and whoever repeats it hears the answer *)
(* it was given, or that nothing was done.  Idempotency implements this.   *)
(*                                                                         *)
(* The refinement mapping in Idempotency says what the variables are in    *)
(* terms of the middleware's record and requests.                          *)
(***************************************************************************)
EXTENDS Naturals

CONSTANTS
    Requests,       \* the requests sent with the key
    Bodies,         \* what they may ask for
    Responses       \* what a handler answers, "ok", "refused" and "error" among it

VARIABLES
    body,           \* what each request asks for
    effects,        \* <<r, n>>: r took effect in lifetime n of the key
    heard,          \* what the client of each request was answered so far
    lifetime

vars == <<body, effects, heard, lifetime>>

-----------------------------------------------------------------------------
Effective == {effect[1] : effect \in effects}

TakesEffect(r) ==
    /\ r \notin Effective /\ heard[r] = "none"
    /\ \A q \in Requests : <<q, lifetime>> \in effects => heard[q] = "error"
    /\ effects' = effects \cup {<<r, lifetime>>}
    /\ UNCHANGED <<body, heard, lifetime>>

Hear(r, answer) ==
    /\ heard[r] = "none"
    /\ heard' = [heard EXCEPT ![r] = answer]
    /\ UNCHANGED <<body, effects, lifetime>>

\* The handler's own answer.
IsAnswered(r, answer) ==
    /\ answer = "ok" => r \in Effective
    /\ answer = "refused" => r \notin Effective
    /\ Hear(r, answer)

\* The answer an earlier request for the same got.
IsReplayed(r, first) ==
    /\ r \notin Effective
    /\ body[first] = body[r] /\ heard[first] \in Responses
    /\ heard[first] = "ok" => first \in Effective
    /\ Hear(r, heard[first])

\* Another body, a request still in progress, a record that is gone.
IsTurnedAway(r, answer) ==
    /\ r \notin Effective
    /\ Hear(r, answer)

BeginLifetime == lifetime' = lifetime + 1 /\ UNCHANGED <<body, effects, heard>>

-----------------------------------------------------------------------------
Init ==
    /\ body \in [Requests -> Bodies]
    /\ effects = {}
    /\ heard = [r \in Requests |-> "none"]
    /\ lifetime = 0

Next ==
    \/ \E r \in Requests :
          \/ TakesEffect(r)
          \/ \E answer \in Responses : IsAnswered(r, answer)
          \/ \E first \in Requests : IsReplayed(r, first)
          \/ \E answer \in {"keyReused", "inProgress", "notFound"} : IsTurnedAway(r, answer)
    \/ BeginLifetime

Spec == Init /\ [][Next]_vars
=============================================================================
