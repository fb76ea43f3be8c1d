---------------------------- MODULE Idempotency ----------------------------
(***************************************************************************)
(* The idempotency middleware around a write handler (purchase, payment,   *)
(* reversal, delivery): the IdempotencyKey row of one key of one actor and *)
(* scope, and the requests that carry it.  Keys do not interact.  A        *)
(* request is one step per database statement; the two statements that the *)
(* response triggers are not awaited and run in any order afterwards.      *)
(*                                                                         *)
(* A record's id is the request that created it.  `round` counts the       *)
(* 24 hour lifetimes of the key; a handler does not outlast one.           *)
(***************************************************************************)
EXTENDS Naturals

CONSTANTS
    Payloads,       \* request bodies, as hashPayload tells them apart
    MaxRequests     \* bound: requests with this key, retries included

ASSUME ConstantsAssumption == MaxRequests \in Nat

VARIABLES record, request, late, round

vars == <<record, request, late, round>>

-----------------------------------------------------------------------------
Requests == 1 .. MaxRequests

\* The answers of the handler: done, refused by a rule, failed.  A failure may
\* come after the commit, when the event is published or the row read back.
Responses == {"ok", "refused", "error"}

\* responseCode and responseBody are null until the record is completed.
Record ==
    [id : Requests, hash : Payloads, status : {"PROCESSING"}, response : {"none"}, expired : BOOLEAN]
    \cup [id : Requests, hash : Payloads, status : {"COMPLETED"}, response : Responses, expired : BOOLEAN]

NoRecord == [id |-> 0]

Phases == {"unsent", "find", "deleteExpired", "create", "handle", "respond", "answered", "lost"}

Answers == Responses \cup {"none", "keyReused", "inProgress", "notFound"}

\* `done` and `round` say whether and in which lifetime the handler committed;
\* `replayOf` is the request whose answer was replayed.
Request == [phase : Phases, hash : Payloads, answer : Answers, done : BOOLEAN,
            round : Nat, replayOf : 0 .. MaxRequests]

TypeOK ==
    /\ record \in Record \cup {NoRecord}
    /\ request \in [Requests -> Request]
    /\ late \subseteq Requests \X {"complete", "delete"}
    /\ round \in Nat

Answered(r, answer) ==
    request' = [request EXCEPT ![r].phase = "answered", ![r].answer = answer]

Goto(r, phase) == request' = [request EXCEPT ![r].phase = phase]

-----------------------------------------------------------------------------
Init ==
    /\ record = NoRecord
    /\ request \in [Requests -> [phase : {"unsent"}, hash : Payloads, answer : {"none"},
                                 done : {FALSE}, round : {0}, replayOf : {0}]]
    /\ late = {}
    /\ round = 0

\* A client sends the request, or sends it again whatever it heard of before.
Send(r) ==
    /\ request[r].phase = "unsent" /\ (r > 1 => request[r - 1].phase # "unsent")
    /\ Goto(r, "find")
    /\ UNCHANGED <<record, late, round>>

SkipsHash(r) == TRUE  \* mutant: the stored request hash is not compared

SameRequest(r) == record.hash = request[r].hash

Find(r) ==
    /\ request[r].phase = "find"
    /\ CASE record = NoRecord -> Goto(r, "create")
         [] record # NoRecord /\ record.expired -> Goto(r, "deleteExpired")
         [] record # NoRecord /\ ~record.expired /\ ~SameRequest(r) -> Answered(r, "keyReused")
         [] record # NoRecord /\ ~record.expired /\ SameRequest(r) ->
               IF record.status = "COMPLETED"
               THEN request' = [request EXCEPT ![r].phase = "answered",
                                               ![r].answer = record.response,
                                               ![r].replayOf = record.id]
               ELSE Answered(r, "inProgress")
    /\ UNCHANGED <<record, late, round>>

\* By id: the row that was found.  Prisma throws when it is gone already.
DeleteExpired(r) ==
    /\ request[r].phase = "deleteExpired"
    /\ IF record # NoRecord /\ record.expired
       THEN record' = NoRecord /\ Goto(r, "create")
       ELSE UNCHANGED record /\ Answered(r, "notFound")
    /\ UNCHANGED <<late, round>>

Upserts(r) == TRUE  \* mutant: the key is upserted, so that P2002 never comes

KeyIsFree(r) == record = NoRecord

Create(r) ==
    /\ request[r].phase = "create"
    /\ IF KeyIsFree(r)
       THEN /\ record' = [id |-> r, hash |-> request[r].hash, status |-> "PROCESSING",
                          response |-> "none", expired |-> FALSE]
            /\ Goto(r, "handle")
       ELSE UNCHANGED record /\ Answered(r, "inProgress")
    /\ UNCHANGED <<late, round>>

-----------------------------------------------------------------------------
\* The handler's transaction commits or not, and the handler ends well or not.
Handle(r, done, answer) ==
    /\ request[r].phase = "handle"
    /\ answer = "ok" => done
    /\ answer = "refused" => ~done
    /\ request' = [request EXCEPT ![r].phase = "respond", ![r].answer = answer,
                                  ![r].done = done, ![r].round = round]
    /\ UNCHANGED <<record, late, round>>

AlwaysDeletes(answer) == {"complete", "delete"}  \* mutant: the status code is not looked at

\* What the wrapped res.json and the finish listener leave running.
Afterwards(answer) == IF answer = "error" THEN {"complete", "delete"} ELSE {"complete"}

Respond(r) ==
    /\ request[r].phase = "respond"
    /\ Goto(r, "answered")
    /\ late' = late \cup ({r} \X Afterwards(request[r].answer))
    /\ UNCHANGED <<record, round>>

BodyLost(r) == [record EXCEPT !.status = "COMPLETED"]  \* mutant: the response is not stored

AlwaysOk(r) == [record EXCEPT !.status = "COMPLETED", !.response = "ok"]  \* mutant: status 200

Completed(r) == [record EXCEPT !.status = "COMPLETED", !.response = request[r].answer]

\* Both statements go by id, and a failure of either is ignored.
CompleteRecord(r) ==
    /\ <<r, "complete">> \in late
    /\ late' = late \ {<<r, "complete">>}
    /\ record' = IF record.id = r THEN Completed(r) ELSE record
    /\ UNCHANGED <<request, round>>

DeleteRecord(r) ==
    /\ <<r, "delete">> \in late
    /\ late' = late \ {<<r, "delete">>}
    /\ record' = IF record.id = r THEN NoRecord ELSE record
    /\ UNCHANGED <<request, round>>

LoseLate(r, what) ==
    /\ <<r, what>> \in late
    /\ late' = late \ {<<r, what>>}
    /\ UNCHANGED <<record, request, round>>

-----------------------------------------------------------------------------
InFlight(r) == request[r].phase \notin {"unsent", "answered", "lost"}

\* The server stops: requests under way are lost, and a handler may have
\* committed before.
Crash(committed) ==
    /\ \E r \in Requests : InFlight(r)
    /\ request' = [r \in Requests |->
                     CASE ~InFlight(r) -> request[r]
                       [] InFlight(r) /\ request[r].phase = "handle" ->
                             [request[r] EXCEPT !.phase = "lost", !.done = committed, !.round = round]
                       [] OTHER -> [request[r] EXCEPT !.phase = "lost"]]
    /\ late' = {}
    /\ UNCHANGED <<record, round>>

Expire ==
    /\ record # NoRecord /\ ~record.expired
    /\ request[record.id].phase \notin {"handle", "respond"}
    /\ \A what \in {"complete", "delete"} : <<record.id, what>> \notin late
    /\ record' = [record EXCEPT !.expired = TRUE]
    /\ round' = round + 1
    /\ UNCHANGED <<request, late>>

Step(r) ==
    \/ Find(r) \/ DeleteExpired(r) \/ Create(r)
    \/ \E done \in BOOLEAN, answer \in Responses : Handle(r, done, answer)
    \/ Respond(r)

Next ==
    \/ \E r \in Requests :
          \/ Send(r) \/ Step(r) \/ CompleteRecord(r) \/ DeleteRecord(r)
          \/ \E what \in {"complete", "delete"} : LoseLate(r, what)
    \/ \E committed \in BOOLEAN : Crash(committed)
    \/ Expire

Spec == Init /\ [][Next]_vars

-----------------------------------------------------------------------------
\* No two requests with the key are in the handler at once: deleting a record,
\* expired or failed, never lets a second one in beside the first.
HandlersExclude ==
    \A r, q \in Requests :
        {request[r].phase, request[q].phase} \subseteq {"handle", "respond"} => r = q

ExecutedTwice(r, q) ==
    r # q /\ request[r].done /\ request[q].done /\ request[r].round = request[q].round

\* The handler commits a second time within a lifetime of the key only after the
\* first time was answered with an error: what a client was told is done, or
\* never heard of because the server stopped, is not done again.  Which of the two
\* was told of the error is left open here; ImplementsOnceOnly says the first.
RepeatedOnlyAfterError ==
    \A r, q \in Requests : ExecutedTwice(r, q) =>
        \E first \in {r, q} : request[first].phase = "answered" /\ request[first].answer = "error"

\* A replayed answer is the one the first request with the same body got, which
\* is complete by then.  That another body is refused is in ImplementsOnceOnly.
ReplaysAreFaithful ==
    \A r \in Requests : request[r].replayOf # 0 =>
        LET first == request[request[r].replayOf] IN
        /\ first.phase \in {"answered", "lost"}
        /\ first.hash = request[r].hash /\ first.answer = request[r].answer

-----------------------------------------------------------------------------
\* What clients have heard: an answer counts once it was sent.
Heard(r) == IF request[r].phase = "answered" THEN request[r].answer ELSE "none"

Once == INSTANCE OnceOnly WITH
            Bodies <- Payloads,
            body <- [r \in Requests |-> request[r].hash],
            effects <- {<<r, request[r].round>> : r \in {q \in Requests : request[q].done}},
            heard <- [r \in Requests |-> Heard(r)],
            lifetime <- round

\* The middleware implements a once-only request: across retries, crashes,
\* expiry and the writes it leaves running, whatever it lets a handler do or
\* tells a client is a step that OnceOnly allows.
ImplementsOnceOnly == Once!Spec

\* A retry within the lifetime of the key does not execute the request again.
ExecutedOnce == \A r, q \in Requests : ~ExecutedTwice(r, q)
=============================================================================
