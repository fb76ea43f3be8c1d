------------------------ MODULE Idempotency_proofs ------------------------
(***************************************************************************)
(* Proofs about Idempotency, for any payloads and any number of requests   *)
(* with the key: types, one handler at a time, faithful replays, what may  *)
(* be repeated, and that the middleware implements OnceOnly.               *)
(***************************************************************************)
EXTENDS Idempotency, TLAPS

(***************************************************************************)
(* The inductive invariant.                                                *)
(***************************************************************************)
\* The record of the key was created by r and is not out of date.
Holds(r) == record # NoRecord /\ record.id = r /\ ~record.expired

\* What a request's fields say of each other in its phases.
PhasesFit ==
    \A r \in Requests :
        /\ request[r].phase \in {"unsent", "find", "deleteExpired", "create", "handle"} =>
              request[r].answer = "none" /\ ~request[r].done
        /\ request[r].phase = "respond" => request[r].answer \in Responses
        /\ request[r].phase # "answered" => request[r].replayOf = 0
        /\ request[r].replayOf = 0 /\ request[r].answer = "ok" => request[r].done
        /\ request[r].replayOf = 0 /\ request[r].answer = "refused" => ~request[r].done
        /\ request[r].replayOf # 0 => ~request[r].done
        /\ request[r].phase = "answered" /\ request[r].answer \in Answers \ Responses =>
              ~request[r].done

\* The statements left running belong to answered requests.
LateFits ==
    \A r \in Requests, what \in {"complete", "delete"} : <<r, what>> \in late =>
        /\ request[r].phase = "answered" /\ request[r].answer \in Responses
        /\ what = "delete" => request[r].answer = "error"

\* The record is that of a request which is or was in the handler.
RecordFits ==
    record # NoRecord =>
        LET owner == request[record.id] IN
        /\ owner.phase \in {"handle", "respond", "answered", "lost"}
        /\ owner.hash = record.hash /\ owner.replayOf = 0
        /\ record.status = "COMPLETED" => owner.phase = "answered" /\ owner.answer = record.response

\* A request in the handler holds the key, and so does one that committed in
\* this lifetime of the key, until it is answered with an error.
HandlersHold ==
    \A r \in Requests : request[r].phase \in {"handle", "respond"} => Holds(r)

CommittedHold ==
    \A r \in Requests : request[r].done =>
        /\ request[r].round <= round
        /\ request[r].round = round =>
              \/ Holds(r)
              \/ request[r].phase = "answered" /\ request[r].answer = "error"

IInv ==
    /\ TypeOK /\ PhasesFit /\ LateFits /\ RecordFits /\ HandlersHold /\ CommittedHold
    /\ RepeatedOnlyAfterError /\ ReplaysAreFaithful

\* Before the first request there is nothing to be kept.
LEMMA InvInit == Init => IInv
<1> SUFFICES ASSUME Init PROVE IInv
  OBVIOUS
<1>1. \A r \in Requests : /\ request[r].phase = "unsent" /\ request[r].answer = "none"
                          /\ request[r].done = FALSE /\ request[r].replayOf = 0
  BY DEF Init
<1>2. TypeOK
  <2>1. \A row \in [phase : {"unsent"}, hash : Payloads, answer : {"none"},
                   done : {FALSE}, round : {0}, replayOf : {0}] : row \in Request
    <3>1. /\ {"unsent"} \subseteq Phases /\ {"none"} \subseteq Answers /\ {FALSE} \subseteq BOOLEAN
          /\ {0} \subseteq Nat /\ {0} \subseteq 0 .. MaxRequests
      BY ConstantsAssumption DEF Phases, Answers
    <3> QED
      BY <3>1 DEF Request
  <2>2. request \in [Requests -> Request]
    BY <2>1 DEF Init
  <2> QED
    BY <2>2 DEF Init, TypeOK
<1> QED
  BY <1>1, <1>2 DEF Init, IInv, PhasesFit, LateFits, RecordFits, HandlersHold, CommittedHold,
     RepeatedOnlyAfterError, ExecutedTwice, ReplaysAreFaithful

\* What the types say of the record and of a request.
LEMMA TypedFacts ==
    ASSUME TypeOK
    PROVE  /\ 0 \notin Requests /\ Requests \subseteq Nat
           /\ record # NoRecord => record \in Record /\ record.id \in Requests
           /\ record = NoRecord => record.id = 0
           /\ \A r \in Requests : request[r] \in Request
BY ConstantsAssumption DEF TypeOK, Record, NoRecord, Requests

\* A step of one request changes that request only.
LEMMA OneRequest ==
    ASSUME TypeOK, NEW r \in Requests, NEW next \in Request,
           request' = [request EXCEPT ![r] = next]
    PROVE  /\ request' \in [Requests -> Request] /\ request'[r] = next
           /\ \A q \in Requests : q # r => request'[q] = request[q]
BY DEF TypeOK

(***************************************************************************)
(* Every step keeps it.                                                    *)
(***************************************************************************)
\* A request that is not done moves on, or is answered without having been in
\* the handler.
LEMMA BeforeHandler ==
    ASSUME IInv, NEW r \in Requests,
           NEW phase \in {"find", "deleteExpired", "create", "answered"},
           NEW answer \in Answers, NEW replayOf \in 0 .. MaxRequests,
           request[r].phase \in {"unsent", "find", "deleteExpired", "create"},
           request' = [request EXCEPT ![r].phase = phase, ![r].answer = answer,
                                      ![r].replayOf = replayOf],
           phase # "answered" => answer = "none" /\ replayOf = 0,
           replayOf = 0 => answer \notin Responses,
           replayOf # 0 => /\ record # NoRecord /\ record.status = "COMPLETED" /\ ~record.expired
                           /\ replayOf = record.id /\ answer = record.response
                           /\ record.hash = request[r].hash,
           record' = record \/ (record.expired /\ record' = NoRecord),
           UNCHANGED <<late, round>>
    PROVE  IInv'
<1> DEFINE next == [request[r] EXCEPT !.phase = phase, !.answer = answer, !.replayOf = replayOf]
<1>1. request' = [request EXCEPT ![r] = next] /\ next \in Request
  BY DEF IInv, TypeOK, Request, Phases, Requests
<1>2. /\ next.phase = phase /\ next.answer = answer /\ next.replayOf = replayOf
      /\ next.hash = request[r].hash /\ next.done = request[r].done
      /\ next.round = request[r].round
  BY DEF IInv, TypeOK, Request
<1> HIDE DEF next
<1>3. /\ request' \in [Requests -> Request] /\ request'[r] = next
      /\ \A q \in Requests : q # r => request'[q] = request[q]
  BY <1>1, OneRequest DEF IInv
<1>4. ~request[r].done
  BY DEF IInv, PhasesFit
<1>5. record # NoRecord => record.id # r
  BY DEF IInv, RecordFits
<1>6. TypeOK'
  BY <1>3 DEF IInv, TypeOK
<1>7. PhasesFit'
  BY <1>2, <1>3, <1>4 DEF IInv, PhasesFit, Answers
<1>8. LateFits'
  BY <1>2, <1>3 DEF IInv, LateFits
<1>9. RecordFits'
  BY <1>3, <1>5, TypedFacts DEF IInv, RecordFits
<1>10. HandlersHold'
  BY <1>2, <1>3 DEF IInv, HandlersHold, Holds
<1>11. CommittedHold'
  BY <1>2, <1>3, <1>4 DEF IInv, CommittedHold, Holds
<1>12. RepeatedOnlyAfterError'
  BY <1>2, <1>3, <1>4 DEF IInv, RepeatedOnlyAfterError, ExecutedTwice
<1>13. ReplaysAreFaithful'
  <2> SUFFICES ASSUME NEW q \in Requests, request'[q].replayOf # 0
               PROVE  LET first == request'[request'[q].replayOf] IN
                      /\ first.phase \in {"answered", "lost"}
                      /\ first.hash = request'[q].hash /\ first.answer = request'[q].answer
    BY DEF ReplaysAreFaithful
  <2>1. CASE q = r
    <3>1. /\ record # NoRecord /\ record.status = "COMPLETED" /\ replayOf = record.id
          /\ answer = record.response /\ record.hash = request[r].hash
      BY <1>2, <1>3, <2>1
    <3>2. request'[record.id] = request[record.id]
      BY <1>3, <1>5, <3>1, TypedFacts DEF IInv
    <3>3. /\ request'[q].replayOf = record.id /\ request'[q].answer = answer
          /\ request'[q].hash = request[r].hash
      BY <1>2, <1>3, <2>1, <3>1
    <3> QED
      BY <3>1, <3>2, <3>3 DEF IInv, RecordFits
  <2>2. CASE q # r
    <3>1. request'[q] = request[q] /\ request[q].replayOf \in Requests
      BY <1>3, <2>2, TypedFacts DEF IInv, Request, Requests
    <3>2. request[q].replayOf # r
      BY <2>2, <3>1 DEF IInv, ReplaysAreFaithful
    <3>3. request'[request[q].replayOf] = request[request[q].replayOf]
      BY <1>3, <3>1, <3>2
    <3> QED
      BY <2>2, <3>1, <3>3 DEF IInv, ReplaysAreFaithful
  <2> QED
    BY <2>1, <2>2
<1> QED
  BY <1>6, <1>7, <1>8, <1>9, <1>10, <1>11, <1>12, <1>13 DEF IInv

\* The arrival, the lookup and the deletion of an expired record keep the invariant.
LEMMA BeforeHandlerSteps ==
    ASSUME IInv, NEW r \in Requests, Send(r) \/ Find(r) \/ DeleteExpired(r)
    PROVE  IInv'
<1>0. /\ request[r] \in Request /\ TypeOK /\ 0 \in 0 .. MaxRequests
      /\ {"none", "keyReused", "inProgress", "notFound"} \subseteq Answers
      /\ Responses \cap {"none", "keyReused", "inProgress", "notFound"} = {}
  BY ConstantsAssumption, TypedFacts DEF IInv, Answers, Responses
<1>1. ASSUME NEW phase \in {"find", "deleteExpired", "create"}, Goto(r, phase),
             request[r].phase \in {"unsent", "find", "deleteExpired"}
      PROVE  request' = [request EXCEPT ![r].phase = phase, ![r].answer = "none", ![r].replayOf = 0]
  <2>1. request[r].answer = "none" /\ request[r].replayOf = 0
    BY <1>1 DEF IInv, PhasesFit
  <2>2. [request[r] EXCEPT !.phase = phase]
           = [request[r] EXCEPT !.phase = phase, !.answer = "none", !.replayOf = 0]
    BY <1>0, <2>1 DEF Request
  <2> QED
    BY <1>1, <2>2 DEF Goto
<1>2. ASSUME NEW answer, Answered(r, answer), request[r].phase \in {"find", "deleteExpired"}
      PROVE  request' = [request EXCEPT ![r].phase = "answered", ![r].answer = answer, ![r].replayOf = 0]
  <2>1. request[r].replayOf = 0
    BY <1>2 DEF IInv, PhasesFit
  <2>2. [request[r] EXCEPT !.phase = "answered", !.answer = answer]
           = [request[r] EXCEPT !.phase = "answered", !.answer = answer, !.replayOf = 0]
    BY <1>0, <2>1 DEF Request
  <2> QED
    BY <1>2, <2>2 DEF Answered
<1>3. CASE Send(r)
  BY <1>0, <1>1, <1>3, BeforeHandler DEF Send
<1>4. CASE Find(r)
  <2>1. CASE record = NoRecord
    BY <1>0, <1>1, <1>4, <2>1, BeforeHandler DEF Find
  <2>2. CASE record # NoRecord /\ record.expired
    BY <1>0, <1>1, <1>4, <2>2, BeforeHandler DEF Find
  <2>3. CASE record # NoRecord /\ ~record.expired /\ ~SameRequest(r)
    BY <1>0, <1>2, <1>4, <2>3, BeforeHandler DEF Find
  <2>4. CASE record # NoRecord /\ ~record.expired /\ SameRequest(r) /\ record.status = "COMPLETED"
    <3>1. request' = [request EXCEPT ![r].phase = "answered", ![r].answer = record.response,
                                     ![r].replayOf = record.id]
      BY <1>4, <2>4 DEF Find
    <3>2. record.response \in Responses /\ record.id \in 0 .. MaxRequests /\ record.id # 0
      BY <1>0, <2>4, TypedFacts DEF Record, Requests
    <3>3. record.response \in Answers /\ record.hash = request[r].hash
      BY <2>4, <3>2 DEF Answers, SameRequest
    <3> QED
      BY <1>4, <2>4, <3>1, <3>2, <3>3, BeforeHandler DEF Find
  <2>5. CASE record # NoRecord /\ ~record.expired /\ SameRequest(r) /\ record.status # "COMPLETED"
    BY <1>0, <1>2, <1>4, <2>5, BeforeHandler DEF Find
  <2> QED
    BY <2>1, <2>2, <2>3, <2>4, <2>5
<1>5. CASE DeleteExpired(r)
  <2>1. CASE record # NoRecord /\ record.expired
    BY <1>0, <1>1, <1>5, <2>1, BeforeHandler DEF DeleteExpired
  <2>2. CASE ~(record # NoRecord /\ record.expired)
    BY <1>0, <1>2, <1>5, <2>2, BeforeHandler DEF DeleteExpired
  <2> QED
    BY <2>1, <2>2
<1> QED
  BY <1>3, <1>4, <1>5

\* The row is created, or the key is taken meanwhile.
LEMMA CreateStep ==
    ASSUME IInv, NEW r \in Requests, Create(r)
    PROVE  IInv'
<1>0. request[r] \in Request /\ TypeOK /\ request[r].phase = "create"
  BY TypedFacts DEF IInv, Create
<1>1. CASE ~KeyIsFree(r)
  <2>1. /\ 0 \in 0 .. MaxRequests /\ "inProgress" \in Answers /\ "inProgress" \notin Responses
        /\ request[r].replayOf = 0
    BY <1>0, ConstantsAssumption DEF Answers, Responses, IInv, PhasesFit
  <2>2. [request[r] EXCEPT !.phase = "answered", !.answer = "inProgress"]
           = [request[r] EXCEPT !.phase = "answered", !.answer = "inProgress", !.replayOf = 0]
    BY <1>0, <2>1 DEF Request
  <2>3. request' = [request EXCEPT ![r].phase = "answered", ![r].answer = "inProgress",
                                   ![r].replayOf = 0]
    BY <1>1, <2>2 DEF Create, Answered
  <2> QED
    BY <1>0, <1>1, <2>1, <2>3, BeforeHandler DEF Create
<1>2. CASE KeyIsFree(r)
  <2> DEFINE next == [request[r] EXCEPT !.phase = "handle"]
  <2>1. request' = [request EXCEPT ![r] = next] /\ next \in Request
    BY <1>0, <1>2 DEF Create, Goto, Request, Phases
  <2>2. /\ next.phase = "handle" /\ next.answer = request[r].answer
        /\ next.replayOf = request[r].replayOf /\ next.hash = request[r].hash
        /\ next.done = request[r].done /\ next.round = request[r].round
    BY <1>0 DEF Request
  <2> HIDE DEF next
  <2>3. /\ request' \in [Requests -> Request] /\ request'[r] = next
        /\ \A q \in Requests : q # r => request'[q] = request[q]
    BY <1>0, <2>1, OneRequest
  <2>4. /\ record = NoRecord /\ record' # NoRecord /\ record' \in Record
        /\ record'.id = r /\ record'.status = "PROCESSING" /\ record'.hash = request[r].hash
        /\ ~record'.expired
    <3>1. /\ record = NoRecord
          /\ record' = [id |-> r, hash |-> request[r].hash, status |-> "PROCESSING",
                        response |-> "none", expired |-> FALSE]
      BY <1>2 DEF Create, KeyIsFree
    <3>2. record' \in Record
      BY <1>0, <3>1 DEF Record, Request
    <3>3. record'.id = r /\ r # 0 /\ NoRecord.id = 0
      BY <1>0, <3>1, TypedFacts DEF NoRecord
    <3>4. record' # NoRecord
      BY <3>3
    <3> QED
      BY <3>1, <3>2, <3>3, <3>4
  <2>5. UNCHANGED <<late, round>>
    BY DEF Create
  <2>6. ~request[r].done /\ request[r].answer = "none" /\ request[r].replayOf = 0
    BY <1>0 DEF IInv, PhasesFit
  <2>7. TypeOK'
    BY <1>0, <2>3, <2>4, <2>5 DEF TypeOK
  <2>8. PhasesFit'
    BY <2>2, <2>3, <2>6 DEF IInv, PhasesFit
  <2>9. LateFits'
    BY <1>0, <2>3, <2>5 DEF IInv, LateFits
  <2>10. RecordFits'
    BY <2>2, <2>3, <2>4, <2>6 DEF RecordFits
  <2>11. HandlersHold'
    BY <2>3, <2>4 DEF IInv, HandlersHold, Holds
  <2>12. CommittedHold'
    BY <2>2, <2>3, <2>4, <2>5, <2>6 DEF IInv, CommittedHold, Holds
  <2>13. RepeatedOnlyAfterError'
    BY <2>2, <2>3, <2>6 DEF IInv, RepeatedOnlyAfterError, ExecutedTwice
  <2>14. ReplaysAreFaithful'
    <3> SUFFICES ASSUME NEW q \in Requests, request'[q].replayOf # 0
                 PROVE  LET first == request'[request'[q].replayOf] IN
                        /\ first.phase \in {"answered", "lost"}
                        /\ first.hash = request'[q].hash /\ first.answer = request'[q].answer
      BY DEF ReplaysAreFaithful
    <3>1. request'[q] = request[q] /\ request[q].replayOf \in Requests
      BY <1>0, <2>2, <2>3, <2>6, TypedFacts DEF Request, Requests
    <3>2. request'[request[q].replayOf] = request[request[q].replayOf]
      BY <1>0, <2>3, <3>1 DEF IInv, ReplaysAreFaithful
    <3> QED
      BY <3>1, <3>2 DEF IInv, ReplaysAreFaithful
  <2> QED
    BY <2>7, <2>8, <2>9, <2>10, <2>11, <2>12, <2>13, <2>14 DEF IInv
<1> QED
  BY <1>1, <1>2

\* The handler ends, or the server stops with one request or none in the
\* handler: whoever commits holds the key.
LEMMA HandlerEnds ==
    ASSUME IInv,
           request' \in [Requests -> Request],
           \A r \in Requests :
              /\ request'[r].hash = request[r].hash /\ request'[r].replayOf = request[r].replayOf
              /\ \/ request'[r] = request[r]
                 \/ /\ request[r].phase \in {"unsent", "find", "deleteExpired", "create"}
                    /\ request'[r].phase = "lost"
                    /\ request'[r].answer = request[r].answer /\ request'[r].done = request[r].done
                 \/ /\ request[r].phase = "respond" /\ request'[r].phase \in {"answered", "lost"}
                    /\ request'[r].answer = request[r].answer /\ request'[r].done = request[r].done
                    /\ request'[r].round = request[r].round
                 \/ /\ request[r].phase = "handle" /\ request'[r].phase \in {"respond", "lost"}
                    /\ request'[r].round = round
                    /\ request'[r].answer = "ok" => request'[r].done
                    /\ request'[r].answer = "refused" => ~request'[r].done
                    /\ request'[r].phase = "respond" => request'[r].answer \in Responses,
           late' \in SUBSET (Requests \X {"complete", "delete"}),
           \A r \in Requests, what \in {"complete", "delete"} :
              <<r, what>> \in late' /\ <<r, what>> \notin late =>
                 /\ request[r].phase = "respond" /\ request'[r].phase = "answered"
                 /\ what = "delete" => request[r].answer = "error",
           UNCHANGED <<record, round>>
    PROVE  IInv'
<1>0. TypeOK /\ \A r \in Requests : request[r] \in Request
  BY TypedFacts DEF IInv
<1>1. TypeOK'
  BY <1>0 DEF TypeOK
<1>2. PhasesFit'
  BY DEF IInv, PhasesFit, Responses, Answers
<1>3. LateFits'
  <2> SUFFICES ASSUME NEW r \in Requests, NEW what \in {"complete", "delete"}, <<r, what>> \in late'
               PROVE  /\ request'[r].phase = "answered" /\ request'[r].answer \in Responses
                      /\ what = "delete" => request'[r].answer = "error"
    BY DEF LateFits
  <2>1. CASE <<r, what>> \in late
    <3>1. /\ request[r].phase = "answered" /\ request[r].answer \in Responses
          /\ what = "delete" => request[r].answer = "error"
      BY <2>1 DEF IInv, LateFits
    <3>2. request'[r] = request[r]
      BY <3>1
    <3> QED
      BY <3>1, <3>2
  <2>2. CASE <<r, what>> \notin late
    <3>1. /\ request[r].phase = "respond" /\ request'[r].phase = "answered"
          /\ what = "delete" => request[r].answer = "error"
      BY <2>2
    <3>2. request[r].answer \in Responses
      BY <3>1 DEF IInv, PhasesFit
    <3>3. request'[r].answer = request[r].answer
      BY <3>1
    <3> QED
      BY <3>1, <3>2, <3>3
  <2> QED
    BY <2>1, <2>2
<1>4. RecordFits'
  BY <1>0, TypedFacts DEF IInv, RecordFits
<1>5. HandlersHold'
  BY DEF IInv, HandlersHold, Holds
<1>6. CommittedHold'
  <2> SUFFICES ASSUME NEW r \in Requests, request'[r].done
               PROVE  /\ request'[r].round <= round'
                      /\ request'[r].round = round' =>
                            \/ Holds(r)'
                            \/ request'[r].phase = "answered" /\ request'[r].answer = "error"
    BY DEF CommittedHold
  <2>1. Holds(r)' <=> Holds(r)
    BY DEF Holds
  <2>2. CASE request[r].phase \in {"handle", "respond"}
    BY <1>0, <2>1, <2>2 DEF IInv, HandlersHold, CommittedHold, TypeOK
  <2>3. CASE request[r].phase \notin {"handle", "respond"}
    BY <1>0, <2>1, <2>3 DEF IInv, PhasesFit, CommittedHold
  <2> QED
    BY <2>2, <2>3
<1>7. RepeatedOnlyAfterError'
  <2> SUFFICES ASSUME NEW r \in Requests, NEW q \in Requests, ExecutedTwice(r, q)'
               PROVE  \E first \in {r, q} :
                         request'[first].phase = "answered" /\ request'[first].answer = "error"
    BY DEF RepeatedOnlyAfterError
  <2>1. CASE request'[r].round = round
    BY <1>6, <2>1 DEF ExecutedTwice, CommittedHold, Holds
  <2>2. CASE request'[r].round # round
    BY <2>2 DEF ExecutedTwice, IInv, PhasesFit, RepeatedOnlyAfterError
  <2> QED
    BY <2>1, <2>2
<1>8. ReplaysAreFaithful'
  <2> SUFFICES ASSUME NEW q \in Requests, request'[q].replayOf # 0
               PROVE  LET first == request'[request'[q].replayOf] IN
                      /\ first.phase \in {"answered", "lost"}
                      /\ first.hash = request'[q].hash /\ first.answer = request'[q].answer
    BY DEF ReplaysAreFaithful
  <2>1. request'[q] = request[q] /\ request[q].replayOf \in Requests
    BY <1>0, TypedFacts DEF IInv, PhasesFit, Request, Requests
  <2>2. request'[request[q].replayOf] = request[request[q].replayOf]
    BY <2>1 DEF IInv, ReplaysAreFaithful
  <2> QED
    BY <2>1, <2>2 DEF IInv, ReplaysAreFaithful
<1> QED
  BY <1>1, <1>2, <1>3, <1>4, <1>5, <1>6, <1>7, <1>8 DEF IInv

\* The handler and its answer keep the invariant.
LEMMA HandlerSteps ==
    ASSUME IInv, NEW r \in Requests,
           \/ \E done \in BOOLEAN, answer \in Responses : Handle(r, done, answer)
           \/ Respond(r)
    PROVE  IInv'
<1>0. request[r] \in Request /\ TypeOK
  BY TypedFacts DEF IInv
<1>1. ASSUME NEW done \in BOOLEAN, NEW answer \in Responses, Handle(r, done, answer)
      PROVE  IInv'
  <2> DEFINE next == [request[r] EXCEPT !.phase = "respond", !.answer = answer,
                                        !.done = done, !.round = round]
  <2>1. request' = [request EXCEPT ![r] = next] /\ next \in Request
    BY <1>0, <1>1 DEF Handle, Request, Phases, Answers, TypeOK
  <2>2. /\ next.phase = "respond" /\ next.answer = answer /\ next.done = done
        /\ next.round = round /\ next.hash = request[r].hash /\ next.replayOf = request[r].replayOf
    BY <1>0 DEF Request
  <2> HIDE DEF next
  <2>3. /\ request' \in [Requests -> Request] /\ request'[r] = next
        /\ \A q \in Requests : q # r => request'[q] = request[q]
    BY <1>0, <2>1, OneRequest
  <2>4. late' \in SUBSET (Requests \X {"complete", "delete"}) /\ UNCHANGED <<record, late, round>>
    BY <1>0, <1>1 DEF Handle, TypeOK
  <2> QED
    BY <1>1, <2>2, <2>3, <2>4, HandlerEnds DEF Handle
<1>2. CASE Respond(r)
  <2> DEFINE next == [request[r] EXCEPT !.phase = "answered"]
  <2>1. request' = [request EXCEPT ![r] = next] /\ next \in Request
    BY <1>0, <1>2 DEF Respond, Goto, Request, Phases
  <2>2. /\ next.phase = "answered" /\ next.answer = request[r].answer /\ next.done = request[r].done
        /\ next.round = request[r].round /\ next.hash = request[r].hash
        /\ next.replayOf = request[r].replayOf
    BY <1>0 DEF Request
  <2> HIDE DEF next
  <2>3. /\ request' \in [Requests -> Request] /\ request'[r] = next
        /\ \A q \in Requests : q # r => request'[q] = request[q]
    BY <1>0, <2>1, OneRequest
  <2>4. late' \in SUBSET (Requests \X {"complete", "delete"})
    BY <1>0, <1>2 DEF Respond, TypeOK, Afterwards
  <2>5. \A q \in Requests, what \in {"complete", "delete"} :
           <<q, what>> \in late' /\ <<q, what>> \notin late =>
              q = r /\ (what = "delete" => request[r].answer = "error")
    BY <1>2 DEF Respond, Afterwards
  <2> QED
    BY <1>2, <2>2, <2>3, <2>4, <2>5, HandlerEnds DEF Respond
<1> QED
  BY <1>1, <1>2

\* A crash keeps it: whoever was in the handler is no longer.
LEMMA CrashStep ==
    ASSUME IInv, NEW committed \in BOOLEAN, Crash(committed)
    PROVE  IInv'
<1>0. TypeOK /\ \A r \in Requests : request[r] \in Request
  BY TypedFacts DEF IInv
<1>1. ASSUME NEW r \in Requests
      PROVE  /\ request'[r] \in Request
             /\ request'[r].hash = request[r].hash /\ request'[r].replayOf = request[r].replayOf
             /\ request'[r].answer = request[r].answer
             /\ \/ request'[r] = request[r]
                \/ /\ request[r].phase \in {"find", "deleteExpired", "create", "respond"}
                   /\ request'[r].phase = "lost"
                   /\ request'[r].done = request[r].done /\ request'[r].round = request[r].round
                \/ /\ request[r].phase = "handle" /\ request'[r].phase = "lost"
                   /\ request'[r].done = committed /\ request'[r].round = round
  <2>1. CASE ~InFlight(r)
    <3>1. request'[r] = request[r]
      BY <2>1 DEF Crash
    <3> QED
      BY <1>0, <3>1
  <2>2. CASE InFlight(r) /\ request[r].phase = "handle"
    <3>1. request'[r] = [request[r] EXCEPT !.phase = "lost", !.done = committed, !.round = round]
      BY <2>2 DEF Crash
    <3> QED
      BY <1>0, <2>2, <3>1 DEF Request, Phases, TypeOK
  <2>3. CASE InFlight(r) /\ request[r].phase # "handle"
    <3>1. request'[r] = [request[r] EXCEPT !.phase = "lost"]
      BY <2>3 DEF Crash
    <3> QED
      BY <1>0, <2>3, <3>1 DEF Request, Phases, InFlight
  <2> QED
    BY <2>1, <2>2, <2>3
<1>2. request' \in [Requests -> Request]
  <2>1. request' = [r \in Requests |-> request'[r]]
    BY DEF Crash
  <2> QED
    BY <1>1, <2>1
<1>3. late' = {} /\ UNCHANGED <<record, round>>
  BY DEF Crash
<1>4. \A r \in Requests : request[r].phase = "handle" => request[r].answer = "none"
  BY DEF IInv, PhasesFit
<1> QED
  BY <1>1, <1>2, <1>3, <1>4, HandlerEnds

\* The statements left running, and the end of the key's lifetime, change the
\* record and no request.
LEMMA RecordSteps ==
    ASSUME IInv,
           \/ \E r \in Requests : \/ CompleteRecord(r) \/ DeleteRecord(r)
                                 \/ \E what \in {"complete", "delete"} : LoseLate(r, what)
           \/ Expire
    PROVE  IInv'
<1>0. TypeOK /\ request' = request
  BY DEF IInv, CompleteRecord, DeleteRecord, LoseLate, Expire
<1>1. PhasesFit' /\ RepeatedOnlyAfterError' /\ ReplaysAreFaithful'
  BY <1>0 DEF IInv, PhasesFit, RepeatedOnlyAfterError, ExecutedTwice, ReplaysAreFaithful
<1>2. late' \subseteq late
  BY DEF CompleteRecord, DeleteRecord, LoseLate, Expire
<1>3. LateFits'
  BY <1>0, <1>2 DEF IInv, LateFits
<1>4. ASSUME NEW r \in Requests, CompleteRecord(r)
      PROVE  IInv'
  <2>1. request[r].phase = "answered" /\ request[r].answer \in Responses /\ UNCHANGED round
    BY <1>4 DEF CompleteRecord, IInv, LateFits
  <2>2. CASE record.id = r
    <3>1. record # NoRecord /\ record \in Record /\ record' = Completed(r)
      BY <1>0, <1>4, <2>2, TypedFacts DEF CompleteRecord
    <3>2. /\ record' \in Record /\ record'.id = record.id /\ record'.expired = record.expired
          /\ record'.hash = record.hash /\ record'.response = request[r].answer
      BY <2>1, <3>1 DEF Completed, Record
    <3>3. record' # NoRecord
      BY <1>0, <3>1, <3>2, TypedFacts DEF NoRecord
    <3>4. TypeOK'
      BY <1>0, <1>2, <2>1, <3>2 DEF TypeOK
    <3>5. RecordFits'
      BY <1>0, <2>1, <2>2, <3>1, <3>2 DEF IInv, RecordFits
    <3>6. HandlersHold' /\ CommittedHold'
      BY <1>0, <2>1, <3>1, <3>2, <3>3 DEF IInv, HandlersHold, CommittedHold, Holds
    <3> QED
      BY <1>1, <1>3, <3>4, <3>5, <3>6 DEF IInv
  <2>3. CASE record.id # r
    <3>1. UNCHANGED <<record, round>>
      BY <1>4, <2>3 DEF CompleteRecord
    <3> QED
      BY <1>0, <1>1, <1>2, <1>3, <3>1 DEF IInv, TypeOK, RecordFits, HandlersHold, CommittedHold, Holds
  <2> QED
    BY <2>2, <2>3
<1>5. ASSUME NEW r \in Requests, DeleteRecord(r)
      PROVE  IInv'
  <2>1. request[r].phase = "answered" /\ request[r].answer = "error" /\ UNCHANGED round
    BY <1>5 DEF DeleteRecord, IInv, LateFits
  <2>2. record' = record \/ (record.id = r /\ record' = NoRecord)
    BY <1>5 DEF DeleteRecord
  <2>3. TypeOK' /\ RecordFits'
    BY <1>0, <1>2, <2>1, <2>2 DEF IInv, TypeOK, RecordFits
  <2>4. HandlersHold' /\ CommittedHold'
    BY <1>0, <2>1, <2>2 DEF IInv, HandlersHold, CommittedHold, Holds
  <2> QED
    BY <1>1, <1>3, <2>3, <2>4 DEF IInv
<1>6. ASSUME NEW r \in Requests, NEW what \in {"complete", "delete"}, LoseLate(r, what)
      PROVE  IInv'
  BY <1>0, <1>1, <1>2, <1>3, <1>6
     DEF LoseLate, IInv, TypeOK, RecordFits, HandlersHold, CommittedHold, Holds
<1>7. CASE Expire
  <2>1. record # NoRecord /\ record \in Record /\ round' = round + 1 /\ round \in Nat
    BY <1>0, <1>7, TypedFacts DEF Expire, TypeOK
  <2>2. /\ record' \in Record /\ record'.id = record.id /\ record'.status = record.status
        /\ record'.hash = record.hash /\ record'.response = record.response
    BY <1>7, <2>1 DEF Expire, Record
  <2>3. TypeOK'
    BY <1>0, <1>2, <2>1, <2>2 DEF TypeOK
  <2>4. RecordFits'
    BY <1>0, <2>1, <2>2 DEF IInv, RecordFits
  <2>5. HandlersHold'
    BY <1>0, <1>7 DEF IInv, HandlersHold, Holds, Expire
  <2>6. CommittedHold'
    <3> SUFFICES ASSUME NEW r \in Requests, request[r].done
                 PROVE  request[r].round <= round + 1 /\ request[r].round # round + 1
      BY <1>0, <2>1 DEF CommittedHold
    <3>1. request[r].round <= round /\ request[r].round \in Nat
      BY <1>0, TypedFacts DEF IInv, CommittedHold, Request
    <3> QED
      BY <2>1, <3>1
  <2> QED
    BY <1>1, <1>3, <2>3, <2>4, <2>5, <2>6 DEF IInv
<1> QED
  BY <1>4, <1>5, <1>6, <1>7

\* Every step keeps it.
LEMMA InvStep == IInv /\ [Next]_vars => IInv'
<1> SUFFICES ASSUME IInv, [Next]_vars PROVE IInv'
  OBVIOUS
<1>1. CASE UNCHANGED vars
  BY <1>1 DEF vars, IInv, TypeOK, PhasesFit, LateFits, RecordFits, HandlersHold, CommittedHold,
     Holds, RepeatedOnlyAfterError, ExecutedTwice, ReplaysAreFaithful
<1> QED
  BY <1>1, BeforeHandlerSteps, CreateStep, HandlerSteps, CrashStep, RecordSteps DEF Next, Step

\* The invariant holds throughout.
LEMMA Invariance == Spec => []IInv
BY InvInit, InvStep, PTL DEF Spec

(***************************************************************************)
(* The record, the requests and what is left running keep their types.     *)
(***************************************************************************)
THEOREM TypeCorrect == Spec => []TypeOK
<1>1. IInv => TypeOK
  BY DEF IInv
<1> QED
  BY <1>1, Invariance, PTL

(***************************************************************************)
(* However requests with one key overlap, crash, expire and are cleaned    *)
(* up after, two of them are never in the handler at once.                 *)
(***************************************************************************)
THEOREM OneHandler == Spec => []HandlersExclude
<1>1. IInv => HandlersExclude
  BY DEF IInv, HandlersHold, Holds, HandlersExclude
<1> QED
  BY <1>1, Invariance, PTL

(***************************************************************************)
(* What was done and not answered with an error is not done again while    *)
(* the key is kept.                                                        *)
(***************************************************************************)
THEOREM RepetitionNeedsError == Spec => []RepeatedOnlyAfterError
<1>1. IInv => RepeatedOnlyAfterError
  BY DEF IInv
<1> QED
  BY <1>1, Invariance, PTL

(***************************************************************************)
(* A replay is the answer of the first request with the same body.         *)
(***************************************************************************)
THEOREM FaithfulReplays == Spec => []ReplaysAreFaithful
<1>1. IInv => ReplaysAreFaithful
  BY DEF IInv
<1> QED
  BY <1>1, Invariance, PTL

(***************************************************************************)
(* The middleware implements OnceOnly.                                     *)
(***************************************************************************)
\* The refinement mapping, as Idempotency gives it to OnceOnly.
Body == [r \in Requests |-> request[r].hash]

Effects == {<<r, request[r].round>> : r \in {q \in Requests : request[q].done}}

HeardBy == [r \in Requests |-> Heard(r)]

\* A request has taken effect for OnceOnly when its handler committed.
LEMMA EffectiveIsDone ==
    ASSUME TypeOK, NEW r \in Requests
    PROVE  r \in Once!Effective <=> request[r].done
<1>1. \A q \in Requests : <<q, request[q].round>>[1] = q
  OBVIOUS
<1> QED
  BY <1>1 DEF Once!Effective

\* Nothing that a client can tell happens.
Quiet ==
    /\ \A r \in Requests :
          /\ request'[r].hash = request[r].hash /\ request'[r].done = request[r].done
          /\ request[r].done => request'[r].round = request[r].round
          /\ Heard(r)' = Heard(r)
    /\ round' = round

\* A quiet step is a stutter of OnceOnly.
LEMMA QuietStutters ==
    ASSUME Quiet
    PROVE  UNCHANGED <<Body, Effects, HeardBy, round>>
<1>1. Body' = Body /\ HeardBy' = HeardBy
  BY DEF Quiet, Body, HeardBy
<1>2. Effects' = Effects
  BY DEF Quiet, Effects
<1> QED
  BY <1>1, <1>2 DEF Quiet

\* One request is answered.
Hears(r, answer) ==
    /\ \A q \in Requests \ {r} : request'[q] = request[q]
    /\ request[r].phase # "answered" /\ request'[r].phase = "answered" /\ request'[r].answer = answer
    /\ request'[r].hash = request[r].hash /\ request'[r].done = request[r].done
    /\ request'[r].round = request[r].round
    /\ round' = round

\* A step that answers one request is heard as that in OnceOnly.
LEMMA HearsIsHear ==
    ASSUME TypeOK, NEW r \in Requests, NEW answer, Hears(r, answer)
    PROVE  Once!Hear(r, answer)
<1>1. HeardBy[r] = "none" /\ Heard(r)' = answer /\ \A q \in Requests \ {r} : Heard(q)' = Heard(q)
  BY DEF Hears, HeardBy, Heard
<1>2. HeardBy' = [HeardBy EXCEPT ![r] = answer]
  BY <1>1 DEF HeardBy
<1>3. Body' = Body /\ Effects' = Effects
  BY DEF Hears, Body, Effects
<1> QED
  BY <1>1, <1>2, <1>3 DEF Once!Hear, HeardBy, Body, Effects, Hears

\* One request takes effect, and no client hears of anything.
LEMMA EffectTaken ==
    ASSUME IInv, NEW r \in Requests,
           \A q \in Requests \ {r} : /\ request'[q].hash = request[q].hash
                                    /\ request'[q].done = request[q].done
                                    /\ request'[q].round = request[q].round
                                    /\ Heard(q)' = Heard(q),
           request[r].phase = "handle", request'[r].phase # "answered",
           request'[r].hash = request[r].hash, request'[r].done, request'[r].round = round,
           round' = round
    PROVE  Once!TakesEffect(r)
<1>1. ~request[r].done /\ Holds(r) /\ TypeOK
  BY DEF IInv, PhasesFit, HandlersHold
<1>2. r \notin Once!Effective
  BY <1>1, EffectiveIsDone
<1>3. Heard(r) = "none" /\ Heard(r)' = "none"
  BY DEF Heard
<1>4. \A q \in Requests : <<q, round>> \in Effects => Heard(q) = "error"
  BY <1>1 DEF Effects, IInv, CommittedHold, Holds, Heard
<1>5. Effects' = Effects \cup {<<r, round>>}
  BY <1>1 DEF Effects
<1>6. Body' = Body /\ HeardBy' = HeardBy
  BY <1>3 DEF Body, HeardBy
<1> QED
  BY <1>2, <1>3, <1>4, <1>5, <1>6 DEF Once!TakesEffect, Effects, Body, HeardBy

\* A step before the handler is quiet, or one of the answers of OnceOnly.
LEMMA AnswerSteps ==
    ASSUME IInv, NEW r \in Requests, Find(r) \/ DeleteExpired(r) \/ Create(r)
    PROVE  \/ Quiet
           \/ \E first \in Requests : Once!IsReplayed(r, first)
           \/ \E answer \in {"keyReused", "inProgress", "notFound"} : Once!IsTurnedAway(r, answer)
<1>0. /\ TypeOK /\ request[r] \in Request /\ UNCHANGED round
      /\ request[r].phase \in {"find", "deleteExpired", "create"} /\ ~request[r].done
  BY TypedFacts DEF IInv, PhasesFit, Find, DeleteExpired, Create
<1>1. ASSUME NEW phase \in {"create", "deleteExpired", "handle"}, Goto(r, phase)
      PROVE  Quiet
  <2> DEFINE next == [request[r] EXCEPT !.phase = phase]
  <2>1. request' = [request EXCEPT ![r] = next] /\ next \in Request
    BY <1>0, <1>1 DEF Goto, Request, Phases
  <2>2. /\ next.phase = phase /\ next.hash = request[r].hash
        /\ next.done = request[r].done /\ next.round = request[r].round
    BY <1>0 DEF Request
  <2> HIDE DEF next
  <2> QED
    BY <1>0, <2>1, <2>2, OneRequest DEF Quiet, Heard
<1>2. ASSUME NEW answer \in {"keyReused", "inProgress", "notFound"}, Answered(r, answer)
      PROVE  Once!IsTurnedAway(r, answer)
  <2> DEFINE next == [request[r] EXCEPT !.phase = "answered", !.answer = answer]
  <2>1. request' = [request EXCEPT ![r] = next] /\ next \in Request
    BY <1>0, <1>2 DEF Answered, Request, Phases, Answers
  <2>2. /\ next.phase = "answered" /\ next.answer = answer /\ next.hash = request[r].hash
        /\ next.done = request[r].done /\ next.round = request[r].round
    BY <1>0 DEF Request
  <2> HIDE DEF next
  <2>3. Hears(r, answer)
    BY <1>0, <2>1, <2>2, OneRequest DEF Hears
  <2> QED
    BY <1>0, <2>3, HearsIsHear, EffectiveIsDone DEF Once!IsTurnedAway
<1>3. ASSUME record # NoRecord, ~record.expired, SameRequest(r), record.status = "COMPLETED", Find(r)
      PROVE  \E first \in Requests : Once!IsReplayed(r, first)
  <2> DEFINE next == [request[r] EXCEPT !.phase = "answered", !.answer = record.response,
                                        !.replayOf = record.id]
             first == record.id
  <2>1. request' = [request EXCEPT ![r] = next]
    BY <1>3 DEF Find
  <2>2. first \in Requests /\ record.response \in Responses
    BY <1>0, <1>3, TypedFacts DEF Record
  <2>3. next \in Request
    <3>1. record.id \in 0 .. MaxRequests /\ record.response \in Answers /\ "answered" \in Phases
      BY <2>2, ConstantsAssumption DEF Phases, Answers, Requests
    <3> QED
      BY <1>0, <3>1 DEF Request
  <2>4. /\ next.phase = "answered" /\ next.answer = record.response /\ next.hash = request[r].hash
        /\ next.done = request[r].done /\ next.round = request[r].round
    BY <1>0 DEF Request
  <2>5. /\ request[first].phase = "answered" /\ request[first].answer = record.response
        /\ request[first].hash = request[r].hash /\ request[first].replayOf = 0
    BY <1>3 DEF IInv, RecordFits, SameRequest
  <2> HIDE DEF next, first
  <2>6. Hears(r, record.response)
    BY <1>0, <2>1, <2>3, <2>4, OneRequest DEF Hears
  <2>7. Heard(first) = record.response /\ (record.response = "ok" => request[first].done)
    BY <2>2, <2>5 DEF Heard, IInv, PhasesFit
  <2> QED
    BY <1>0, <2>2, <2>5, <2>6, <2>7, HearsIsHear, EffectiveIsDone DEF Once!IsReplayed
<1>4. CASE Find(r)
  BY <1>1, <1>2, <1>3, <1>4 DEF Find
<1>5. CASE DeleteExpired(r)
  BY <1>1, <1>2, <1>5 DEF DeleteExpired
<1>6. CASE Create(r)
  BY <1>1, <1>2, <1>6 DEF Create
<1> QED
  BY <1>4, <1>5, <1>6

\* A handler takes effect when it commits.
LEMMA HandleIsAbstract ==
    ASSUME IInv, NEW r \in Requests, NEW done \in BOOLEAN, NEW answer \in Responses,
           Handle(r, done, answer)
    PROVE  Quiet \/ Once!TakesEffect(r)
<1> DEFINE next == [request[r] EXCEPT !.phase = "respond", !.answer = answer,
                                      !.done = done, !.round = round]
<1>0. TypeOK /\ request[r] \in Request /\ request[r].phase = "handle" /\ ~request[r].done
  BY TypedFacts DEF IInv, PhasesFit, Handle
<1>1. request' = [request EXCEPT ![r] = next] /\ next \in Request /\ UNCHANGED round
  BY <1>0 DEF Handle, Request, Phases, Answers, TypeOK
<1>2. next.phase = "respond" /\ next.done = done /\ next.round = round /\ next.hash = request[r].hash
  BY <1>0 DEF Request
<1> HIDE DEF next
<1>3. request'[r] = next /\ \A q \in Requests \ {r} : request'[q] = request[q]
  BY <1>0, <1>1, OneRequest
<1>4. CASE ~done
  <2>1. request[r].done = FALSE /\ done = FALSE
    BY <1>0, <1>4 DEF Request
  <2>2. Heard(r)' = Heard(r) /\ request'[r].done = request[r].done
    BY <1>0, <1>2, <1>3, <2>1 DEF Heard
  <2>3. \A q \in Requests \ {r} : request'[q] = request[q] /\ Heard(q)' = Heard(q)
    BY <1>3 DEF Heard
  <2> QED
    BY <1>1, <1>2, <1>3, <2>1, <2>2, <2>3 DEF Quiet
<1>5. CASE done
  <2>1. \A q \in Requests \ {r} : request'[q] = request[q] /\ Heard(q)' = Heard(q)
    BY <1>3 DEF Heard
  <2>2. /\ request'[r].phase # "answered" /\ request'[r].hash = request[r].hash
        /\ request'[r].done /\ request'[r].round = round /\ round' = round
    BY <1>1, <1>2, <1>3, <1>5
  <2> QED
    BY <1>0, <2>1, <2>2, EffectTaken
<1> QED
  BY <1>4, <1>5

\* Its answer is the answer.
LEMMA RespondIsAbstract ==
    ASSUME IInv, NEW r \in Requests, Respond(r)
    PROVE  \E answer \in Responses : Once!IsAnswered(r, answer)
<1> DEFINE next   == [request[r] EXCEPT !.phase = "answered"]
           answer == request[r].answer
<1>0. TypeOK /\ request[r] \in Request /\ request[r].phase = "respond"
  BY TypedFacts DEF IInv, Respond
<1>1. request' = [request EXCEPT ![r] = next] /\ next \in Request /\ UNCHANGED round
  BY <1>0 DEF Respond, Goto, Request, Phases
<1>2. /\ next.phase = "answered" /\ next.answer = answer /\ next.hash = request[r].hash
      /\ next.done = request[r].done /\ next.round = request[r].round
  BY <1>0 DEF Request
<1> HIDE DEF next
<1>3. Hears(r, answer)
  BY <1>0, <1>1, <1>2, OneRequest DEF Hears
<1>4. /\ answer \in Responses
      /\ answer = "ok" => request[r].done
      /\ answer = "refused" => ~request[r].done
  BY <1>0 DEF IInv, PhasesFit
<1> QED
  BY <1>0, <1>3, <1>4, HearsIsHear, EffectiveIsDone DEF Once!IsAnswered

\* A crash takes effect for the handler that had committed, if any.
LEMMA CrashIsAbstract ==
    ASSUME IInv, NEW committed \in BOOLEAN, Crash(committed)
    PROVE  Quiet \/ \E r \in Requests : Once!TakesEffect(r)
<1>0. TypeOK /\ UNCHANGED round /\ \A r \in Requests : request[r] \in Request
  BY TypedFacts DEF IInv, Crash
<1>1. ASSUME NEW r \in Requests
      PROVE  /\ request'[r].hash = request[r].hash /\ Heard(r)' = Heard(r)
             /\ request'[r].phase = "answered" <=> request[r].phase = "answered"
             /\ request[r].phase = "handle" => request'[r].done = committed /\ request'[r].round = round
             /\ request[r].phase # "handle" => /\ request'[r].done = request[r].done
                                               /\ request'[r].round = request[r].round
  <2>1. CASE ~InFlight(r)
    <3>1. request'[r] = request[r] /\ request[r].phase # "handle"
      BY <2>1 DEF Crash, InFlight
    <3> QED
      BY <3>1 DEF Heard
  <2>2. CASE request[r].phase = "handle"
    <3>1. request'[r] = [request[r] EXCEPT !.phase = "lost", !.done = committed, !.round = round]
      BY <2>2 DEF Crash, InFlight
    <3> QED
      BY <1>0, <2>2, <3>1 DEF Request, Heard
  <2>3. CASE InFlight(r) /\ request[r].phase # "handle"
    <3>1. request'[r] = [request[r] EXCEPT !.phase = "lost"]
      BY <2>3 DEF Crash
    <3> QED
      BY <1>0, <2>3, <3>1 DEF Request, InFlight, Heard
  <2> QED
    BY <2>1, <2>2, <2>3
<1>2. \A r \in Requests : request[r].phase = "handle" => request[r].done = FALSE
  BY <1>0 DEF IInv, PhasesFit, Request
<1>3. CASE ~committed \/ \A r \in Requests : request[r].phase # "handle"
  <2> SUFFICES ASSUME NEW r \in Requests
               PROVE  /\ request'[r].hash = request[r].hash /\ request'[r].done = request[r].done
                      /\ request[r].done => request'[r].round = request[r].round
                      /\ Heard(r)' = Heard(r)
    BY <1>0 DEF Quiet
  <2>1. CASE request[r].phase = "handle"
    <3>1. request'[r].done = committed /\ committed = FALSE /\ request[r].done = FALSE
      BY <1>1, <1>2, <1>3, <2>1
    <3> QED
      BY <1>1, <3>1
  <2>2. CASE request[r].phase # "handle"
    BY <1>1, <2>2
  <2> QED
    BY <2>1, <2>2
<1>4. ASSUME committed, NEW r \in Requests, request[r].phase = "handle"
      PROVE  Once!TakesEffect(r)
  <2>1. \A q \in Requests \ {r} : request[q].phase # "handle"
    BY <1>4 DEF IInv, HandlersHold, Holds
  <2> QED
    BY <1>0, <1>1, <1>4, <2>1, EffectTaken
<1> QED
  BY <1>3, <1>4

\* The unawaited writes and the arrival of a request are quiet.
LEMMA OtherSteps ==
    ASSUME IInv,
           \/ \E r \in Requests : \/ Send(r) \/ CompleteRecord(r) \/ DeleteRecord(r)
                                 \/ \E what \in {"complete", "delete"} : LoseLate(r, what)
           \/ UNCHANGED vars
    PROVE  Quiet
<1>0. TypeOK /\ \A r \in Requests : request[r] \in Request
  BY TypedFacts DEF IInv
<1>1. ASSUME NEW r \in Requests, Send(r)
      PROVE  Quiet
  <2> DEFINE next == [request[r] EXCEPT !.phase = "find"]
  <2>1. request' = [request EXCEPT ![r] = next] /\ next \in Request /\ UNCHANGED round
    BY <1>0, <1>1 DEF Send, Goto, Request, Phases
  <2>2. /\ next.phase = "find" /\ next.hash = request[r].hash
        /\ next.done = request[r].done /\ next.round = request[r].round
    BY <1>0 DEF Request
  <2> HIDE DEF next
  <2> QED
    BY <1>0, <1>1, <2>1, <2>2, OneRequest DEF Send, Quiet, Heard
<1>2. ASSUME UNCHANGED <<request, round>>
      PROVE  Quiet
  BY <1>2 DEF Quiet, Heard
<1> QED
  BY <1>1, <1>2 DEF CompleteRecord, DeleteRecord, LoseLate, vars

(***************************************************************************)
(* Whatever the middleware lets a handler do or tells a client, OnceOnly   *)
(* allows.                                                                 *)
(***************************************************************************)
THEOREM MiddlewareIsOnceOnly == Spec => ImplementsOnceOnly
<1>1. Init => Once!Init
  <2> SUFFICES ASSUME Init PROVE Once!Init
    OBVIOUS
  <2>1. TypeOK /\ \A r \in Requests : request[r] \in Request
    BY InvInit, TypedFacts DEF IInv
  <2>2. \A r \in Requests : request[r].phase = "unsent" /\ request[r].done = FALSE
    BY DEF Init
  <2>3. Body \in [Requests -> Payloads]
    BY <2>1 DEF Body, Request
  <2>4. Effects = {} /\ HeardBy = [r \in Requests |-> "none"]
    BY <2>2 DEF Effects, HeardBy, Heard
  <2> QED
    BY <2>3, <2>4 DEF Once!Init, Init, Body, Effects, HeardBy
<1>2. IInv /\ [Next]_vars => [Once!Next]_(Once!vars)
  <2> SUFFICES ASSUME IInv, [Next]_vars PROVE [Once!Next]_(Once!vars)
    OBVIOUS
  <2>1. ASSUME Quiet PROVE UNCHANGED Once!vars
    BY <2>1, QuietStutters DEF Once!vars, Body, Effects, HeardBy
  <2>2. ASSUME NEW r \in Requests, Find(r) \/ DeleteExpired(r) \/ Create(r)
        PROVE  [Once!Next]_(Once!vars)
    BY <2>1, <2>2, AnswerSteps DEF Once!Next
  <2>3. ASSUME NEW r \in Requests, NEW done \in BOOLEAN, NEW answer \in Responses,
               Handle(r, done, answer)
        PROVE  [Once!Next]_(Once!vars)
    BY <2>1, <2>3, HandleIsAbstract DEF Once!Next
  <2>4. ASSUME NEW r \in Requests, Respond(r)
        PROVE  [Once!Next]_(Once!vars)
    BY <2>4, RespondIsAbstract DEF Once!Next
  <2>5. ASSUME NEW committed \in BOOLEAN, Crash(committed)
        PROVE  [Once!Next]_(Once!vars)
    BY <2>1, <2>5, CrashIsAbstract DEF Once!Next
  <2>6. CASE Expire
    <3>1. round' = round + 1 /\ request' = request
      BY <2>6 DEF Expire
    <3>2. Once!BeginLifetime
      BY <3>1 DEF Once!BeginLifetime, Heard
    <3> QED
      BY <3>2 DEF Once!Next
  <2>7. ASSUME \/ \E r \in Requests : \/ Send(r) \/ CompleteRecord(r) \/ DeleteRecord(r)
                                      \/ \E what \in {"complete", "delete"} : LoseLate(r, what)
               \/ UNCHANGED vars
        PROVE  [Once!Next]_(Once!vars)
    BY <2>1, <2>7, OtherSteps
  <2> QED
    BY <2>2, <2>3, <2>4, <2>5, <2>6, <2>7 DEF Next, Step
<1> QED
  BY <1>1, <1>2, Invariance, PTL DEF Spec, ImplementsOnceOnly, Once!Spec
=============================================================================
