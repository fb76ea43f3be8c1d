--------------------------- MODULE Server_proofs ---------------------------
(***************************************************************************)
(* Proofs about Server for any set of requests: types, events of committed *)
(* writes only, and what a graceful exit leaves behind.                    *)
(***************************************************************************)
EXTENDS Server, TLAPS

(***************************************************************************)
(* Type correctness.                                                       *)
(***************************************************************************)
\* Setting the state of a job gives a job again.
LEMMA JobTyped ==
    ASSUME NEW old \in Jobs,
           NEW state \in {"none", "waiting", "active", "abandoned", "completed", "failed"}
    PROVE  [old EXCEPT !.state = state] \in Jobs
BY DEF Jobs

\* A restart of the worker leaves jobs that have their types.
LEMMA AbandonedTyped ==
    ASSUME TypeOK
    PROVE  Abandoned \in [Requests -> Jobs]
BY JobTyped DEF TypeOK, Abandoned

\* The end of the process keeps the types of what it changes.
LEMMA EndTyped ==
    ASSUME TypeOK, NEW how \in Ended, End(how)
    PROVE  TypeOK'
<1>1. server' \in Running \cup Ended
  BY DEF End
<1>2. request' \in [Requests -> Phases]
  BY DEF End, TypeOK, Phases
<1>3. committed' \subseteq Requests
  BY DEF End, TypeOK
<1> QED
  BY <1>1, <1>2, <1>3 DEF End, TypeOK, Fresh, workerVars

\* Every step keeps the types.
LEMMA TypeStep == TypeOK /\ [Next]_vars => TypeOK'
<1> SUFFICES ASSUME TypeOK, [Next]_vars PROVE TypeOK'
  OBVIOUS
<1> USE DEF TypeOK, requests, redisVars, workerVars
<1>1. ASSUME NEW r \in Requests, Receive(r) \/ HangUp(r) \/ Commit(r) \/ Refuse(r) \/ Answer(r)
      PROVE  TypeOK'
  <2>1. CASE Receive(r) \/ HangUp(r)
    BY <2>1 DEF Receive, HangUp, Goto, Phases
  <2>2. CASE Commit(r)
    BY <2>2 DEF Commit, Goto, Phases
  <2>3. CASE Refuse(r) \/ Answer(r)
    BY <2>3 DEF Refuse, Answer, Done, Goto, Phases
  <2> QED
    BY <1>1, <2>1, <2>2, <2>3
<1>2. ASSUME NEW r \in Requests, Publish(r)
      PROVE  TypeOK'
  <2>1. Added(r) \in Jobs
    BY JobTyped DEF Added
  <2> QED
    BY <1>2, <2>1 DEF Publish, Goto, Phases
<1>3. ASSUME NEW r \in Requests, LoseEvent(r)
      PROVE  TypeOK'
  BY <1>3 DEF LoseEvent, Goto, Phases
<1>4. ASSUME NEW r \in Requests, TakeJob(r) \/ CompleteJob(r)
      PROVE  TypeOK'
  <2>1. ASSUME NEW state \in {"active", "completed"}
        PROVE  [job EXCEPT ![r].state = state] \in [Requests -> Jobs]
    BY JobTyped
  <2>2. job' \in [Requests -> Jobs]
    BY <1>4, <2>1 DEF TakeJob, CompleteJob, JobIs
  <2> QED
    BY <1>4, <2>2 DEF TakeJob, CompleteJob
<1>5. ASSUME NEW r \in Requests, RecoverJob(r)
      PROVE  TypeOK'
  <2>1. job' \in [Requests -> Jobs]
    BY <1>5, JobTyped DEF RecoverJob, Jobs
  <2> QED
    BY <1>5, <2>1 DEF RecoverJob
<1>6. CASE RedisGoes \/ RedisComes \/ Connect \/ FirstConnectFails
  BY <1>6 DEF RedisGoes, RedisComes, Connect, FirstConnectFails
<1>7. CASE ConnectSocket \/ DisconnectSocket \/ Shutdown \/ CloseCallback \/ Restart
  BY <1>7 DEF ConnectSocket, DisconnectSocket, Shutdown, CloseCallback, Restart, Running
<1>8. CASE Exit \/ TimeOut \/ Kill
  BY <1>8, EndTyped DEF Exit, TimeOut, Kill, Ended
<1>9. CASE StartWorker \/ StopWorker \/ ExitWorker \/ KillWorker \/ RestartWorker
  BY <1>9, AbandonedTyped DEF StartWorker, StopWorker, ExitWorker, KillWorker, RestartWorker
<1>10. CASE UNCHANGED vars
  BY <1>10 DEF vars
<1> QED
  BY <1>1, <1>2, <1>3, <1>4, <1>5, <1>6, <1>7, <1>8, <1>9, <1>10 DEF Next, Process, Work

(***************************************************************************)
(* Whatever Redis, the clients and the two processes do, the variables     *)
(* stay in their types.                                                    *)
(***************************************************************************)
THEOREM TypeCorrect == Spec => []TypeOK
<1>1. Init => TypeOK
  <2> SUFFICES ASSUME Init PROVE TypeOK
    OBVIOUS
  <2>1. [state |-> "none", stalled |-> FALSE] \in Jobs
    BY DEF Jobs
  <2>2. job \in [Requests -> Jobs] /\ request \in [Requests -> Phases]
    BY <2>1 DEF Init, Phases
  <2> QED
    BY <2>2 DEF Init, TypeOK, Running, Fresh
<1> QED
  BY <1>1, TypeStep, PTL DEF Spec

(***************************************************************************)
(* The queue knows only what was committed.                                *)
(***************************************************************************)
\* What publishes has committed; TypeOK and EventsOfCommitted are not enough, as
\* they say nothing of a request on its way to the queue.
EventsInv ==
    /\ EventsOfCommitted
    /\ \A r \in Requests : request[r] = "publishing" => r \in committed

\* Every step keeps it.
LEMMA EventsStep == TypeOK /\ EventsInv /\ [Next]_vars => EventsInv'
<1> SUFFICES ASSUME TypeOK, EventsInv, [Next]_vars PROVE EventsInv'
  OBVIOUS
<1> USE DEF EventsInv, EventsOfCommitted, TypeOK, requests, redisVars, workerVars
<1>1. ASSUME NEW r \in Requests, Receive(r) \/ HangUp(r) \/ Commit(r) \/ Refuse(r) \/ Answer(r)
      PROVE  EventsInv'
  BY <1>1 DEF Receive, HangUp, Commit, Refuse, Answer, Done, Goto
<1>2. ASSUME NEW r \in Requests, Publish(r) \/ LoseEvent(r)
      PROVE  EventsInv'
  BY <1>2 DEF Publish, LoseEvent, ReadyToPublish, Goto
<1>3. ASSUME NEW r \in Requests, Work(r)
      PROVE  EventsInv'
  BY <1>3 DEF Work, TakeJob, CompleteJob, RecoverJob, JobIs, Jobs
<1>4. CASE RedisGoes \/ RedisComes \/ Connect \/ FirstConnectFails \/ ConnectSocket
              \/ DisconnectSocket \/ Shutdown \/ CloseCallback \/ Restart
  BY <1>4 DEF RedisGoes, RedisComes, Connect, FirstConnectFails, ConnectSocket,
              DisconnectSocket, Shutdown, CloseCallback, Restart
<1>5. CASE Exit \/ TimeOut \/ Kill
  BY <1>5 DEF Exit, TimeOut, Kill, End, InFlight
<1>6. CASE StartWorker \/ StopWorker \/ ExitWorker \/ KillWorker \/ RestartWorker
  BY <1>6 DEF StartWorker, StopWorker, ExitWorker, KillWorker, RestartWorker, Abandoned, Jobs
<1>7. CASE UNCHANGED vars
  BY <1>7 DEF vars
<1> QED
  BY <1>1, <1>2, <1>3, <1>4, <1>5, <1>6, <1>7 DEF Next, Process

(***************************************************************************)
(* The worker never hears of a write that is not in the database, for any  *)
(* number of requests and any crash.                                       *)
(***************************************************************************)
THEOREM EventsAreOfCommitted == Spec => []EventsOfCommitted
<1>1. Init => EventsInv
  BY DEF Init, EventsInv, EventsOfCommitted
<1>2. EventsInv => EventsOfCommitted
  BY DEF EventsInv
<1> QED
  BY <1>1, <1>2, EventsStep, TypeCorrect, PTL DEF Spec

(***************************************************************************)
(* A graceful exit.                                                        *)
(***************************************************************************)
\* From the close callback on nothing is connected, nothing comes in, and what
\* is still in flight is of clients that hung up.
NothingLeft == server = "releasing" => NoConnection

\* Every step keeps it.
LEMMA NothingLeftStep == TypeOK /\ NothingLeft /\ [Next]_vars => NothingLeft'
<1> SUFFICES ASSUME TypeOK, NothingLeft, [Next]_vars PROVE NothingLeft'
  OBVIOUS
<1> USE DEF NothingLeft, NoConnection, InFlight, TypeOK, requests, redisVars, workerVars
<1>1. ASSUME NEW r \in Requests, Receive(r) \/ HangUp(r) \/ Process(r)
      PROVE  NothingLeft'
  <2>1. CASE Receive(r) \/ HangUp(r)
    BY <2>1 DEF Receive, HangUp, Goto
  <2>2. CASE Commit(r)
    BY <2>2 DEF Commit, Goto
  <2>3. CASE Publish(r) \/ LoseEvent(r)
    BY <2>3 DEF Publish, ReadyToPublish, LoseEvent, Goto
  <2>4. CASE Refuse(r) \/ Answer(r)
    BY <2>4 DEF Refuse, Answer, Done, Goto
  <2> QED
    BY <1>1, <2>1, <2>2, <2>3, <2>4 DEF Process
<1>2. ASSUME NEW r \in Requests, Work(r)
      PROVE  NothingLeft'
  BY <1>2 DEF Work, TakeJob, CompleteJob, RecoverJob
<1>3. CASE RedisGoes \/ RedisComes \/ Connect \/ FirstConnectFails \/ ConnectSocket
              \/ DisconnectSocket \/ Shutdown \/ CloseCallback \/ Restart
  BY <1>3 DEF RedisGoes, RedisComes, Connect, FirstConnectFails, ConnectSocket,
              DisconnectSocket, Shutdown, CloseCallback, Restart
<1>4. CASE Exit \/ TimeOut \/ Kill
  BY <1>4 DEF Exit, TimeOut, Kill, End
<1>5. CASE StartWorker \/ StopWorker \/ ExitWorker \/ KillWorker \/ RestartWorker
  BY <1>5 DEF StartWorker, StopWorker, ExitWorker, KillWorker, RestartWorker
<1>6. CASE UNCHANGED vars
  BY <1>6 DEF vars
<1> QED
  BY <1>1, <1>2, <1>3, <1>4, <1>5, <1>6 DEF Next

\* The step that ends the process with code 0 is the end of the callback.
LEMMA OnlyExitEnds ==
    ASSUME TypeOK, [Next]_vars, server' = "exit0", server # "exit0"
    PROVE  Exit
<1> USE DEF requests, redisVars, workerVars
<1>1. ASSUME NEW r \in Requests, Receive(r) \/ HangUp(r) \/ Process(r) \/ Work(r)
      PROVE  FALSE
  BY <1>1 DEF Receive, HangUp, Process, Commit, Refuse, Publish, LoseEvent, Answer, Done,
              Work, TakeJob, CompleteJob, RecoverJob
<1>2. CASE RedisGoes \/ RedisComes \/ Connect \/ FirstConnectFails \/ ConnectSocket
              \/ DisconnectSocket \/ Shutdown \/ CloseCallback \/ Restart
  BY <1>2 DEF RedisGoes, RedisComes, Connect, FirstConnectFails, ConnectSocket,
              DisconnectSocket, Shutdown, CloseCallback, Restart
<1>3. CASE TimeOut \/ Kill
  BY <1>3 DEF TimeOut, Kill, End
<1>4. CASE StartWorker \/ StopWorker \/ ExitWorker \/ KillWorker \/ RestartWorker
  BY <1>4 DEF StartWorker, StopWorker, ExitWorker, KillWorker, RestartWorker
<1>5. CASE UNCHANGED vars
  BY <1>5 DEF vars
<1> QED
  BY <1>1, <1>2, <1>3, <1>4, <1>5 DEF Next

(***************************************************************************)
(* A process that ends with code 0 cuts no request but of clients that     *)
(* hung up, however many there are, and no websocket.                      *)
(***************************************************************************)
THEOREM GracefulExitIsClean == Spec => GracefulExitServesWhoWaits
<1> DEFINE Clean == server' = "exit0" /\ server # "exit0" =>
                        ~sockets /\ \A r \in Requests :
                            request'[r] = "cut" => request[r] = "cut" \/ r \in gone
<1>1. TypeOK /\ NothingLeft /\ [Next]_vars => [Clean]_vars
  <2> SUFFICES ASSUME TypeOK, NothingLeft, [Next]_vars, server' = "exit0", server # "exit0"
               PROVE  ~sockets /\ \A r \in Requests :
                          request'[r] = "cut" => request[r] = "cut" \/ r \in gone
    OBVIOUS
  <2>1. Exit
    BY OnlyExitEnds
  <2> QED
    BY <2>1 DEF Exit, End, NothingLeft, NoConnection, InFlight
<1>2. Init => NothingLeft
  BY DEF Init, NothingLeft
<1> QED
  BY <1>1, <1>2, NothingLeftStep, TypeCorrect, PTL DEF Spec, GracefulExitServesWhoWaits
=============================================================================
