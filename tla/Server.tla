------------------------------- MODULE Server -------------------------------
(***************************************************************************)
(* The API process around a write request: what happens between the commit *)
(* and the answer (publishDomainEvent), the queue and the worker behind    *)
(* it, and the shutdown of both processes.                                 *)
(*                                                                         *)
(* Redis may go away and come back at any time.  ioredis keeps commands    *)
(* until it is connected again, without a limit (maxRetriesPerRequest:     *)
(* null).  Of BullMQ the model keeps that the constructors of Queue and    *)
(* Worker connect the lazy client at once and hold on to the promise of    *)
(* that first connection, whatever becomes of the client afterwards; that  *)
(* a job with a known id is not added again; and that a job whose worker   *)
(* died is found stalled, run again once, and then failed.                 *)
(***************************************************************************)
EXTENDS FiniteSets

CONSTANT Requests   \* write requests that clients send, one event each

VARIABLES
    server,         \* the API process
    request,        \* where each request is
    committed,      \* the requests whose transaction was committed
    gone,           \* the requests whose client hung up while the handler runs
    sockets,        \* whether a client is connected by websocket
    redis,          \* whether Redis can be reached
    connection,     \* the API's connection to it
    queue,          \* the promise of the queue's first connection
    job,            \* the job of each request's event, in Redis
    worker          \* the worker process

vars == <<server, request, committed, gone, sockets, redis, connection, queue, job, worker>>

\* What the steps of one part leave alone.
requests   == <<request, committed, gone>>
redisVars  == <<redis, connection, queue>>
workerVars == <<job, worker>>

-----------------------------------------------------------------------------
\* closing: httpServer.close was called; releasing: its callback runs; the rest
\* say how the process ended.
Running == {"listening", "closing", "releasing"}
Ended   == {"exit0", "exit1", "killed"}

\* cut: the process ended before the request was answered.
Phases == {"unsent", "handling", "publishing", "published", "answered", "cut"}

\* stuck: the worker's first connection failed, so that its loop never runs.
\* abandoned: active when its worker died.
Jobs == [state : {"none", "waiting", "active", "abandoned", "completed", "failed"},
         stalled : BOOLEAN]

TypeOK ==
    /\ server \in Running \cup Ended
    /\ request \in [Requests -> Phases]
    /\ committed \subseteq Requests
    /\ gone \subseteq Requests
    /\ sockets \in BOOLEAN
    /\ redis \in {"up", "down"}
    /\ connection \in {"connecting", "ready"}
    /\ queue \in {"starting", "ready", "failed"}
    /\ job \in [Requests -> Jobs]
    /\ worker \in {"starting", "running", "stuck", "closing", "ended"}

InFlight(r) == request[r] \in {"handling", "publishing", "published"}

Goto(r, phase) == request' = [request EXCEPT ![r] = phase]

-----------------------------------------------------------------------------
ClosedClient == "end"  \* mutant: the client that was quit is used again

\* The constructor of the queue has connected the lazy client: its status is
\* never "wait" when publishDomainEvent and the readiness check look at it.
Fresh == "connecting"

Init ==
    /\ server = "listening"
    /\ request = [r \in Requests |-> "unsent"]
    /\ committed = {}
    /\ gone = {}
    /\ sockets = FALSE
    /\ redis \in {"up", "down"}
    /\ connection = Fresh
    /\ queue = "starting"
    /\ job = [r \in Requests |-> [state |-> "none", stalled |-> FALSE]]
    /\ worker = "starting"

\* A closing server still reads from the connections that are kept alive.
Receive(r) ==
    /\ server \in {"listening", "closing"} /\ request[r] = "unsent"
    /\ Goto(r, "handling")
    /\ UNCHANGED <<server, committed, gone, sockets, redisVars, workerVars>>

\* The client gives up and closes its connection; the handler does not notice.
HangUp(r) ==
    /\ InFlight(r) /\ r \notin gone
    /\ gone' = gone \cup {r}
    /\ UNCHANGED <<server, request, committed, sockets, redisVars, workerVars>>

\* The transaction of the handler commits; the event is published after it.
Commit(r) ==
    /\ request[r] = "handling"
    /\ committed' = committed \cup {r}
    /\ Goto(r, "publishing")
    /\ UNCHANGED <<server, gone, sockets, redisVars, workerVars>>

\* The handler ends; what it answers to a client that hung up is dropped.
Done(r) ==
    /\ Goto(r, "answered")
    /\ gone' = gone \ {r}
    /\ UNCHANGED <<server, committed, sockets, redisVars, workerVars>>

\* Refused or failed: an error answer and no event.
Refuse(r) == request[r] = "handling" /\ Done(r)

Added(r) == IF job[r].state = "none" THEN [job[r] EXCEPT !.state = "waiting"] ELSE job[r]

EarlyPublish(r) == request[r] \in {"handling", "publishing"}  \* mutant: published in the transaction

ReadyToPublish(r) == request[r] = "publishing"

\* queue.add awaits the queue's promise, and the command the connection.
Publish(r) ==
    /\ ReadyToPublish(r)
    /\ queue = "ready" /\ connection = "ready" /\ redis = "up"
    /\ job' = [job EXCEPT ![r] = Added(r)]
    /\ Goto(r, "published")
    /\ UNCHANGED <<server, committed, gone, sockets, redisVars, worker>>

AnyConnecting == redis = "down"  \* mutant: commands fail while the client reconnects

\* add is rejected with the queue's promise, for as long as the process lives,
\* and while queue and client are being closed.
AddRejects == queue = "failed" \/ server = "releasing"

\* The rejection is caught and logged: the event is lost.
LoseEvent(r) ==
    /\ request[r] = "publishing" /\ AddRejects
    /\ Goto(r, "published")
    /\ UNCHANGED <<server, committed, gone, sockets, redisVars, workerVars>>

\* The row is read back and sent.
Answer(r) == request[r] = "published" /\ Done(r)

-----------------------------------------------------------------------------
RedisGoes ==
    /\ redis = "up"
    /\ redis' = "down"
    /\ connection' = "connecting"
    /\ UNCHANGED <<server, requests, sockets, queue, workerVars>>

RedisComes ==
    /\ redis = "down"
    /\ redis' = "up"
    /\ UNCHANGED <<server, requests, sockets, connection, queue, workerVars>>

GivesUp == FALSE  \* mutant: retryStrategy ends the reconnection

CanReconnect == redis = "up"

\* For the first time, or again: only the first makes the queue ready.
Connect ==
    /\ server \in Running
    /\ connection = "connecting" /\ CanReconnect
    /\ connection' = "ready"
    /\ queue' = IF queue = "starting" THEN "ready" ELSE queue
    /\ UNCHANGED <<server, requests, sockets, redis, workerVars>>

\* connect() is rejected when its first attempt is.  ioredis goes on trying;
\* the queue keeps the rejected promise.
FirstConnectFails ==
    /\ server \in Running
    /\ queue = "starting" /\ redis = "down"
    /\ queue' = "failed"
    /\ UNCHANGED <<server, requests, sockets, redis, connection, workerVars>>

ConnectSocket ==
    /\ server = "listening" /\ ~sockets
    /\ sockets' = TRUE
    /\ UNCHANGED <<server, requests, redisVars, workerVars>>

DisconnectSocket ==
    /\ sockets
    /\ sockets' = FALSE
    /\ UNCHANGED <<server, requests, redisVars, workerVars>>

-----------------------------------------------------------------------------
\* A signal, an uncaught exception or an unhandled rejection; further ones
\* return at once (shuttingDown).
Shutdown ==
    /\ server = "listening"
    /\ server' = "closing"
    /\ UNCHANGED <<requests, sockets, redisVars, workerVars>>

ListenerClosed == TRUE  \* mutant: the process exits without waiting for its connections

\* No connection is open, a websocket among them: only the callback closes io.
\* A handler may still run, for a client that hung up.
NoConnection == ~sockets /\ \A r \in Requests : InFlight(r) => r \in gone

CloseCallback ==
    /\ server = "closing" /\ NoConnection
    /\ server' = "releasing"
    /\ UNCHANGED <<requests, sockets, redisVars, workerVars>>

\* The process ends as `how`.  Of a request in its transaction the database
\* may still commit what it was sent.
End(how) ==
    /\ server' = how
    /\ request' = [r \in Requests |-> IF InFlight(r) THEN "cut" ELSE request[r]]
    /\ \E more \in SUBSET {r \in Requests : request[r] = "handling"} :
          committed' = committed \cup more
    /\ gone' = {}
    /\ sockets' = FALSE
    /\ connection' = Fresh
    /\ queue' = "starting"
    /\ UNCHANGED <<redis, workerVars>>

\* io, queue, Redis and database are closed, well or not.  An outage may hold
\* this up until the timer fires, which no property depends on.
Exit == server = "releasing" /\ End("exit0")

NoTimer == FALSE  \* mutant: no setTimeout

TimerArmed == server \in {"closing", "releasing"}

TimeOut == TimerArmed /\ End("exit1")

Kill == server \in Running /\ End("killed")

Restart ==
    /\ server \in Ended
    /\ server' = "listening"
    /\ UNCHANGED <<requests, sockets, redisVars, workerVars>>

-----------------------------------------------------------------------------
\* The constructor of the worker connects as the queue's does, and its loop
\* begins when that has succeeded.
StartWorker ==
    /\ worker = "starting"
    /\ worker' = IF redis = "up" THEN "running" ELSE "stuck"
    /\ UNCHANGED <<server, requests, sockets, redisVars, job>>

JobIs(r, state) == job' = [job EXCEPT ![r].state = state]

TakeJob(r) ==
    /\ worker = "running" /\ redis = "up" /\ job[r].state = "waiting"
    /\ JobIs(r, "active")
    /\ UNCHANGED <<server, requests, sockets, redisVars, worker>>

CompleteJob(r) ==
    /\ worker \in {"running", "closing"} /\ redis = "up" /\ job[r].state = "active"
    /\ JobIs(r, "completed")
    /\ UNCHANGED <<server, requests, sockets, redisVars, worker>>

\* A job is found without a worker: it waits again, the second time it fails.
RecoverJob(r) ==
    /\ worker = "running" /\ redis = "up" /\ job[r].state = "abandoned"
    /\ job' = [job EXCEPT ![r] = IF @.stalled THEN [@ EXCEPT !.state = "failed"]
                                 ELSE [state |-> "waiting", stalled |-> TRUE]]
    /\ UNCHANGED <<server, requests, sockets, redisVars, worker>>

StopWorker ==
    /\ worker \in {"starting", "running", "stuck"}
    /\ worker' = "closing"
    /\ UNCHANGED <<server, requests, sockets, redisVars, job>>

JobsDone == \A r \in Requests : job[r].state # "active"

\* worker.close() has waited for the active jobs; quit needs Redis.
ExitWorker ==
    /\ worker = "closing" /\ JobsDone /\ redis = "up"
    /\ worker' = "ended"
    /\ UNCHANGED <<server, requests, sockets, redisVars, job>>

Abandoned ==
    [r \in Requests |-> IF job[r].state = "active" THEN [job[r] EXCEPT !.state = "abandoned"] ELSE job[r]]

KillWorker ==
    /\ worker # "ended"
    /\ worker' = "ended"
    /\ job' = Abandoned
    /\ UNCHANGED <<server, requests, sockets, redisVars>>

RestartWorker ==
    /\ worker = "ended"
    /\ worker' = "starting"
    /\ UNCHANGED <<server, requests, sockets, redisVars, job>>

-----------------------------------------------------------------------------
Process(r) == Commit(r) \/ Refuse(r) \/ Publish(r) \/ LoseEvent(r) \/ Answer(r)

Work(r) == TakeJob(r) \/ CompleteJob(r) \/ RecoverJob(r)

Next ==
    \/ \E r \in Requests : Receive(r) \/ HangUp(r) \/ Process(r) \/ Work(r)
    \/ RedisGoes \/ RedisComes \/ Connect \/ FirstConnectFails
    \/ ConnectSocket \/ DisconnectSocket
    \/ Shutdown \/ CloseCallback \/ Exit \/ TimeOut \/ Kill \/ Restart
    \/ StartWorker \/ StopWorker \/ ExitWorker \/ KillWorker \/ RestartWorker

\* The event loop goes on with what it can do, ioredis connects, the timer
\* fires, and the worker works on what it can reach.  Nothing is assumed of
\* Redis, clients, signals or whoever restarts a process.
Fairness ==
    /\ \A r \in Requests : WF_vars(Process(r)) /\ WF_vars(Work(r))
    /\ WF_vars(Connect)
    /\ WF_vars(TimeOut)

Spec == Init /\ [][Next]_vars /\ Fairness

-----------------------------------------------------------------------------
\* The worker never hears of a write that is not in the database, whatever dies
\* between the commit and the queue.
EventsOfCommitted == \A r \in Requests : job[r].state # "none" => r \in committed

\* A graceful exit interrupts nobody who waits: when the process ends with code
\* 0 no websocket is open, and each request that it cuts is one whose client
\* hung up, one received while it was closing among them.  Those it does cut,
\* in their transaction or between commit and publication.
GracefulExitServesWhoWaits ==
    [][server' = "exit0" /\ server # "exit0" =>
          ~sockets /\ \A r \in Requests : request'[r] = "cut" => request[r] = "cut" \/ r \in gone]_vars

\* Once shutdown has begun the process ends, whoever stays connected and
\* whatever Redis and the requests under way do.
ShutdownEnds == server \in {"closing", "releasing"} ~> server \in Ended

\* If Redis stays reachable in the end, every committed write is answered unless
\* the process ends first: publishing delays it no longer than Redis is away.
CommittedAnswered ==
    <>[](redis = "up") =>
        \A r \in Requests : request[r] = "publishing" ~> request[r] \in {"answered", "cut"}

\* If Redis and the worker's loop run in the end, the event of every committed
\* write that a process with a working queue goes on to publish is handled, or
\* failed after two crashes of the worker; outages and restarts of the worker do
\* not lose it.  Lost are the events of a process whose first connection failed,
\* of one that ends first, and of a client that hung up when the queue is closed
\* beneath its handler.  A worker started in an outage never runs its loop.
EventsHandled ==
    <>[](redis = "up" /\ worker = "running") =>
        \A r \in Requests :
            request[r] = "publishing" /\ queue = "ready"
                ~> \/ request[r] = "cut"
                   \/ server = "releasing" /\ r \in gone
                   \/ job[r].state \in {"completed", "failed"}
=============================================================================
