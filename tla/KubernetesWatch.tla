---------------------------- MODULE KubernetesWatch ----------------------------
(***************************************************************************)
(* One watch thread of the Kubernetes updater (kubernetes.cc): WatchMaster *)
(* connects, waits until the thread of its Watcher has stopped, and goes   *)
(* round again; the Watcher's thread runs the handlers of the io_service:  *)
(* the timers, and the connection, which calls the Watcher with the data   *)
(* and the end of the stream.  The callback of the watch runs inside such a*)
(* call, on the same thread: while it runs no other handler does, and the  *)
(* callback of the pods' watch queries the master without a timeout.       *)
(*                                                                         *)
(* The HTTP client is external.  Its connection behaves like the adapted   *)
(* copy of it in src/http: an error before the request is sent fails the   *)
(* response, the headers complete it, and an end of stream before the      *)
(* headers calls nobody.  What remains pending when the io_service stops   *)
(* goes on when it runs again.  The thread ends only by stop(), because    *)
(* the client keeps the io_service busy.                                   *)
(***************************************************************************)
EXTENDS Integers

CONSTANT Configs  \* configurations the agent may be started with

AllTimers == {"reconnect", "silence"}

ASSUME WatchAssumption ==
  Configs \subseteq [retries: Int, max_failures: Nat, timers: SUBSET AllTimers,
                     verbose: BOOLEAN, pods: BOOLEAN]

VARIABLES
  config,     \* the configuration and what is watched, which never change
  master_pc,  \* where WatchMaster stands
  i,          \* iterations begun, if Retries limits them
  failures,   \* failures
  runner,     \* whether the thread of the Watcher is running
  stopped,    \* watch_service->stopped()
  armed,      \* timers that are waiting
  queued,     \* timers that expired and whose handlers have not run
  conn,       \* the connection of this iteration
  response,   \* what body(response) would do
  stale,      \* whether connections of earlier iterations are still pending
  lost,       \* whether the master has fallen silent for good
  callback,   \* what the Watcher's thread is handling, in the watch's callback
  unhealthy,  \* whether SetUnhealthy was called
  bad         \* ghost: connections in a row that got no response

Retries == config.retries                     \* KubernetesUpdaterWatchConnectionRetries
MaxConnectionFailures == config.max_failures  \* ...WatchMaxConnectionFailures
Timers == config.timers                       \* the timers with a positive duration
Verbose == config.verbose                     \* VerboseLogging
OfPods == config.pods                         \* whether this is WatchPods

watchMasterVars == <<master_pc, i, failures, unhealthy, bad>>
ioVars == <<runner, stopped, armed, queued, conn, response, stale, lost,
                 callback, config>>
watchVars == <<watchMasterVars, ioVars>>

WatchInit ==
  /\ config \in Configs
  /\ master_pc = "loop"
  /\ i = 0
  /\ failures = 0
  /\ runner = FALSE
  /\ stopped = FALSE
  /\ armed = {}
  /\ queued = {}
  /\ conn = "none"
  /\ response = "none"
  /\ stale = FALSE
  /\ lost = FALSE
  /\ callback = "none"
  /\ unhealthy = FALSE
  /\ bad = 0

--------------------------------------------------------------------------------
\* WatchMaster.

\* A plausible bug: the reconnect timer does not outlive the block it is set in.
BeginIterationForgetsInterval ==
  /\ master_pc = "loop"
  /\ Retries <= 0 \/ i < Retries
  /\ master_pc' = "get"
  /\ i' = IF Retries > 0 THEN i + 1 ELSE i
  /\ stopped' = FALSE
  /\ armed' = Timers \ {"reconnect"}
  /\ runner' = TRUE
  /\ UNCHANGED <<failures, queued, conn, response, stale, lost, callback, config,
                 unhealthy, bad>>

\* Reset the service, arm the timers, start the Watcher's thread.
BeginIteration ==
  /\ master_pc = "loop"
  /\ Retries <= 0 \/ i < Retries
  /\ master_pc' = "get"
  /\ i' = IF Retries > 0 THEN i + 1 ELSE i
  /\ stopped' = FALSE
  /\ armed' = Timers
  /\ runner' = TRUE
  /\ UNCHANGED <<failures, queued, conn, response, stale, lost, callback, config,
                 unhealthy, bad>>

\* The loop ends, and with it the watch thread.
IterationsDone ==
  /\ master_pc = "loop"
  /\ Retries > 0 /\ i >= Retries
  /\ master_pc' = "exited"
  /\ unhealthy' = TRUE
  /\ UNCHANGED <<i, failures, bad, ioVars>>

\* client.get starts a connection and returns.
Get ==
  /\ master_pc = "get"
  /\ master_pc' = "join"
  /\ conn' = "connecting"
  /\ response' = "pending"
  /\ UNCHANGED <<i, failures, unhealthy, bad, runner, stopped, armed,
                 queued, stale, lost, callback, config>>

\* A connection that has operations pending in the service.
Pending == conn \in {"connecting", "sent", "open"}

\* The variables of the iteration are destroyed: its timers are cancelled, but
\* handlers that are queued stay queued, and so does a pending connection.
EndIteration ==
  /\ armed' = {}
  /\ stale' = (stale \/ Pending)
  /\ conn' = "none"
  /\ response' = "none"
  /\ bad' = IF response = "ok" THEN 0
            ELSE IF bad <= MaxConnectionFailures THEN bad + 1 ELSE bad
  /\ UNCHANGED <<i, runner, stopped, queued, lost, callback, config>>

\* join() returned and nothing is logged: the failure count is reset.
Joined ==
  /\ master_pc = "join"
  /\ ~runner
  /\ ~Verbose
  /\ master_pc' = "loop"
  /\ failures' = 0
  /\ EndIteration
  /\ UNCHANGED unhealthy

\* join() returned and body(response) is about to be logged.
JoinedVerbosely ==
  /\ master_pc = "join"
  /\ ~runner
  /\ Verbose
  /\ master_pc' = "body"
  /\ UNCHANGED <<i, failures, unhealthy, bad, ioVars>>

BodyReturns ==
  /\ master_pc = "body"
  /\ response = "ok"
  /\ master_pc' = "loop"
  /\ failures' = 0
  /\ EndIteration
  /\ UNCHANGED unhealthy

\* A plausible bug: the thread gives up one failure early.
BodyThrowsOneEarly ==
  /\ master_pc = "body"
  /\ response = "error"
  /\ failures' = failures + 1
  /\ IF failures' >= MaxConnectionFailures
     THEN master_pc' = "exited" /\ unhealthy' = TRUE
     ELSE master_pc' = "backoff" /\ UNCHANGED unhealthy
  /\ EndIteration

\* body(response) throws the system_error of a failed connection.  After too
\* many, a QueryException ends the watch thread.
BodyThrows ==
  /\ master_pc = "body"
  /\ response = "error"
  /\ failures' = failures + 1
  /\ IF failures' > MaxConnectionFailures
     THEN master_pc' = "exited" /\ unhealthy' = TRUE
     ELSE master_pc' = "backoff" /\ UNCHANGED unhealthy
  /\ EndIteration

\* body(response) throws because the connection is gone and never completed
\* the response.  WatchMaster neither catches nor declares that exception.
BodyIsBroken ==
  /\ master_pc = "body"
  /\ response = "broken"
  /\ master_pc' = "terminated"
  /\ UNCHANGED <<i, failures, unhealthy, bad, ioVars>>

BackedOff ==
  /\ master_pc = "backoff"
  /\ master_pc' = "loop"
  /\ UNCHANGED <<i, failures, unhealthy, bad, ioVars>>

WatchMaster ==
  \/ BeginIteration \/ IterationsDone \/ Get \/ Joined \/ JoinedVerbosely
  \/ BodyReturns \/ BodyThrows \/ BodyIsBroken \/ BackedOff

--------------------------------------------------------------------------------
\* Handlers that the Watcher's thread runs.

\* The thread is in service->run(), between two handlers.
Running == runner /\ ~stopped /\ callback = "none"

TimerExpires(t) ==
  /\ Running
  /\ t \in armed
  /\ armed' = armed \ {t}
  /\ queued' = queued \cup {t}
  /\ UNCHANGED <<watchMasterVars, runner, stopped, conn, response, stale,
                 lost, callback, config>>

\* A plausible bug: the handler sets its timer again instead of stopping.
TimerHandlerRestarts(t) ==
  /\ Running
  /\ t \in queued
  /\ queued' = queued \ {t}
  /\ armed' = armed \cup {t}
  /\ UNCHANGED <<watchMasterVars, runner, stopped, conn, response, stale,
                 lost, callback, config>>

TimerHandler(t) ==
  /\ Running
  /\ t \in queued
  /\ queued' = queued \ {t}
  /\ stopped' = TRUE
  /\ UNCHANGED <<watchMasterVars, runner, armed, conn, response, stale, lost,
                 callback, config>>

\* The connection fails before the request is sent.
ConnectFails ==
  /\ Running
  /\ conn = "connecting"
  /\ conn' = "closed"
  /\ response' = "error"
  /\ stopped' = TRUE
  /\ UNCHANGED <<watchMasterVars, runner, armed, queued, stale, lost,
                 callback, config>>

RequestSent ==
  /\ Running
  /\ conn = "connecting"
  /\ conn' = "sent"
  /\ UNCHANGED <<watchMasterVars, runner, stopped, armed, queued, response,
                 stale, lost, callback, config>>

\* A plausible bug: the service is stopped without an error too.
HeadersArriveAndStop ==
  /\ Running
  /\ conn = "sent"
  /\ ~lost
  /\ conn' = "open"
  /\ response' = "ok"
  /\ callback' = "last"
  /\ UNCHANGED <<watchMasterVars, runner, stopped, armed, queued, stale, lost,
                 config>>

\* The headers complete the response and the Watcher gets the first data.
HeadersArrive ==
  /\ Running
  /\ conn = "sent"
  /\ ~lost
  /\ conn' = "open"
  /\ response' = "ok"
  /\ callback' = "chunk"
  /\ UNCHANGED <<watchMasterVars, runner, stopped, armed, queued, stale, lost,
                 config>>

\* The stream ends before the headers: the connection is dropped silently.
EarlyEOF ==
  /\ Running
  /\ conn = "sent"
  /\ conn' = "closed"
  /\ response' = "broken"
  /\ UNCHANGED <<watchMasterVars, runner, stopped, armed, queued, stale, lost,
                 callback, config>>

\* A read fails before the headers: the Watcher is told.
EarlyError ==
  /\ Running
  /\ conn = "sent"
  /\ conn' = "closed"
  /\ response' = "broken"
  /\ stopped' = TRUE
  /\ UNCHANGED <<watchMasterVars, runner, armed, queued, stale, lost,
                 callback, config>>

\* Events arrive; the Watcher parses them and calls back for each.
Chunk ==
  /\ Running
  /\ conn = "open"
  /\ ~lost
  /\ callback' = "chunk"
  /\ UNCHANGED <<watchMasterVars, runner, stopped, armed, queued, conn, response,
                 stale, lost, config>>

\* The stream ends or breaks, and the last data comes with the error.
StreamEnds ==
  /\ Running
  /\ conn = "open"
  /\ conn' = "closed"
  /\ callback' = "last"
  /\ UNCHANGED <<watchMasterVars, runner, stopped, armed, queued, response, stale,
                 lost, config>>

\* A connection of an earlier iteration calls the Watcher it was given, which
\* is destroyed; the one of this iteration has taken its place in memory.
StaleChunk ==
  /\ Running
  /\ stale
  /\ ~lost
  /\ callback' = "chunk"
  /\ UNCHANGED <<watchMasterVars, runner, stopped, armed, queued, conn, response,
                 stale, lost, config>>

\* Such a connection ends, before its headers or with the last of its data.
StaleEnds ==
  /\ Running
  /\ stale
  /\ stale' \in BOOLEAN
  /\ callback' \in {"none", "last"}
  /\ UNCHANGED <<watchMasterVars, runner, stopped, armed, queued, conn, response,
                 lost, config>>

\* Watcher::operator() without an error sets the silence timer again; a
\* handler of that timer that is queued already stays queued.
SilenceTimerRestarted == armed' = armed \cup ({"silence"} \cap Timers)

\* The callback has handled the events, and operator() goes on behind it: after
\* the last data it stops the service.
CallbackReturns ==
  /\ callback \in {"chunk", "last"}
  /\ callback' = "none"
  /\ IF callback = "last" THEN stopped' = TRUE /\ UNCHANGED armed
     ELSE SilenceTimerRestarted /\ UNCHANGED stopped
  /\ UNCHANGED <<watchMasterVars, runner, queued, conn, response, stale, lost,
                 config>>

\* The pods' callback looks up an owner, and the master never answers.
CallbackBlocks ==
  /\ OfPods
  /\ callback \in {"chunk", "last"}
  /\ callback' = "blocked"
  /\ UNCHANGED <<watchMasterVars, runner, stopped, armed, queued, conn, response,
                 stale, lost, config>>

\* The pods' callback meets an owner of an unknown kind: KindPath throws what no
\* exception specification allows, and the process ends.
CallbackTerminates ==
  /\ OfPods
  /\ callback \in {"chunk", "last"}
  /\ callback' = "none"
  /\ runner' = FALSE
  /\ master_pc' = "terminated"
  /\ UNCHANGED <<i, failures, unhealthy, bad, stopped, armed, queued, conn, response,
                 stale, lost, config>>

\* From now on the master sends nothing, and need not close connections either.
MasterFallsSilent ==
  /\ ~lost
  /\ lost' = TRUE
  /\ UNCHANGED <<watchMasterVars, runner, stopped, armed, queued, conn, response,
                 stale, callback, config>>

\* service->run() returns.
RunReturns ==
  /\ runner
  /\ stopped
  /\ callback = "none"
  /\ runner' = FALSE
  /\ UNCHANGED <<watchMasterVars, stopped, armed, queued, conn, response,
                 stale, lost, callback, config>>

Connection == \/ ConnectFails \/ RequestSent \/ HeadersArrive \/ EarlyEOF
              \/ EarlyError \/ Chunk \/ StreamEnds \/ StaleChunk \/ StaleEnds

WatchNext ==
  \/ WatchMaster
  \/ \E t \in Timers : TimerExpires(t) \/ TimerHandler(t)
  \/ Connection
  \/ CallbackReturns \/ CallbackBlocks \/ CallbackTerminates
  \/ MasterFallsSilent
  \/ RunReturns

\* Both threads run when they can, and a callback that waits for no answer of the
\* master returns.  Between two handlers service->run() looks at the clock and at
\* its queue: the reconnect timer expires and queued handlers are run however
\* many events arrive.  The silence timer is sure to expire once no data can set
\* it again.  Nothing is assumed of the master and its connections.
WatchSpec ==
  /\ WatchInit /\ [][WatchNext]_watchVars
  /\ WF_watchVars(WatchMaster)
  /\ WF_watchVars(RunReturns)
  /\ WF_watchVars(CallbackReturns)
  /\ \A t \in AllTimers : SF_watchVars(TimerHandler(t))
  /\ SF_watchVars(TimerExpires("reconnect"))
  /\ WF_watchVars(lost /\ TimerExpires("silence"))

--------------------------------------------------------------------------------
\* The types of the variables.  The failure count never passes the limit by
\* more than the failure that ends the thread.
WatchTypeOK ==
  /\ config \in Configs
  /\ master_pc \in {"loop", "get", "join", "body", "backoff", "exited", "terminated"}
  /\ i \in Nat
  /\ Retries > 0 => i <= Retries
  /\ failures \in 0..(MaxConnectionFailures + 1)
  /\ runner \in BOOLEAN
  /\ stopped \in BOOLEAN
  /\ armed \subseteq Timers
  /\ queued \subseteq Timers
  /\ conn \in {"none", "connecting", "sent", "open", "closed"}
  /\ response \in {"none", "pending", "ok", "error", "broken"}
  /\ stale \in BOOLEAN
  /\ lost \in BOOLEAN
  /\ callback \in {"none", "chunk", "last", "blocked"}
  /\ unhealthy \in BOOLEAN
  /\ bad \in 0..(MaxConnectionFailures + 1)

\* Without timers an iteration ends with its own connection: it leaves nothing
\* behind that could call a destroyed Watcher from the next iteration's thread.
EndsWithItsConnection ==
  Timers = {} => /\ ~stale
                 /\ (master_pc \in {"join", "body"} /\ ~runner) => conn = "closed"

\* The watch thread gives up, and makes its component unhealthy, only when the
\* iterations it was allowed are used up or too many connections in a row
\* failed.
GivesUpOnlyAfterFailures ==
  unhealthy => \/ Retries > 0 /\ i = Retries
               \/ bad > MaxConnectionFailures

\* A watch thread that is not about to try again.
Over == master_pc \in {"exited", "terminated"}

\* The Watcher's thread is in a callback that never returns: it runs no timer's
\* handler, and WatchMaster waits for it in join().
Stuck == callback = "blocked"

\* A configured reconnect interval makes every connection, in whatever state,
\* give way to a new one, unless a query of the pods' callback is never answered.
\* With verbose logging the thread may wait for ever for the response of a
\* connection that was cut off.
IntervalReconnects ==
  ~Verbose /\ "reconnect" \in Timers /\ master_pc = "join"
    ~> master_pc = "get" \/ Over \/ Stuck

\* "Zero or a negative value means no reconnection for silence.", a positive
\* value means it: once the master is silent, even halfway through a response,
\* the thread connects anew, unless it logs verbosely, or was itself in a query
\* of the silent master (the pods' callback), which has no timeout.
SilenceReconnects ==
  ~Verbose /\ "silence" \in Timers /\ lost /\ master_pc = "join"
    ~> master_pc = "get" \/ Over \/ Stuck
================================================================================
