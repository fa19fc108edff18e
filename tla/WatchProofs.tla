------------------------------ MODULE WatchProofs ------------------------------
(***************************************************************************)
(* The watch threads of the Kubernetes updater: the loop of each, for every*)
(* configuration of retries, failures, timers and logging; and what the    *)
(* threads that watch services and endpoints store between them, for any   *)
(* finite set of services and any number of changes and disconnections.    *)
(***************************************************************************)
EXTENDS KubernetesWatch, ServiceMetadata, MetadataStoreProofs,
        FiniteSetTheorems, SequenceTheorems

--------------------------------------------------------------------------------
\* The loop of a watch thread (KubernetesWatch).

\* The failures counted are among the connections in a row that got no
\* response, and a thread that goes on has not counted too many.
CountInv ==
  /\ failures <= bad
  /\ master_pc # "exited" => failures <= MaxConnectionFailures /\ ~unhealthy

\* A thread runs the service only within an iteration, which has a connection
\* from client.get to its end; join() returns because the service stopped.
IterationInv ==
  /\ master_pc \in {"loop", "get", "backoff", "exited"} => conn = "none"
  /\ master_pc \in {"join", "body"} => conn # "none"
  /\ master_pc # "get" /\ master_pc # "join" => ~runner
  /\ master_pc = "get" /\ ~runner => stopped
  /\ master_pc = "join" /\ ~runner => stopped
  /\ callback # "none" => runner

\* Without timers, only the connection of the iteration calls the Watcher and
\* stops the service, and it does so as it closes.
NoTimersInv ==
  Timers = {} =>
    /\ ~stale
    /\ callback # "none" => conn \in {"open", "closed"}
    /\ callback = "last" => conn = "closed"
    /\ master_pc = "get" => ~stopped
    /\ master_pc = "join" /\ stopped => conn = "closed"
    /\ master_pc = "body" => conn = "closed"

WatchInv ==
  /\ WatchTypeOK
  /\ CountInv
  /\ IterationInv
  /\ NoTimersInv
  /\ GivesUpOnlyAfterFailures

\* The configuration's fields have their types (configuration.h).
LEMMA ConfigFacts ==
  ASSUME WatchTypeOK
  PROVE  /\ Retries \in Int /\ MaxConnectionFailures \in Nat
         /\ Timers \subseteq AllTimers /\ Verbose \in BOOLEAN
BY WatchAssumption DEF WatchTypeOK, Retries, MaxConnectionFailures, Timers, Verbose

\* The numbers of the invariant, whatever the configuration.
LEMMA CountFacts ==
  ASSUME WatchInv
  PROVE  /\ i \in Nat /\ (Retries > 0 => i <= Retries)
         /\ failures \in Nat /\ failures <= MaxConnectionFailures + 1
         /\ bad \in Nat /\ bad <= MaxConnectionFailures + 1
         /\ failures <= bad
BY ConfigFacts DEF WatchInv, WatchTypeOK, CountInv

\* What depends on the configuration only.
LEMMA ConfigFrame ==
  ASSUME UNCHANGED config
  PROVE  /\ Retries' = Retries /\ MaxConnectionFailures' = MaxConnectionFailures
         /\ Timers' = Timers /\ Verbose' = Verbose
BY DEF Retries, MaxConnectionFailures, Timers, Verbose

\* The types of what the handlers in the io_service change.
IoTypeOK ==
  /\ runner \in BOOLEAN /\ stopped \in BOOLEAN
  /\ armed \subseteq Timers /\ queued \subseteq Timers
  /\ conn \in {"none", "connecting", "sent", "open", "closed"}
  /\ response \in {"none", "pending", "ok", "error", "broken"}
  /\ stale \in BOOLEAN /\ lost \in BOOLEAN
  /\ callback \in {"none", "chunk", "last", "blocked"}

\* A step of the io_service leaves WatchMaster's variables alone
\* (kubernetes.cc:672-762), so that only the iteration has to be looked at.
LEMMA ServiceStep ==
  ASSUME WatchInv, UNCHANGED <<watchMasterVars, config>>,
         IoTypeOK', IterationInv', NoTimersInv'
  PROVE  WatchInv'
<1>1. /\ Retries' = Retries /\ MaxConnectionFailures' = MaxConnectionFailures
      /\ Timers' = Timers
  BY ConfigFrame
<1>2. WatchTypeOK'
  BY <1>1 DEF WatchInv, WatchTypeOK, IoTypeOK, watchMasterVars
<1>3. CountInv' /\ GivesUpOnlyAfterFailures'
  BY <1>1 DEF WatchInv, CountInv, GivesUpOnlyAfterFailures, watchMasterVars
<1> QED
  BY <1>2, <1>3 DEF WatchInv

\* The handlers of the timers: with them, nothing is claimed of an iteration's
\* connection; without them, there are none.
LEMMA TimerStep ==
  ASSUME WatchInv, NEW t \in Timers, TimerExpires(t) \/ TimerHandler(t)
  PROVE  WatchInv'
<1> USE DEF TimerExpires, TimerHandler
<1>1. Timers' = Timers /\ Timers # {}
  BY ConfigFrame
<1>2. IterationInv'
  BY DEF WatchInv, WatchTypeOK, IterationInv, watchMasterVars, Running
<1>3. NoTimersInv'
  BY <1>1 DEF NoTimersInv
<1>4. IoTypeOK'
  BY <1>1 DEF WatchInv, WatchTypeOK, IoTypeOK
<1> QED
  BY <1>2, <1>3, <1>4, ServiceStep

\* The connection's own handlers (Watcher::operator(), kubernetes.cc:685): the
\* service is stopped only as the connection closes.
LEMMA OwnConnectionStep ==
  ASSUME WatchInv,
         \/ ConnectFails \/ RequestSent \/ HeadersArrive \/ EarlyEOF
         \/ EarlyError \/ Chunk \/ StreamEnds
  PROVE  WatchInv'
<1> USE DEF ConnectFails, RequestSent, HeadersArrive, EarlyEOF, EarlyError, Chunk,
            StreamEnds
<1>1. Timers' = Timers
  BY ConfigFrame
<1>2. armed' \subseteq Timers
  BY DEF WatchInv, WatchTypeOK
<1>3. master_pc = "join" /\ conn' # "none"
  BY DEF WatchInv, IterationInv, WatchTypeOK, Running
<1>4. IterationInv'
  BY <1>3 DEF WatchInv, IterationInv, watchMasterVars, Running
<1>5. NoTimersInv'
  BY <1>1, <1>3 DEF WatchInv, NoTimersInv, watchMasterVars, Running
<1>6. IoTypeOK'
  BY <1>1, <1>2 DEF WatchInv, WatchTypeOK, IoTypeOK
<1> QED
  BY <1>4, <1>5, <1>6, ServiceStep

\* A connection that an earlier iteration left behind: there is none without
\* timers.
LEMMA StaleConnectionStep ==
  ASSUME WatchInv, StaleChunk \/ StaleEnds
  PROVE  WatchInv'
<1> USE DEF StaleChunk, StaleEnds
<1>1. Timers' = Timers /\ Timers # {}
  BY ConfigFrame DEF WatchInv, NoTimersInv
<1>2. armed' \subseteq Timers
  BY DEF WatchInv, WatchTypeOK
<1>3. IterationInv'
  BY DEF WatchInv, IterationInv, watchMasterVars, Running
<1>4. NoTimersInv'
  BY <1>1 DEF NoTimersInv
<1>5. IoTypeOK'
  BY <1>1, <1>2 DEF WatchInv, WatchTypeOK, IoTypeOK
<1> QED
  BY <1>3, <1>4, <1>5, ServiceStep

\* operator() goes on behind the callback (kubernetes.cc:694-737), or stays in it.
LEMMA CallbackStep ==
  ASSUME WatchInv, CallbackReturns \/ CallbackBlocks
  PROVE  WatchInv'
<1> USE DEF CallbackReturns, CallbackBlocks, SilenceTimerRestarted
<1>1. Timers' = Timers
  BY ConfigFrame
<1>2. armed' \subseteq Timers
  BY DEF WatchInv, WatchTypeOK
<1>3. IterationInv'
  BY DEF WatchInv, IterationInv, watchMasterVars
<1>4. NoTimersInv'
  BY <1>1 DEF WatchInv, IterationInv, NoTimersInv, watchMasterVars
<1>5. IoTypeOK'
  BY <1>1, <1>2 DEF WatchInv, WatchTypeOK, IoTypeOK
<1> QED
  BY <1>3, <1>4, <1>5, ServiceStep

\* An exception out of the pods' callback ends the process (kubernetes.cc:944).
LEMMA TerminationStep ==
  ASSUME WatchInv, CallbackTerminates
  PROVE  WatchInv'
<1> USE DEF CallbackTerminates
<1>1. /\ Retries' = Retries /\ MaxConnectionFailures' = MaxConnectionFailures
      /\ Timers' = Timers
  BY ConfigFrame
<1>2. WatchTypeOK'
  BY <1>1 DEF WatchInv, WatchTypeOK
<1>3. CountInv'
  <2>1. master_pc # "exited"
    BY DEF WatchInv, IterationInv
  <2> QED
    BY <1>1, <2>1 DEF WatchInv, CountInv
<1>4. IterationInv'
  BY DEF WatchInv, IterationInv
<1>5. NoTimersInv'
  BY <1>1 DEF WatchInv, NoTimersInv
<1>6. GivesUpOnlyAfterFailures'
  BY <1>1 DEF WatchInv, GivesUpOnlyAfterFailures
<1> QED
  BY <1>2, <1>3, <1>4, <1>5, <1>6 DEF WatchInv

\* The master falls silent, or service->run() returns.
LEMMA SilenceOrReturnStep ==
  ASSUME WatchInv, MasterFallsSilent \/ RunReturns
  PROVE  WatchInv'
<1> USE DEF MasterFallsSilent, RunReturns
<1>1. Timers' = Timers
  BY ConfigFrame
<1>2. IterationInv'
  BY DEF WatchInv, IterationInv, watchMasterVars
<1>3. NoTimersInv'
  BY <1>1 DEF WatchInv, NoTimersInv, watchMasterVars
<1>4. IoTypeOK'
  BY <1>1 DEF WatchInv, WatchTypeOK, IoTypeOK
<1> QED
  BY <1>2, <1>3, <1>4, ServiceStep

\* WatchMaster begins an iteration and connects (kubernetes.cc:785-832).
LEMMA BeginStep ==
  ASSUME WatchInv, BeginIteration \/ Get \/ BackedOff
  PROVE  WatchInv'
<1> USE DEF BeginIteration, Get, BackedOff, ioVars
<1>1. /\ Retries' = Retries /\ MaxConnectionFailures' = MaxConnectionFailures
      /\ Timers' = Timers
  BY ConfigFrame
<1>2. i' \in Nat /\ (Retries > 0 => i' <= Retries)
  BY CountFacts, ConfigFacts DEF WatchInv
<1>3. WatchTypeOK'
  <2>1. /\ config' \in Configs /\ UNCHANGED <<failures, bad, queued, stale, lost, callback,
                                             unhealthy>>
        /\ master_pc' \in {"get", "join", "loop"}
    BY DEF WatchInv, WatchTypeOK
  <2>2. /\ runner' \in BOOLEAN /\ stopped' \in BOOLEAN
        /\ armed' \subseteq Timers
    BY DEF WatchInv, WatchTypeOK
  <2>3. /\ conn' \in {"none", "connecting", "sent", "open", "closed"}
        /\ response' \in {"none", "pending", "ok", "error", "broken"}
    BY DEF WatchInv, WatchTypeOK
  <2> HIDE DEF BeginIteration, Get, BackedOff, ioVars
  <2> QED
    BY <1>1, <1>2, <2>1, <2>2, <2>3 DEF WatchInv, WatchTypeOK
<1>4. CountInv'
  BY <1>1 DEF WatchInv, CountInv
<1>5. IterationInv'
  BY DEF WatchInv, IterationInv
<1>6. NoTimersInv'
  BY <1>1 DEF WatchInv, NoTimersInv, IterationInv
<1>7. GivesUpOnlyAfterFailures'
  BY DEF WatchInv, CountInv, GivesUpOnlyAfterFailures
<1> QED
  BY <1>3, <1>4, <1>5, <1>6, <1>7 DEF WatchInv

\* The iterations are used up: the thread exits and says so.
LEMMA DoneStep ==
  ASSUME WatchInv, IterationsDone
  PROVE  WatchInv'
<1> USE DEF IterationsDone, ioVars
<1>1. /\ Retries' = Retries /\ MaxConnectionFailures' = MaxConnectionFailures
      /\ Timers' = Timers
  BY ConfigFrame
<1>2. WatchTypeOK'
  BY <1>1 DEF WatchInv, WatchTypeOK
<1>3. CountInv'
  BY <1>1 DEF WatchInv, CountInv
<1>4. IterationInv'
  BY DEF WatchInv, IterationInv
<1>5. NoTimersInv'
  BY <1>1 DEF WatchInv, NoTimersInv
<1>6. GivesUpOnlyAfterFailures'
  <2>1. Retries > 0 /\ i = Retries
    BY CountFacts, ConfigFacts DEF WatchInv
  <2> QED
    BY <1>1, <2>1 DEF GivesUpOnlyAfterFailures
<1> QED
  BY <1>2, <1>3, <1>4, <1>5, <1>6 DEF WatchInv

\* The connections without a response, after the one at hand.
LEMMA EndIterationFacts ==
  ASSUME WatchInv, EndIteration
  PROVE  /\ bad' \in Nat /\ bad' <= MaxConnectionFailures + 1
         /\ response # "ok" /\ failures <= MaxConnectionFailures
              => failures + 1 <= bad'
<1>1. /\ failures \in Nat /\ bad \in Nat /\ bad <= MaxConnectionFailures + 1
      /\ failures <= bad /\ MaxConnectionFailures \in Nat
  BY CountFacts, ConfigFacts DEF WatchInv
<1>2. bad' = IF response = "ok" THEN 0
             ELSE IF bad <= MaxConnectionFailures THEN bad + 1 ELSE bad
  BY DEF EndIteration
<1> QED
  BY <1>1, <1>2

\* An iteration ends (kubernetes.cc:833-856) after a response or a failure:
\* what it leaves behind is nothing, unless a timer cut it off.
LEMMA EndStep ==
  ASSUME WatchInv, Joined \/ BodyReturns \/ BodyThrows
  PROVE  WatchInv'
<1>0. /\ Retries' = Retries /\ MaxConnectionFailures' = MaxConnectionFailures
      /\ Timers' = Timers
  BY ConfigFrame DEF Joined, BodyReturns, BodyThrows, EndIteration
<1>1. EndIteration /\ master_pc \in {"join", "body"} /\ ~runner /\ callback = "none"
  BY DEF Joined, BodyReturns, BodyThrows, WatchInv, IterationInv
<1>2. /\ bad' \in Nat /\ bad' <= MaxConnectionFailures + 1
      /\ response # "ok" /\ failures <= MaxConnectionFailures
           => failures + 1 <= bad'
  BY <1>1, EndIterationFacts
<1>3. /\ failures \in Nat /\ failures <= MaxConnectionFailures /\ ~unhealthy
      /\ MaxConnectionFailures \in Nat
  BY <1>1, CountFacts, ConfigFacts DEF WatchInv, CountInv
<1>4. /\ failures' \in Nat /\ failures' <= MaxConnectionFailures + 1
      /\ failures' <= bad'
      /\ master_pc' \in {"loop", "backoff", "exited"}
      /\ unhealthy' \in BOOLEAN
      /\ master_pc' # "exited" => failures' <= MaxConnectionFailures /\ ~unhealthy'
      /\ unhealthy' => failures' > MaxConnectionFailures
  <2>0. unhealthy = FALSE
    BY <1>3 DEF WatchInv, WatchTypeOK
  <2>1. CASE Joined \/ BodyReturns
    <3>1. failures' = 0 /\ master_pc' = "loop" /\ unhealthy' = FALSE
      BY <2>0, <2>1 DEF Joined, BodyReturns
    <3>2. /\ failures' \in Nat /\ failures' <= MaxConnectionFailures
          /\ failures' <= MaxConnectionFailures + 1 /\ failures' <= bad'
      BY <1>2, <1>3, <3>1
    <3> QED
      BY <3>1, <3>2
  <2>2. CASE BodyThrows
    <3>1. failures' = failures + 1 /\ response = "error"
      BY <2>2 DEF BodyThrows
    <3>2. /\ failures' \in Nat /\ failures' <= MaxConnectionFailures + 1
          /\ failures' <= bad'
      BY <1>2, <1>3, <3>1
    <3>3. CASE failures' > MaxConnectionFailures
      BY <2>2, <3>2, <3>3 DEF BodyThrows
    <3>4. CASE ~(failures' > MaxConnectionFailures)
      <4>1. failures' <= MaxConnectionFailures
        BY <1>3, <3>2, <3>4
      <4> QED
        BY <2>0, <2>2, <3>2, <3>4, <4>1 DEF BodyThrows
    <3> QED
      BY <3>3, <3>4
  <2> QED
    BY <2>1, <2>2
<1>5. WatchTypeOK'
  BY <1>0, <1>1, <1>2, <1>3, <1>4 DEF WatchInv, WatchTypeOK, EndIteration, Pending
<1>6. CountInv'
  BY <1>0, <1>4 DEF CountInv
<1>7. IterationInv'
  BY <1>1, <1>4 DEF IterationInv, EndIteration
<1>8. NoTimersInv'
  <2> SUFFICES ASSUME Timers = {} PROVE ~stale'
    BY <1>0, <1>1, <1>4 DEF NoTimersInv, EndIteration
  <2>1. ~stale /\ conn = "closed"
    BY <1>1 DEF WatchInv, NoTimersInv, IterationInv
  <2> QED
    BY <1>1, <2>1 DEF EndIteration, Pending
<1>9. GivesUpOnlyAfterFailures'
  <2> SUFFICES ASSUME unhealthy' PROVE bad' > MaxConnectionFailures
    BY <1>0 DEF GivesUpOnlyAfterFailures
  <2> QED
    BY <1>2, <1>3, <1>4
<1> QED
  BY <1>5, <1>6, <1>7, <1>8, <1>9 DEF WatchInv

\* join() returned, or body(response) ended the process.
LEMMA LoggingStep ==
  ASSUME WatchInv, JoinedVerbosely \/ BodyIsBroken
  PROVE  WatchInv'
<1> USE DEF JoinedVerbosely, BodyIsBroken, ioVars
<1>1. /\ Retries' = Retries /\ MaxConnectionFailures' = MaxConnectionFailures
      /\ Timers' = Timers
  BY ConfigFrame
<1>2. WatchTypeOK'
  BY <1>1 DEF WatchInv, WatchTypeOK
<1>3. CountInv'
  BY <1>1 DEF WatchInv, CountInv
<1>4. IterationInv'
  BY DEF WatchInv, IterationInv
<1>5. NoTimersInv'
  BY <1>1 DEF WatchInv, NoTimersInv, IterationInv
<1>6. GivesUpOnlyAfterFailures'
  BY <1>1 DEF WatchInv, GivesUpOnlyAfterFailures
<1> QED
  BY <1>2, <1>3, <1>4, <1>5, <1>6 DEF WatchInv

\* The invariant holds from the start of the watch thread on.
THEOREM WatchInvariant == WatchSpec => []WatchInv
<1>1. WatchInit => WatchInv
  <2> SUFFICES ASSUME WatchInit PROVE WatchInv
    OBVIOUS
  <2>1. MaxConnectionFailures \in Nat /\ Retries \in Int
    BY WatchAssumption DEF WatchInit, MaxConnectionFailures, Retries
  <2>2. WatchTypeOK
    <3>1. 0 \in 0..(MaxConnectionFailures + 1) /\ (Retries > 0 => 0 <= Retries)
      BY <2>1
    <3> QED
      BY <3>1 DEF WatchInit, WatchTypeOK
  <2>3. CountInv
    BY <2>1 DEF WatchInit, CountInv
  <2>4. IterationInv /\ NoTimersInv /\ GivesUpOnlyAfterFailures
    BY DEF WatchInit, IterationInv, NoTimersInv, GivesUpOnlyAfterFailures
  <2> QED
    BY <2>2, <2>3, <2>4 DEF WatchInv
<1>2. ASSUME WatchInv, [WatchNext]_watchVars
      PROVE  WatchInv'
  <2>1. CASE WatchMaster
    BY <1>2, <2>1, BeginStep, DoneStep, EndStep, LoggingStep DEF WatchMaster
  <2>2. ASSUME NEW t \in Timers, TimerExpires(t) \/ TimerHandler(t)
        PROVE  WatchInv'
    BY <1>2, <2>2, TimerStep
  <2>3. CASE Connection
    BY <1>2, <2>3, OwnConnectionStep, StaleConnectionStep DEF Connection
  <2>4. CASE MasterFallsSilent \/ RunReturns
    BY <1>2, <2>4, SilenceOrReturnStep
  <2>5. CASE CallbackReturns \/ CallbackBlocks \/ CallbackTerminates
    BY <1>2, <2>5, CallbackStep, TerminationStep
  <2>6. CASE UNCHANGED watchVars
    <3>1. IterationInv' /\ NoTimersInv'
      BY <1>2, <2>6, ConfigFrame
         DEF WatchInv, IterationInv, NoTimersInv, watchVars, watchMasterVars, ioVars
    <3>2. IoTypeOK'
      BY <1>2, <2>6, ConfigFrame DEF WatchInv, WatchTypeOK, IoTypeOK, watchVars, ioVars
    <3> QED
      BY <1>2, <2>6, <3>1, <3>2, ServiceStep DEF watchVars, ioVars
  <2> QED
    BY <1>2, <2>1, <2>2, <2>3, <2>4, <2>5, <2>6 DEF WatchNext
<1> QED
  BY <1>1, <1>2, PTL DEF WatchSpec

\* Every variable of a watch thread has its type; the failure count passes the
\* limit by at most the failure that ends the thread.
THEOREM WatchTypeCorrect == WatchSpec => []WatchTypeOK
<1>1. WatchInv => WatchTypeOK
  BY DEF WatchInv
<1> QED
  BY <1>1, WatchInvariant, PTL

\* Without timers WatchMaster (kubernetes.cc:764) leaves no connection behind that
\* could call a destroyed Watcher.
THEOREM IterationsEndWithTheirConnections == WatchSpec => []EndsWithItsConnection
<1>1. WatchInv => EndsWithItsConnection
  BY DEF WatchInv, NoTimersInv, IterationInv, EndsWithItsConnection
<1> QED
  BY <1>1, WatchInvariant, PTL

\* A watch thread gives up, and reports itself unhealthy, only when its
\* iterations are used up or too many connections in a row got no response
\* (kubernetes.cc:841).
THEOREM ThreadsGiveUpOnlyAfterFailures == WatchSpec => []GivesUpOnlyAfterFailures
<1>1. WatchInv => GivesUpOnlyAfterFailures
  BY DEF WatchInv
<1> QED
  BY <1>1, WatchInvariant, PTL

--------------------------------------------------------------------------------
\* Service metadata (ServiceMetadata): streams of events.

\* The events mention a service; the last of them on a service carries object.
Mentions(events, s) == \E j \in 1..Len(events) : events[j].service = s

LastSays(events, s, object) ==
  \A j \in 1..Len(events) :
    /\ events[j].service = s
    /\ \A k \in 1..Len(events) : k > j => events[k].service # s
    => events[j].object = object

\* An event sent last is the last on its service and changes nothing for the
\* others.
LEMMA AppendedEvent ==
  ASSUME NEW events \in Seq(Events), NEW e \in Events, NEW s, NEW object
  PROVE  /\ Mentions(Append(events, e), e.service)
         /\ LastSays(Append(events, e), e.service, e.object)
         /\ s # e.service =>
              /\ LastSays(events, s, object) => LastSays(Append(events, e), s, object)
              /\ Mentions(events, s) => Mentions(Append(events, e), s)
<1> DEFINE n == Len(events)
           longer == Append(events, e)
<1>1. /\ n \in Nat /\ Len(longer) = n + 1 /\ longer[n + 1] = e
      /\ \A j \in 1..n : longer[j] = events[j]
  BY AppendProperties
<1> HIDE DEF n, longer
<1>2. n + 1 \in 1..(n + 1) /\ 1..n \subseteq 1..(n + 1)
  BY <1>1
<1>3. Mentions(longer, e.service)
  BY <1>1, <1>2 DEF Mentions
<1>4. LastSays(longer, e.service, e.object)
  <2> SUFFICES ASSUME NEW j \in 1..(n + 1),
                      \A k \in 1..(n + 1) : k > j => longer[k].service # e.service
               PROVE  longer[j].object = e.object
    BY <1>1 DEF LastSays
  <2>1. j = n + 1
    <3>1. ~(n + 1 > j)
      BY <1>1, <1>2
    <3> QED
      BY <1>1, <3>1
  <2> QED
    BY <1>1, <2>1
<1>5. ASSUME s # e.service, LastSays(events, s, object)
      PROVE  LastSays(longer, s, object)
  <2> SUFFICES ASSUME NEW j \in 1..(n + 1), longer[j].service = s,
                      \A k \in 1..(n + 1) : k > j => longer[k].service # s
               PROVE  longer[j].object = object
    BY <1>1 DEF LastSays
  <2>1. j \in 1..n /\ longer[j] = events[j]
    <3>1. j # n + 1
      BY <1>1, <1>5
    <3>2. j \in 1..n
      BY <1>1, <3>1
    <3> QED
      BY <1>1, <3>2
  <2>2. \A k \in 1..n : k > j => events[k].service # s
    BY <1>1, <1>2
  <2> QED
    BY <1>5, <2>1, <2>2 DEF LastSays, n
<1>6. ASSUME Mentions(events, s)
      PROVE  Mentions(longer, s)
  <2>1. PICK j \in 1..n : events[j].service = s
    BY <1>6 DEF Mentions, n
  <2>2. j \in 1..(n + 1) /\ longer[j].service = s
    BY <1>1, <1>2, <2>1
  <2> QED
    BY <1>1, <2>2 DEF Mentions
<1> QED
  BY <1>3, <1>4, <1>5, <1>6 DEF longer

\* The first event taken away is the last on its service or there is another.
LEMMA HandledEvent ==
  ASSUME NEW events \in Seq(Events), events # <<>>, NEW s, NEW object,
         LastSays(events, s, object)
  PROVE  /\ LastSays(Tail(events), s, object)
         /\ ~Mentions(Tail(events), s) =>
              IF Head(events).service = s THEN Head(events).object = object
              ELSE ~Mentions(events, s)
<1> DEFINE n == Len(events)
           rest == Tail(events)
<1>1. /\ n \in Nat \ {0} /\ Len(rest) = n - 1 /\ Head(events) = events[1]
      /\ \A j \in 1..(n - 1) : rest[j] = events[j + 1]
  BY EmptySeq, HeadTailProperties
<1> HIDE DEF n, rest
<1>2. /\ 1 \in 1..n
      /\ \A j \in 1..(n - 1) : j + 1 \in 1..n /\ j + 1 > 1
      /\ \A j \in 1..n : j = 1 \/ (j > 1 /\ j - 1 \in 1..(n - 1) /\ (j - 1) + 1 = j)
  BY <1>1
<1>3. LastSays(rest, s, object)
  <2> SUFFICES ASSUME NEW j \in 1..(n - 1), rest[j].service = s,
                      \A k \in 1..(n - 1) : k > j => rest[k].service # s
               PROVE  rest[j].object = object
    BY <1>1 DEF LastSays
  <2>1. ASSUME NEW k \in 1..n, k > j + 1
        PROVE  events[k].service # s
    <3>1. k - 1 \in 1..(n - 1) /\ k - 1 > j /\ (k - 1) + 1 = k
      BY <1>1, <2>1
    <3>2. rest[k - 1] = events[(k - 1) + 1]
      BY <1>1, <3>1
    <3> QED
      BY <3>1, <3>2
  <2>2. j + 1 \in 1..n /\ events[j + 1].service = s
    BY <1>1, <1>2
  <2>3. events[j + 1].object = object
    BY <2>1, <2>2 DEF LastSays, n
  <2> QED
    BY <1>1, <2>3
<1>4. ASSUME ~Mentions(rest, s)
      PROVE  IF Head(events).service = s THEN Head(events).object = object
             ELSE ~Mentions(events, s)
  <2>1. ASSUME NEW k \in 1..n, k > 1
        PROVE  events[k].service # s
    <3>1. k - 1 \in 1..(n - 1) /\ (k - 1) + 1 = k
      BY <1>1, <2>1
    <3>2. rest[k - 1] = events[(k - 1) + 1]
      BY <1>1, <3>1
    <3> QED
      BY <1>1, <1>4, <3>1, <3>2 DEF Mentions
  <2>2. CASE events[1].service = s
    BY <1>1, <1>2, <2>1, <2>2 DEF LastSays, n
  <2>3. CASE events[1].service # s
    BY <1>1, <1>2, <2>1, <2>3 DEF Mentions, n
  <2> QED
    BY <1>1, <2>2, <2>3
<1> QED
  BY <1>3, <1>4 DEF rest

\* The answer to a watch request begins with one event for each object that
\* exists, in some order.
LEMMA ListingFacts ==
  ASSUME ServiceTypeOK, NEW w \in Watches, NEW q \in Listings(w)
  PROVE  /\ q \in Seq(Events)
         /\ \A j \in 1..Len(q) : q[j].object = actual[w][q[j].service]
         /\ \A s \in Services : actual[w][s] # None => Mentions(q, s)
<1> DEFINE present == {x \in Services : actual[w][x] # None}
           existing == {Event(s, actual[w][s]) : s \in present}
           count == Cardinality(existing)
<1>1. count \in Nat
  <2>1. IsFiniteSet(present)
    BY ServiceAssumption, FS_Subset
  <2> DEFINE f == [x \in present |-> Event(x, actual[w][x])]
  <2>2. f \in Surjection(present, existing)
    <3>1. f \in [present -> existing]
      OBVIOUS
    <3>2. \A e \in existing : \E x \in present : f[x] = e
      OBVIOUS
    <3> QED
      BY <3>1, <3>2 DEF Surjection
  <2> HIDE DEF f, present, existing
  <2>3. IsFiniteSet(existing)
    BY <2>1, <2>2, FS_Surjection
  <2> QED
    BY <2>3, FS_CardinalityType
<1>2. /\ q \in [1..count -> existing]
      /\ \A e \in existing : \E j \in DOMAIN q : q[j] = e
  BY DEF Listings
<1>3. ASSUME NEW e \in existing
      PROVE  e \in Events /\ e.object = actual[w][e.service]
  <2>1. PICK x \in present : e = Event(x, actual[w][x])
    OBVIOUS
  <2>2. e.service = x /\ e.object = actual[w][x]
    BY <2>1 DEF Event
  <2>3. actual[w][x] \in Objects \cup {None}
    BY DEF ServiceTypeOK
  <2> QED
    BY <2>1, <2>2, <2>3 DEF Event, Events
<1>4. ASSUME NEW s \in Services, actual[w][s] # None
      PROVE  \E e \in existing : e.service = s
  <2>1. Event(s, actual[w][s]) \in existing /\ Event(s, actual[w][s]).service = s
    BY <1>4 DEF Event
  <2> QED
    BY <2>1
<1> HIDE DEF existing, count
<1>5. DOMAIN q = 1..count /\ \A j \in 1..count : q[j] \in existing
  BY <1>2
<1>6. q \in Seq(Events) /\ Len(q) = count
  <2>1. q \in [1..count -> Events]
    BY <1>2, <1>3, <1>5
  <2> QED
    BY <1>1, <2>1
<1>7. \A j \in 1..Len(q) : q[j].object = actual[w][q[j].service]
  BY <1>3, <1>5, <1>6
<1>8. ASSUME NEW s \in Services, actual[w][s] # None
      PROVE  Mentions(q, s)
  <2>1. PICK e \in existing : e.service = s
    BY <1>4, <1>8
  <2>2. PICK j \in 1..Len(q) : q[j] = e
    BY <1>2, <1>5, <1>6
  <2> QED
    BY <2>1, <2>2 DEF Mentions
<1> QED
  BY <1>6, <1>7, <1>8

--------------------------------------------------------------------------------
\* The inductive invariant of service metadata, by parts.

\* The events still to be handled bring a cache up to date: the last on each
\* service carries what the master has, and a service with no event left is
\* as the master has it, but for what was deleted while a watch was down.
Follows(events, half, objects, losses) ==
  \A s \in Services :
    /\ LastSays(events, s, objects[s])
    /\ ~Mentions(events, s) =>
         /\ objects[s] # None => half[s] = objects[s]
         /\ losses = 0 => half[s] = objects[s]

\* This is so until a timer leaves a connection behind, whose events are mixed
\* with those of the next.
StreamInv ==
  \A w \in Watches : ~mixed[w] =>
    IF connected[w]
    THEN Follows(stream[w], cache[w], actual[w], disconnects[w])
    ELSE /\ stream[w] = <<>>
         /\ disconnects[w] = 0 => cache[w] = Missing

\* A list that was built and not yet stored agrees with the half of the caches
\* that only its own thread writes.
ListInv == \A w \in Watches : wpc[w] = "listed" => AgreesOnHalf(list[w], w)

ServiceInv ==
  /\ StoreInv
  /\ ServiceTypeOK
  /\ ListInv
  /\ StreamInv
  /\ LastWriterIsCurrent

\* What AgreesOnHalf says depends on one of the two caches only.
HalfAgrees(half, stored, w) ==
  \A s \in Services :
    IF w = "services"
    THEN IF half[s] = None THEN stored[s] = None
         ELSE stored[s] # None /\ stored[s].raw = half[s]
    ELSE stored[s] # None =>
           stored[s].pods = IF half[s] = None THEN NoPods ELSE half[s]

\* A change of the master (watched by kubernetes.cc:1248 and 1283) adds an event,
\* after which the stream still leads to what the master has.
LEMMA ChangeIsFollowed ==
  ASSUME NEW events \in Seq(Events), NEW half, NEW losses,
         NEW objects \in [Services -> Objects \cup {None}],
         NEW s \in Services, NEW object \in Objects \cup {None},
         Follows(events, half, objects, losses)
  PROVE  Follows(Append(events, Event(s, object)), half,
                 [objects EXCEPT ![s] = object], losses)
<1> DEFINE e == Event(s, object)
           after == [objects EXCEPT ![s] = object]
<1>1. e \in Events /\ e.service = s /\ e.object = object
  BY DEF Event, Events
<1>2. after[s] = object /\ \A x \in Services : x # s => after[x] = objects[x]
  OBVIOUS
<1> HIDE DEF e, after
<1>3. ASSUME NEW x \in Services
      PROVE  /\ LastSays(Append(events, e), x, after[x])
             /\ ~Mentions(Append(events, e), x) =>
                  /\ after[x] # None => half[x] = after[x]
                  /\ losses = 0 => half[x] = after[x]
  <2>1. CASE x = s
    <3>1. Mentions(Append(events, e), s) /\ LastSays(Append(events, e), s, object)
      BY <1>1, AppendedEvent
    <3> QED
      BY <1>2, <2>1, <3>1
  <2>2. CASE x # s
    <3>1. LastSays(events, x, objects[x])
      BY DEF Follows
    <3>2. /\ LastSays(Append(events, e), x, objects[x])
          /\ Mentions(events, x) => Mentions(Append(events, e), x)
      BY <1>1, <2>2, <3>1, AppendedEvent
    <3> QED
      BY <1>2, <2>2, <3>2 DEF Follows
  <2> QED
    BY <2>1, <2>2
<1> QED
  BY <1>3 DEF Follows, e, after

\* Handling the first event (kubernetes.cc:1041 and 1061) leaves a stream that
\* brings the updated cache up to date.
LEMMA HandlingIsFollowed ==
  ASSUME NEW events \in Seq(Events), events # <<>>, NEW objects, NEW losses,
         NEW half \in [Services -> Objects \cup {None}],
         Follows(events, half, objects, losses)
  PROVE  Follows(Tail(events),
                 [half EXCEPT ![Head(events).service] = Head(events).object],
                 objects, losses)
<1> DEFINE e == Head(events)
           after == [half EXCEPT ![e.service] = e.object]
<1>1. e \in Events
  BY HeadTailProperties
<1>2. e.service \in Services
  BY <1>1 DEF Events
<1>3. /\ after[e.service] = e.object
      /\ \A x \in Services : x # e.service => after[x] = half[x]
  BY <1>2
<1> HIDE DEF e, after
<1>4. ASSUME NEW x \in Services
      PROVE  /\ LastSays(Tail(events), x, objects[x])
             /\ ~Mentions(Tail(events), x) =>
                  /\ objects[x] # None => after[x] = objects[x]
                  /\ losses = 0 => after[x] = objects[x]
  <2>1. LastSays(events, x, objects[x])
    BY DEF Follows
  <2>2. /\ LastSays(Tail(events), x, objects[x])
        /\ ~Mentions(Tail(events), x) =>
             IF e.service = x THEN e.object = objects[x] ELSE ~Mentions(events, x)
    BY <2>1, HandledEvent DEF e
  <2>3. ~Mentions(events, x) =>
          /\ objects[x] # None => half[x] = objects[x]
          /\ losses = 0 => half[x] = objects[x]
    BY DEF Follows
  <2> QED
    BY <1>3, <2>2, <2>3
<1> QED
  BY <1>4 DEF Follows, e, after

\* The answer to a watch request (kubernetes.cc:764) lists what the master has,
\* so it brings the cache up to date whatever was lost before it.
LEMMA ListingIsFollowed ==
  ASSUME ServiceTypeOK, NEW w \in Watches, NEW q \in Listings(w),
         disconnects[w] = 0 => cache[w] = Missing
  PROVE  Follows(q, cache[w], actual[w], disconnects[w])
<1>1. /\ \A j \in 1..Len(q) : q[j].object = actual[w][q[j].service]
      /\ \A s \in Services : actual[w][s] # None => Mentions(q, s)
  BY ListingFacts
<1>2. ASSUME NEW s \in Services
      PROVE  LastSays(q, s, actual[w][s])
  BY <1>1 DEF LastSays
<1>3. ASSUME NEW s \in Services, ~Mentions(q, s)
      PROVE  actual[w][s] = None /\ (disconnects[w] = 0 => cache[w][s] = None)
  BY <1>1, <1>3 DEF Missing
<1> QED
  BY <1>2, <1>3 DEF Follows

--------------------------------------------------------------------------------
\* A list is built from the caches, and a cluster entry is well formed.

\* AgreesOnHalf reads nothing but the cache of its watch.
LEMMA AgreesReads ==
  ASSUME NEW w \in Watches, NEW stored
  PROVE  AgreesOnHalf(stored, w) <=> HalfAgrees(cache[w], stored, w)
BY DEF AgreesOnHalf, HalfAgrees, PodsOf, Watches

\* GetServiceList (kubernetes.cc:449) gives a list that agrees with both caches.
LEMMA ServiceListFacts ==
  ASSUME ServiceTypeOK
  PROVE  /\ ServiceList \in ServiceLists
         /\ \A w \in Watches : HalfAgrees(cache[w], ServiceList, w)
<1> DEFINE Entry(s) == [raw |-> cache["services"][s], pods |-> PodsOf(s)]
           Entries == [raw: Objects, pods: Objects]
<1>1. ASSUME NEW s \in Services
      PROVE  /\ PodsOf(s) \in Objects
             /\ PodsOf(s) = IF cache["endpoints"][s] = None THEN NoPods
                            ELSE cache["endpoints"][s]
             /\ cache["services"][s] \in Objects \cup {None}
  BY ServiceAssumption DEF PodsOf, ServiceTypeOK, Watches
<1>2. ASSUME NEW s \in Services, cache["services"][s] # None
      PROVE  /\ Entry(s) \in Entries
             /\ Entry(s) # None
             /\ Entry(s).raw = cache["services"][s]
             /\ Entry(s).pods = PodsOf(s)
  BY <1>1, <1>2, ServiceAssumption
<1>3. ServiceList = [s \in Services |-> IF cache["services"][s] = None THEN None
                                        ELSE Entry(s)]
  BY DEF ServiceList
<1> HIDE DEF Entry
<1>4. ASSUME NEW s \in Services
      PROVE  ServiceList[s] = IF cache["services"][s] = None THEN None
                              ELSE Entry(s)
  BY <1>3
<1>5. ServiceList \in ServiceLists
  BY <1>2, <1>3 DEF ServiceLists
<1>6. HalfAgrees(cache["services"], ServiceList, "services")
  BY <1>2, <1>4 DEF HalfAgrees
<1>7. HalfAgrees(cache["endpoints"], ServiceList, "endpoints")
  BY <1>1, <1>2, <1>4 DEF HalfAgrees
<1> QED
  BY <1>5, <1>6, <1>7 DEF Watches

\* GetClusterMetadata (kubernetes.cc:502-511) makes an entry the store accepts.
LEMMA ClusterEntryType ==
  ASSUME ServiceTypeOK, NEW w \in Watches
  PROVE  /\ ClusterEntry(w) \in Metadata
         /\ ClusterEntry(w).ignore = FALSE
         /\ ClusterEntry(w).metadata = list[w]
<1>1. list[w] \in Payloads
  BY ServiceAssumption DEF ServiceTypeOK
<1> QED
  BY <1>1, StoreAssumption DEF ClusterEntry, Metadata

--------------------------------------------------------------------------------
\* Each action keeps the invariant.

\* What the master and the connections do concerns no callback: neither the
\* caches nor the lists nor the store change.
LEMMA CallbacksUndisturbed ==
  ASSUME ServiceInv, UNCHANGED <<storeVars, cache, wpc, list, last_writer>>
  PROVE  StoreInv' /\ StoreTypeOK' /\ ListInv' /\ LastWriterIsCurrent'
<1>1. StoreInv' /\ StoreTypeOK'
  BY StoreStep DEF ServiceInv, StoreInv
<1>2. ListInv'
  BY DEF ServiceInv, ListInv, AgreesOnHalf, PodsOf
<1>3. LastWriterIsCurrent'
  BY DEF ServiceInv, LastWriterIsCurrent, AgreesOnHalf, PodsOf, storeVars
<1> QED
  BY <1>1, <1>2, <1>3

\* An object of the master changes; a connected watch is told.
LEMMA MasterChangesStep ==
  ASSUME ServiceInv, NEW w \in Watches, NEW s \in Services,
         NEW object \in Objects \cup {None}, MasterChanges(w, s, object)
  PROVE  ServiceInv'
<1>0. ServiceTypeOK /\ StreamInv
  BY DEF ServiceInv
<1>1. StoreInv' /\ StoreTypeOK' /\ ListInv' /\ LastWriterIsCurrent'
  BY CallbacksUndisturbed DEF MasterChanges
<1>2. Event(s, object) \in Events
  BY DEF Event, Events
<1>3. /\ UNCHANGED <<connected, disconnects, mixed, cache, wpc, list, last_writer>>
      /\ actual' = [actual EXCEPT ![w] = [actual[w] EXCEPT ![s] = object]]
      /\ stream' = IF connected[w]
                   THEN [stream EXCEPT ![w] = Append(stream[w], Event(s, object))]
                   ELSE stream
      /\ leftover' = IF mixed[w]
                  THEN [leftover EXCEPT ![w] = Append(leftover[w], Event(s, object))]
                  ELSE leftover
      /\ changes' \in 0..MaxChanges
  BY <1>0, ServiceAssumption DEF MasterChanges, ServiceTypeOK
<1>4. stream' \in [Watches -> Seq(Events)] /\ leftover' \in [Watches -> Seq(Events)]
  <2>1. /\ Append(stream[w], Event(s, object)) \in Seq(Events)
        /\ Append(leftover[w], Event(s, object)) \in Seq(Events)
    BY <1>0, <1>2, AppendProperties DEF ServiceTypeOK
  <2>2. stream' \in [Watches -> Seq(Events)]
    BY <1>0, <1>3, <2>1 DEF ServiceTypeOK
  <2>3. leftover' \in [Watches -> Seq(Events)]
    BY <1>0, <1>3, <2>1 DEF ServiceTypeOK
  <2> QED
    BY <2>2, <2>3
<1>5. actual' \in [Watches -> [Services -> Objects \cup {None}]]
  BY <1>0, <1>3 DEF ServiceTypeOK
<1>6. ServiceTypeOK'
  BY <1>0, <1>1, <1>3, <1>4, <1>5 DEF ServiceTypeOK
<1>7. StreamInv'
  <2> SUFFICES ASSUME NEW v \in Watches, ~mixed[v]
               PROVE  IF connected[v]
                      THEN Follows(stream'[v], cache[v], actual'[v], disconnects[v])
                      ELSE /\ stream'[v] = <<>>
                           /\ disconnects[v] = 0 => cache[v] = Missing
    BY <1>3 DEF StreamInv
  <2>1. CASE v = w /\ connected[w]
    <3>1. /\ stream'[v] = Append(stream[w], Event(s, object))
          /\ actual'[v] = [actual[w] EXCEPT ![s] = object]
      BY <1>0, <1>3, <2>1 DEF ServiceTypeOK
    <3>2. stream[w] \in Seq(Events) /\ actual[w] \in [Services -> Objects \cup {None}]
      BY <1>0 DEF ServiceTypeOK
    <3>3. Follows(stream[w], cache[w], actual[w], disconnects[w])
      BY <1>0, <2>1 DEF StreamInv
    <3>4. Follows(Append(stream[w], Event(s, object)), cache[w],
                  [actual[w] EXCEPT ![s] = object], disconnects[w])
      BY <3>2, <3>3, ChangeIsFollowed
    <3> QED
      BY <2>1, <3>1, <3>4
  <2>2. CASE v # w \/ ~connected[w]
    <3>1. stream'[v] = stream[v] /\ (connected[v] => actual'[v] = actual[v])
      BY <1>0, <1>3, <2>2 DEF ServiceTypeOK
    <3> QED
      BY <1>0, <3>1 DEF StreamInv
  <2> QED
    BY <2>1, <2>2
<1> QED
  BY <1>1, <1>6, <1>7 DEF ServiceInv

\* A watch connects and is sent what exists.
LEMMA ConnectStep ==
  ASSUME ServiceInv, NEW w \in Watches, Connect(w)
  PROVE  ServiceInv'
<1>0. ServiceTypeOK /\ StreamInv
  BY DEF ServiceInv
<1>1. StoreInv' /\ StoreTypeOK' /\ ListInv' /\ LastWriterIsCurrent'
  BY CallbacksUndisturbed DEF Connect
<1>2. PICK q \in Listings(w) : stream' = [stream EXCEPT ![w] = q]
  BY DEF Connect
<1>3. /\ ~connected[w] /\ connected' = [connected EXCEPT ![w] = TRUE]
      /\ UNCHANGED <<actual, changes, disconnects, leftover, mixed, cache, wpc, list,
                     last_writer>>
  BY DEF Connect
<1>4. q \in Seq(Events)
  BY <1>0, ListingFacts
<1>5. ~mixed[w] => Follows(q, cache[w], actual[w], disconnects[w])
  BY <1>0, <1>3, ListingIsFollowed DEF StreamInv
<1>6. ServiceTypeOK'
  BY <1>0, <1>1, <1>2, <1>3, <1>4 DEF ServiceTypeOK
<1>7. StreamInv'
  BY <1>0, <1>2, <1>3, <1>5 DEF StreamInv, ServiceTypeOK
<1> QED
  BY <1>1, <1>6, <1>7 DEF ServiceInv

\* A connection ends and what was in flight is lost.
LEMMA DisconnectStep ==
  ASSUME ServiceInv, NEW w \in Watches, Disconnect(w)
  PROVE  ServiceInv'
<1>0. ServiceTypeOK /\ StreamInv
  BY DEF ServiceInv
<1>1. StoreInv' /\ StoreTypeOK' /\ ListInv' /\ LastWriterIsCurrent'
  BY CallbacksUndisturbed DEF Disconnect
<1>2. /\ connected' = [connected EXCEPT ![w] = FALSE]
      /\ disconnects' = [disconnects EXCEPT ![w] = disconnects[w] + 1]
      /\ stream' = [stream EXCEPT ![w] = <<>>]
      /\ UNCHANGED <<actual, changes, leftover, mixed, cache, wpc, list, last_writer>>
  BY DEF Disconnect
<1>3. disconnects[w] + 1 \in 0..MaxDisconnects /\ disconnects[w] + 1 # 0
  <2>1. disconnects[w] \in 0..MaxDisconnects /\ disconnects[w] < MaxDisconnects
    BY <1>0 DEF Disconnect, ServiceTypeOK
  <2> QED
    BY <2>1, ServiceAssumption
<1>4. <<>> \in Seq(Events)
  OBVIOUS
<1>5. ServiceTypeOK'
  BY <1>0, <1>1, <1>2, <1>3, <1>4 DEF ServiceTypeOK
<1>6. ASSUME NEW v \in Watches
      PROVE  IF v = w THEN ~connected'[v] /\ stream'[v] = <<>> /\ disconnects'[v] # 0
             ELSE /\ connected'[v] = connected[v] /\ stream'[v] = stream[v]
                  /\ disconnects'[v] = disconnects[v]
  BY <1>0, <1>2, <1>3 DEF ServiceTypeOK
<1>7. StreamInv'
  BY <1>0, <1>2, <1>6 DEF StreamInv
<1> QED
  BY <1>1, <1>5, <1>7 DEF ServiceInv

\* A timer ends an iteration and leaves its connection behind.
LEMMA TimerEndsStep ==
  ASSUME ServiceInv, NEW w \in Watches, TimerEnds(w)
  PROVE  ServiceInv'
<1>0. ServiceTypeOK /\ StreamInv
  BY DEF ServiceInv
<1>1. StoreInv' /\ StoreTypeOK' /\ ListInv' /\ LastWriterIsCurrent'
  BY CallbacksUndisturbed DEF TimerEnds
<1>2. /\ connected' = [connected EXCEPT ![w] = FALSE]
      /\ disconnects' = [disconnects EXCEPT ![w] = disconnects[w] + 1]
      /\ leftover' = [leftover EXCEPT ![w] = leftover[w] \o stream[w]]
      /\ stream' = [stream EXCEPT ![w] = <<>>]
      /\ mixed' = [mixed EXCEPT ![w] = TRUE]
      /\ UNCHANGED <<actual, changes, cache, wpc, list, last_writer>>
  BY DEF TimerEnds
<1>3. disconnects[w] + 1 \in 0..MaxDisconnects
  <2>1. disconnects[w] \in 0..MaxDisconnects /\ disconnects[w] < MaxDisconnects
    BY <1>0 DEF TimerEnds, ServiceTypeOK
  <2> QED
    BY <2>1, ServiceAssumption
<1>4. <<>> \in Seq(Events) /\ leftover[w] \o stream[w] \in Seq(Events)
  BY <1>0, ConcatProperties DEF ServiceTypeOK
<1>5. leftover' \in [Watches -> Seq(Events)]
  BY <1>0, <1>2, <1>4 DEF ServiceTypeOK
<1>6. ServiceTypeOK'
  BY <1>0, <1>1, <1>2, <1>3, <1>4, <1>5 DEF ServiceTypeOK
<1>7. ASSUME NEW v \in Watches
      PROVE  IF v = w THEN mixed'[v]
             ELSE /\ connected'[v] = connected[v] /\ stream'[v] = stream[v]
                  /\ disconnects'[v] = disconnects[v] /\ mixed'[v] = mixed[v]
  BY <1>0, <1>2 DEF ServiceTypeOK
<1>8. StreamInv'
  BY <1>0, <1>2, <1>7 DEF StreamInv
<1> QED
  BY <1>1, <1>6, <1>8 DEF ServiceInv

\* Mixed streams: an old event comes before the new ones, or an event is lost.
LEMMA MixedStep ==
  ASSUME ServiceInv, NEW w \in Watches, StaleEvent(w) \/ EventGarbled(w)
  PROVE  ServiceInv'
<1>0. ServiceTypeOK /\ StreamInv
  BY DEF ServiceInv
<1>1. StoreInv' /\ StoreTypeOK' /\ ListInv' /\ LastWriterIsCurrent'
  BY CallbacksUndisturbed DEF StaleEvent, EventGarbled
<1>2. /\ mixed[w]
      /\ UNCHANGED <<actual, changes, connected, disconnects, mixed, cache, wpc, list,
                     last_writer>>
  BY DEF StaleEvent, EventGarbled
<1>3. /\ stream' \in [Watches -> Seq(Events)] /\ leftover' \in [Watches -> Seq(Events)]
      /\ \A v \in Watches \ {w} : stream'[v] = stream[v]
  <2>1. stream[w] \in Seq(Events) /\ leftover[w] \in Seq(Events)
    BY <1>0 DEF ServiceTypeOK
  <2>2. CASE StaleEvent(w)
    <3>1. /\ leftover[w] # <<>>
          /\ stream' = [stream EXCEPT ![w] = <<Head(leftover[w])>> \o stream[w]]
          /\ leftover' = [leftover EXCEPT ![w] = Tail(leftover[w])]
      BY <2>2 DEF StaleEvent
    <3>2. Head(leftover[w]) \in Events /\ Tail(leftover[w]) \in Seq(Events)
      BY <2>1, <3>1, HeadTailProperties
    <3>3. <<Head(leftover[w])>> \o stream[w] \in Seq(Events)
      BY <2>1, <3>2, ConcatProperties
    <3> QED
      BY <1>0, <3>1, <3>2, <3>3 DEF ServiceTypeOK
  <2>3. CASE EventGarbled(w)
    <3>1. /\ stream[w] # <<>> /\ leftover' = leftover
          /\ stream' = [stream EXCEPT ![w] = Tail(stream[w])]
      BY <2>3 DEF EventGarbled
    <3>2. Tail(stream[w]) \in Seq(Events)
      BY <2>1, <3>1, HeadTailProperties
    <3> QED
      BY <1>0, <3>1, <3>2 DEF ServiceTypeOK
  <2> QED
    BY <2>2, <2>3
<1>4. ServiceTypeOK'
  BY <1>0, <1>1, <1>2, <1>3 DEF ServiceTypeOK
<1>5. StreamInv'
  BY <1>0, <1>2, <1>3 DEF StreamInv
<1> QED
  BY <1>1, <1>4, <1>5 DEF ServiceInv

\* A callback applies the next event to its cache; the entry its thread stored
\* is out of date until it stores the next one.
LEMMA UpdateCacheStep ==
  ASSUME ServiceInv, NEW w \in Watches, UpdateCache(w)
  PROVE  ServiceInv'
<1> DEFINE e == Head(stream[w])
<1>0. ServiceTypeOK /\ StreamInv /\ ListInv /\ LastWriterIsCurrent
  BY DEF ServiceInv
<1>1. /\ stream[w] # <<>> /\ wpc[w] = "idle"
      /\ cache' = [cache EXCEPT ![w] = [cache[w] EXCEPT ![e.service] = e.object]]
      /\ stream' = [stream EXCEPT ![w] = Tail(stream[w])]
      /\ wpc' = [wpc EXCEPT ![w] = "updated"]
      /\ UNCHANGED <<storeVars, actual, changes, connected, disconnects, leftover,
                     mixed, list, last_writer>>
  BY <1>0 DEF UpdateCache, ServiceTypeOK
<1>2. stream[w] \in Seq(Events)
  BY <1>0 DEF ServiceTypeOK
<1>3. e \in Events /\ Tail(stream[w]) \in Seq(Events)
  BY <1>1, <1>2, HeadTailProperties
<1>4. StoreInv' /\ StoreTypeOK'
  BY <1>1, StoreStep DEF ServiceInv, StoreInv
<1>5. ServiceTypeOK'
  <2>1. cache[w] \in [Services -> Objects \cup {None}] /\ e.object \in Objects \cup {None}
    BY <1>0, <1>3 DEF ServiceTypeOK, Events
  <2> HIDE DEF e
  <2>2. cache' \in [Watches -> [Services -> Objects \cup {None}]]
    BY <1>0, <1>1, <2>1 DEF ServiceTypeOK
  <2>3. stream' \in [Watches -> Seq(Events)]
    BY <1>0, <1>1, <1>3 DEF ServiceTypeOK
  <2>4. wpc' \in [Watches -> {"idle", "updated", "listed"}]
    BY <1>0, <1>1 DEF ServiceTypeOK
  <2> QED
    BY <1>0, <1>1, <1>4, <2>2, <2>3, <2>4 DEF ServiceTypeOK
<1>6. ASSUME NEW v \in Watches
      PROVE  IF v = w THEN wpc'[v] = "updated"
             ELSE wpc'[v] = wpc[v] /\ cache'[v] = cache[v] /\ stream'[v] = stream[v]
  BY <1>0, <1>1 DEF ServiceTypeOK
<1>7. ListInv'
  <2> SUFFICES ASSUME NEW v \in Watches, wpc'[v] = "listed"
               PROVE  AgreesOnHalf(list[v], v)'
    BY <1>1 DEF ListInv
  <2>1. cache'[v] = cache[v] /\ list'[v] = list[v] /\ wpc[v] = "listed"
    BY <1>1, <1>6
  <2> QED
    BY <1>0, <2>1 DEF ListInv, AgreesOnHalf, PodsOf, Watches
<1>8. LastWriterIsCurrent'
  <2> SUFFICES ASSUME last_writer # None, wpc'[last_writer] = "idle"
               PROVE  /\ metadata_map[Cluster] # None
                      /\ AgreesOnHalf(metadata_map[Cluster].metadata, last_writer)'
    BY <1>1 DEF LastWriterIsCurrent, storeVars
  <2>1. last_writer \in Watches
    BY <1>0 DEF ServiceTypeOK
  <2>2. wpc[last_writer] = "idle" /\ cache'[last_writer] = cache[last_writer]
    BY <1>6, <2>1
  <2>3. /\ metadata_map[Cluster] # None
        /\ AgreesOnHalf(metadata_map[Cluster].metadata, last_writer)
    BY <1>0, <2>2 DEF LastWriterIsCurrent
  <2> QED
    BY <1>1, <2>1, <2>2, <2>3 DEF AgreesOnHalf, PodsOf, Watches, storeVars
<1>9. StreamInv'
  <2> SUFFICES ASSUME NEW v \in Watches, ~mixed[v]
               PROVE  IF connected[v]
                      THEN Follows(stream'[v], cache'[v], actual[v], disconnects[v])
                      ELSE /\ stream'[v] = <<>>
                           /\ disconnects[v] = 0 => cache'[v] = Missing
    BY <1>1 DEF StreamInv
  <2>1. CASE v = w
    <3>1. /\ stream'[v] = Tail(stream[w])
          /\ cache'[v] = [cache[w] EXCEPT ![e.service] = e.object]
      BY <1>0, <1>1, <2>1 DEF ServiceTypeOK
    <3>2. connected[w] /\ Follows(stream[w], cache[w], actual[w], disconnects[w])
      BY <1>0, <1>1, <2>1 DEF StreamInv
    <3>3. cache[w] \in [Services -> Objects \cup {None}]
      BY <1>0 DEF ServiceTypeOK
    <3>4. Follows(Tail(stream[w]), [cache[w] EXCEPT ![e.service] = e.object],
                  actual[w], disconnects[w])
      BY <1>1, <1>2, <3>2, <3>3, HandlingIsFollowed
    <3> QED
      BY <2>1, <3>1, <3>2, <3>4
  <2>2. CASE v # w
    BY <1>0, <1>6, <2>2 DEF StreamInv
  <2> QED
    BY <2>1, <2>2
<1> QED
  BY <1>4, <1>5, <1>7, <1>8, <1>9 DEF ServiceInv

\* A callback builds its list under service_mutex_.
LEMMA GetClusterMetadataStep ==
  ASSUME ServiceInv, NEW w \in Watches, GetClusterMetadata(w)
  PROVE  ServiceInv'
<1>0. ServiceTypeOK /\ StreamInv /\ ListInv /\ LastWriterIsCurrent
  BY DEF ServiceInv
<1>1. /\ wpc[w] = "updated"
      /\ list' = [list EXCEPT ![w] = ServiceList]
      /\ wpc' = [wpc EXCEPT ![w] = "listed"]
      /\ UNCHANGED <<storeVars, actual, changes, connected, disconnects, stream,
                     leftover, mixed, cache, last_writer>>
  BY DEF GetClusterMetadata
<1>2. ServiceList \in ServiceLists /\ AgreesOnHalf(ServiceList, w)
  BY <1>0, ServiceListFacts, AgreesReads
<1>3. StoreInv' /\ StoreTypeOK'
  BY <1>1, StoreStep DEF ServiceInv, StoreInv
<1>4. ServiceTypeOK'
  <2>1. list' \in [Watches -> ServiceLists]
    BY <1>0, <1>1, <1>2 DEF ServiceTypeOK
  <2>2. wpc' \in [Watches -> {"idle", "updated", "listed"}]
    BY <1>0, <1>1 DEF ServiceTypeOK
  <2> QED
    BY <1>0, <1>1, <1>3, <2>1, <2>2 DEF ServiceTypeOK
<1>5. ASSUME NEW v \in Watches
      PROVE  IF v = w THEN list'[v] = ServiceList /\ wpc'[v] = "listed"
             ELSE list'[v] = list[v] /\ wpc'[v] = wpc[v]
  BY <1>0, <1>1 DEF ServiceTypeOK
<1>6. ListInv'
  <2> SUFFICES ASSUME NEW v \in Watches, wpc'[v] = "listed"
               PROVE  AgreesOnHalf(list[v], v)'
    BY DEF ListInv
  <2>1. AgreesOnHalf(list'[v], v)
    BY <1>0, <1>2, <1>5 DEF ListInv
  <2> QED
    BY <1>1, <2>1 DEF AgreesOnHalf, PodsOf
<1>7. LastWriterIsCurrent'
  <2> SUFFICES ASSUME last_writer # None, wpc'[last_writer] = "idle"
               PROVE  /\ metadata_map[Cluster] # None
                      /\ AgreesOnHalf(metadata_map[Cluster].metadata, last_writer)'
    BY <1>1 DEF LastWriterIsCurrent, storeVars
  <2>1. last_writer \in Watches
    BY <1>0 DEF ServiceTypeOK
  <2>2. wpc[last_writer] = "idle"
    BY <1>5, <2>1
  <2>3. /\ metadata_map[Cluster] # None
        /\ AgreesOnHalf(metadata_map[Cluster].metadata, last_writer)
    BY <1>0, <2>2 DEF LastWriterIsCurrent
  <2> QED
    BY <1>1, <2>3 DEF AgreesOnHalf, PodsOf, storeVars
<1>8. StreamInv'
  BY <1>0, <1>1 DEF StreamInv
<1> QED
  BY <1>3, <1>4, <1>6, <1>7, <1>8 DEF ServiceInv

\* A callback stores its list: built before the other thread's last event or
\* after it, it agrees with the half its own thread feeds.
LEMMA MetadataCallbackStep ==
  ASSUME ServiceInv, NEW w \in Watches, MetadataCallback(w)
  PROVE  ServiceInv'
<1>0. ServiceTypeOK /\ StreamInv /\ ListInv /\ StoreInv
  BY DEF ServiceInv
<1>1. /\ wpc[w] = "listed"
      /\ UpdateMetadata(Cluster, ClusterEntry(w))
      /\ wpc' = [wpc EXCEPT ![w] = "idle"]
      /\ list' = [list EXCEPT ![w] = Missing]
      /\ last_writer' = w
      /\ UNCHANGED <<actual, changes, connected, disconnects, stream, leftover, mixed,
                     cache>>
  BY DEF MetadataCallback
<1>2. /\ ClusterEntry(w) \in Metadata /\ ClusterEntry(w).ignore = FALSE
      /\ ClusterEntry(w).metadata = list[w]
  BY <1>0, ClusterEntryType
<1>3. StoreInv' /\ StoreTypeOK'
  BY <1>0, <1>1, <1>2, UpdateMetadataStep, ServiceAssumption DEF StoreInv
<1>4. Missing \in ServiceLists
  BY DEF Missing, ServiceLists
<1>5. ServiceTypeOK'
  <2>1. list' \in [Watches -> ServiceLists]
    BY <1>0, <1>1, <1>4 DEF ServiceTypeOK
  <2>2. wpc' \in [Watches -> {"idle", "updated", "listed"}]
    BY <1>0, <1>1 DEF ServiceTypeOK
  <2> QED
    BY <1>0, <1>1, <1>3, <2>1, <2>2 DEF ServiceTypeOK
<1>6. ASSUME NEW v \in Watches
      PROVE  IF v = w THEN wpc'[v] = "idle"
             ELSE list'[v] = list[v] /\ wpc'[v] = wpc[v]
  BY <1>0, <1>1 DEF ServiceTypeOK
<1>7. ListInv'
  <2> SUFFICES ASSUME NEW v \in Watches, wpc'[v] = "listed"
               PROVE  AgreesOnHalf(list[v], v)'
    BY DEF ListInv
  <2>1. AgreesOnHalf(list'[v], v)
    BY <1>0, <1>6 DEF ListInv
  <2> QED
    BY <1>1, <2>1 DEF AgreesOnHalf, PodsOf
<1>8. LastWriterIsCurrent'
  <2>1. metadata_map'[Cluster] = ClusterEntry(w)
    BY <1>0, <1>1, <1>2, ServiceAssumption
       DEF UpdateMetadata, ReplaceEntry, ServiceTypeOK, StoreTypeOK
  <2>2. ClusterEntry(w) # None
    BY <1>2, NoneAssumption DEF Metadata
  <2>3. AgreesOnHalf(list[w], w)
    BY <1>0, <1>1 DEF ListInv
  <2>4. AgreesOnHalf(metadata_map'[Cluster].metadata, w)
    BY <1>2, <2>1, <2>3
  <2>5. AgreesOnHalf(metadata_map[Cluster].metadata, last_writer)'
    BY <1>1, <2>4 DEF AgreesOnHalf, PodsOf
  <2> QED
    BY <2>1, <2>2, <2>5 DEF LastWriterIsCurrent
<1>9. StreamInv'
  BY <1>0, <1>1 DEF StreamInv
<1> QED
  BY <1>3, <1>5, <1>7, <1>8, <1>9 DEF ServiceInv

--------------------------------------------------------------------------------
\* The theorems on service metadata.

\* The invariant holds before the first connection and is kept by the master,
\* by the connections and by both callbacks.
THEOREM ServiceInvariant == ServiceSpec => []ServiceInv
<1>1. ASSUME ServiceInit
      PROVE  ServiceInv
  <2>1. StoreInv
    BY <1>1 DEF ServiceInit, StoreInit, StoreInv, StoreTypeOK,
                CollectionTimesCoverEntries
  <2>2. Missing \in ServiceLists /\ Missing \in [Services -> Objects \cup {None}]
    BY DEF Missing, ServiceLists
  <2>3. ServiceTypeOK
    BY <1>1, <2>1, <2>2, ServiceAssumption
       DEF ServiceInit, ServiceTypeOK, StoreInv, Watches
  <2>4. ListInv /\ StreamInv /\ LastWriterIsCurrent
    BY <1>1 DEF ServiceInit, ListInv, StreamInv, LastWriterIsCurrent
  <2> QED
    BY <2>1, <2>3, <2>4 DEF ServiceInv
<1>2. ASSUME ServiceInv, [ServiceNext]_vars
      PROVE  ServiceInv'
  <2>1. ASSUME NEW w \in Watches, NEW s \in Services,
               NEW object \in Objects \cup {None}, MasterChanges(w, s, object)
        PROVE  ServiceInv'
    BY <1>2, <2>1, MasterChangesStep
  <2>2. ASSUME NEW w \in Watches, Connect(w) \/ Disconnect(w) \/ TimerEnds(w)
        PROVE  ServiceInv'
    BY <1>2, <2>2, ConnectStep, DisconnectStep, TimerEndsStep
  <2>3. ASSUME NEW w \in Watches, StaleEvent(w) \/ EventGarbled(w)
        PROVE  ServiceInv'
    BY <1>2, <2>3, MixedStep
  <2>4. ASSUME NEW w \in Watches, Callback(w)
        PROVE  ServiceInv'
    BY <1>2, <2>4, UpdateCacheStep, GetClusterMetadataStep, MetadataCallbackStep
       DEF Callback
  <2>5. CASE UNCHANGED vars
    <3>1. UNCHANGED <<storeVars, cache, wpc, list, last_writer>>
      BY <2>5 DEF vars, serviceVars
    <3>2. StoreInv' /\ StoreTypeOK' /\ ListInv' /\ LastWriterIsCurrent'
      BY <1>2, <3>1, CallbacksUndisturbed
    <3>3. ServiceTypeOK' /\ StreamInv'
      BY <1>2, <2>5, <3>2
         DEF ServiceInv, ServiceTypeOK, StreamInv, vars, serviceVars
    <3> QED
      BY <3>2, <3>3 DEF ServiceInv
  <2> QED
    BY <1>2, <2>1, <2>2, <2>3, <2>4, <2>5 DEF ServiceNext, Master
<1> QED
  BY <1>1, <1>2, PTL DEF ServiceSpec

\* The caches, the lists and the stored entry always have their types
\* (kubernetes.h:204-214).
THEOREM ServiceTypeCorrect == ServiceSpec => []ServiceTypeOK
<1>1. ServiceInv => ServiceTypeOK
  BY DEF ServiceInv
<1> QED
  BY <1>1, ServiceInvariant, PTL

\* The two watch threads and MetadataCallback (kubernetes.cc:1387) use the store
\* as its specification allows.
THEOREM ServiceImplementsStore == ServiceSpec => StoreSpec
<1>1. ServiceInit => StoreInit
  BY DEF ServiceInit
<1>2. ASSUME ServiceTypeOK, [ServiceNext]_vars
      PROVE  [StoreNext]_storeVars
  <2>1. ASSUME NEW w \in Watches, MetadataCallback(w)
        PROVE  StoreNext
    BY <1>2, <2>1, ClusterEntryType, ServiceAssumption DEF MetadataCallback, StoreNext
  <2>2. ASSUME NEW w \in Watches, UpdateCache(w) \/ GetClusterMetadata(w)
        PROVE  UNCHANGED storeVars
    BY <2>2 DEF UpdateCache, GetClusterMetadata
  <2>3. CASE Master
    BY <2>3 DEF Master, MasterChanges, Connect, Disconnect, TimerEnds, StaleEvent,
                EventGarbled
  <2>4. CASE UNCHANGED vars
    BY <2>4 DEF vars
  <2> QED
    BY <1>2, <2>1, <2>2, <2>3, <2>4 DEF ServiceNext, Callback
<1> QED
  BY <1>1, <1>2, ServiceTypeCorrect, PTL DEF ServiceSpec, StoreSpec

\* However the callbacks of the two threads interleave between updating a cache,
\* building the list and storing it (kubernetes.cc:1236-1305), the thread that
\* stored last has its own kind of object up to date in the cluster entry.
THEOREM LastWritersAreCurrent == ServiceSpec => []LastWriterIsCurrent
<1>1. ServiceInv => LastWriterIsCurrent
  BY DEF ServiceInv
<1> QED
  BY <1>1, ServiceInvariant, PTL

\* A watch that is connected and has handled its events has every object of the
\* master in its cache, however often the master ended its connection; and no
\* other if it never did (kubernetes.cc:1041-1113).  A watch of which a timer
\* left a connection behind (kubernetes.cc:797-820) is excluded.
THEOREM CachesAreUpToDate == ServiceSpec => []CachesFollowMaster
<1>1. ASSUME ServiceInv
      PROVE  CachesFollowMaster
  <2> SUFFICES ASSUME NEW w \in Watches, connected[w], ~mixed[w], stream[w] = <<>>
               PROVE  /\ \A s \in Services : actual[w][s] # None =>
                                               cache[w][s] = actual[w][s]
                      /\ disconnects[w] = 0 => cache[w] = actual[w]
    BY DEF CachesFollowMaster
  <2>1. Follows(stream[w], cache[w], actual[w], disconnects[w])
    BY <1>1 DEF ServiceInv, StreamInv
  <2>2. \A s \in Services : ~Mentions(stream[w], s)
    BY EmptySeq DEF Mentions
  <2>3. /\ cache[w] \in [Services -> Objects \cup {None}]
        /\ actual[w] \in [Services -> Objects \cup {None}]
    BY <1>1 DEF ServiceInv, ServiceTypeOK
  <2>4. \A s \in Services : /\ actual[w][s] # None => cache[w][s] = actual[w][s]
                            /\ disconnects[w] = 0 => cache[w][s] = actual[w][s]
    BY <2>1, <2>2 DEF Follows
  <2> QED
    BY <2>3, <2>4
<1> QED
  BY <1>1, ServiceInvariant, PTL
================================================================================
