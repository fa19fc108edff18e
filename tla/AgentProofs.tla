------------------------------ MODULE AgentProofs ------------------------------
(***************************************************************************)
(* The process as a whole and what its threads share.  However many        *)
(* updaters and signals there are, a handler of SIGTERM does not meet      *)
(* destroyed components unless another is past its unlock, and no updater  *)
(* is started after it was told to stop (Lifecycle).  For any threads,     *)
(* names, values, lifetimes and slack, values of the environment are copied*)
(* as they were returned, and reports sent within the slack carry a valid  *)
(* token (Authorization).                                                  *)
(***************************************************************************)
EXTENDS Lifecycle, Authorization, TLAPS

--------------------------------------------------------------------------------
\* Start and shutdown (Lifecycle).


\* The mutex is unlocked by a handler that is past its work.
UnlockedByHandler == ~locked => \E g \in Handlers : hpc[g] = "sleep"

\* main destroys components only after it got the mutex.
DestroyedAfterUnlock ==
  /\ main = "destroy" => ~locked
  /\ api = "gone" => main = "destroy"
  /\ \A u \in Updaters : updater[u] = "gone" => main = "destroy"

\* The server exists only when every updater has been started, and a handler
\* gets past it only when it exists.
ServerComesLast ==
  /\ main \in {"parse", "setup"} => at = 1 /\ api = "null"
  /\ main = "start" /\ api # "null" => at > NumUpdaters
  /\ notified # {} => api # "null"
  /\ \A h \in Handlers : hpc[h] \in {"notify", "sleep"} => api # "null"

\* What main has passed in starting the updaters has a thread.
StartedHaveThreads ==
  \A u \in Updaters :
    \/ main = "start" /\ u < at
    \/ main \in {"wait", "destroy"}
    => Kind(u) = "off" \/ thread[u] # "none"

\* The inductive invariant.
LifecycleInv ==
  /\ LifecycleTypeOK
  /\ UnlockedByHandler
  /\ DestroyedAfterUnlock
  /\ ServerComesLast
  /\ StartedHaveThreads
  /\ HandlerUsesLiveComponents

--------------------------------------------------------------------------------
\* The sizes of the instance.
LEMMA Bounds == NumUpdaters \in Nat /\ MaxSignals \in Nat
BY LifecycleAssumption

\* The updaters, and where main is among them, are numbers.
LEMMA Numbers ==
  ASSUME LifecycleTypeOK
  PROVE  at \in Int /\ \A u \in Updaters : u \in Int /\ u <= NumUpdaters
<1>1. at \in 0..(NumUpdaters + 1)
  BY DEF LifecycleTypeOK
<1> QED
  BY <1>1, Bounds DEF Updaters

\* So is the updater that a handler is at.
LEMMA HandlerIsAt ==
  ASSUME LifecycleTypeOK, NEW h \in Handlers, hat[h] <= NumUpdaters
  PROVE  hat[h] \in Updaters /\ hat[h] + 1 \in 1..(NumUpdaters + 1)
<1>1. hat[h] \in 1..(NumUpdaters + 1)
  BY DEF LifecycleTypeOK
<1> QED
  BY <1>1, Bounds DEF Updaters

\* What an updater does depends on the configuration alone.
LEMMA KindIsStable ==
  UNCHANGED settings => \A u \in Updaters : Kind(u)' = Kind(u)
BY DEF Kind

\* A step that leaves alone what a part of the invariant speaks of keeps it.
LEMMA Frames ==
  /\ UnlockedByHandler /\ UNCHANGED <<locked, hpc>> => UnlockedByHandler'
  /\ DestroyedAfterUnlock /\ UNCHANGED <<main, locked, api, updater>>
     => DestroyedAfterUnlock'
  /\ ServerComesLast /\ UNCHANGED <<main, at, api, notified, hpc>> => ServerComesLast'
  /\ StartedHaveThreads /\ UNCHANGED <<settings, main, at, thread>>
     => StartedHaveThreads'
  /\ HandlerUsesLiveComponents /\ UNCHANGED <<hpc, dangling>>
     => HandlerUsesLiveComponents'
<1>1. UnlockedByHandler /\ UNCHANGED <<locked, hpc>> => UnlockedByHandler'
  BY DEF UnlockedByHandler
<1>2. DestroyedAfterUnlock /\ UNCHANGED <<main, locked, api, updater>>
      => DestroyedAfterUnlock'
  BY DEF DestroyedAfterUnlock
<1>3. ServerComesLast /\ UNCHANGED <<main, at, api, notified, hpc>> => ServerComesLast'
  BY DEF ServerComesLast
<1>4. StartedHaveThreads /\ UNCHANGED <<settings, main, at, thread>>
      => StartedHaveThreads'
  BY KindIsStable DEF StartedHaveThreads
<1>5. HandlerUsesLiveComponents /\ UNCHANGED <<hpc, dangling>>
      => HandlerUsesLiveComponents'
  BY DEF HandlerUsesLiveComponents
<1> QED
  BY <1>1, <1>2, <1>3, <1>4, <1>5

\* Steps of main.
LEMMA MainSteps ==
  ASSUME LifecycleInv,
         \/ ParseArgumentsEnds
         \/ ParseConfigFile
         \/ Setup
         \/ StartUpdater
         \/ ValidationFails
         \/ StartServer
         \/ StartReporter
         \/ Wait
         \/ DestroyReader
         \/ DestroyUpdater
         \/ DestroyReporter
         \/ DestroyServer
         \/ MainReturns
         \/ DefaultSigterm
  PROVE  LifecycleInv'
<1> USE DEF LifecycleInv, configVars, mainVars, handlerVars
<1>1. CASE ParseArgumentsEnds
  <2>1. LifecycleTypeOK'
    BY <1>1 DEF ParseArgumentsEnds, Ends, LifecycleTypeOK
  <2>2. /\ UnlockedByHandler' /\ DestroyedAfterUnlock' /\ ServerComesLast'
        /\ StartedHaveThreads' /\ HandlerUsesLiveComponents'
    BY <1>1, Frames DEF ParseArgumentsEnds, Ends
  <2> QED
    BY <2>1, <2>2
<1>2. CASE ParseConfigFile
  <2>1. LifecycleTypeOK'
    BY <1>2 DEF ParseConfigFile, MainRuns, LifecycleTypeOK
  <2>2. DestroyedAfterUnlock'
    BY <1>2 DEF ParseConfigFile, DestroyedAfterUnlock
  <2>3. ServerComesLast'
    BY <1>2 DEF ParseConfigFile, ServerComesLast
  <2>4. StartedHaveThreads'
    BY <1>2 DEF ParseConfigFile, StartedHaveThreads
  <2>5. UnlockedByHandler' /\ HandlerUsesLiveComponents'
    BY <1>2, Frames DEF ParseConfigFile, MainRuns
  <2> QED
    BY <2>1, <2>2, <2>3, <2>4, <2>5
<1>3. CASE Setup
  <2>1. LifecycleTypeOK'
    BY <1>3 DEF Setup, MainRuns, LifecycleTypeOK
  <2>2. DestroyedAfterUnlock'
    BY <1>3 DEF Setup, DestroyedAfterUnlock
  <2>3. ServerComesLast'
    BY <1>3 DEF Setup, ServerComesLast
  <2>4. StartedHaveThreads'
    BY <1>3, Bounds DEF Setup, ServerComesLast, StartedHaveThreads, Updaters
  <2>5. UnlockedByHandler' /\ HandlerUsesLiveComponents'
    BY <1>3, Frames DEF Setup, MainRuns
  <2> QED
    BY <2>1, <2>2, <2>3, <2>4, <2>5
<1>4. CASE StartUpdater
  <2>1. LifecycleTypeOK'
    <3>1. at \in 0..(NumUpdaters + 1) /\ at <= NumUpdaters /\ at' = at + 1
      BY <1>4 DEF StartUpdater, LifecycleTypeOK
    <3>2. at' \in 0..(NumUpdaters + 1)
      BY <3>1, Bounds
    <3>3. thread' \in [Updaters -> {"none", "query", "wait", "done"}]
      BY <1>4 DEF StartUpdater, LifecycleTypeOK
    <3> QED
      BY <1>4, <3>2, <3>3 DEF StartUpdater, LifecycleTypeOK
  <2>2. ServerComesLast'
    <3>1. ~(at > NumUpdaters)
      BY <1>4, Numbers, Bounds DEF StartUpdater
    <3>2. api = "null"
      BY <1>4, <3>1 DEF StartUpdater, ServerComesLast
    <3> QED
      BY <1>4, <3>2 DEF StartUpdater, ServerComesLast
  <2>3. StartedHaveThreads'
    <3> SUFFICES ASSUME NEW u \in Updaters, u < at + 1, Kind(u) # "off"
                 PROVE  thread'[u] # "none"
      BY <1>4, KindIsStable DEF StartUpdater, StartedHaveThreads
    <3>1. CASE u = at
      BY <1>4, <3>1 DEF StartUpdater, LifecycleTypeOK
    <3>2. CASE u # at
      <4>1. u < at
        BY <3>2, Numbers
      <4> QED
        BY <1>4, <3>2, <4>1 DEF StartUpdater, StartedHaveThreads, LifecycleTypeOK
    <3> QED
      BY <3>1, <3>2
  <2>4. UnlockedByHandler' /\ DestroyedAfterUnlock' /\ HandlerUsesLiveComponents'
    BY <1>4, Frames DEF StartUpdater, MainRuns
  <2> QED
    BY <2>1, <2>2, <2>3, <2>4
<1>5. CASE ValidationFails
  <2>1. LifecycleTypeOK'
    BY <1>5 DEF ValidationFails, Ends, LifecycleTypeOK
  <2>2. /\ UnlockedByHandler' /\ DestroyedAfterUnlock' /\ ServerComesLast'
        /\ StartedHaveThreads' /\ HandlerUsesLiveComponents'
    BY <1>5, Frames DEF ValidationFails, Ends
  <2> QED
    BY <2>1, <2>2
<1>6. CASE StartServer
  <2>1. LifecycleTypeOK'
    BY <1>6 DEF StartServer, MainRuns, LifecycleTypeOK
  <2>2. DestroyedAfterUnlock'
    BY <1>6 DEF StartServer, DestroyedAfterUnlock
  <2>3. ServerComesLast'
    BY <1>6 DEF StartServer, ServerComesLast
  <2>4. UnlockedByHandler' /\ StartedHaveThreads' /\ HandlerUsesLiveComponents'
    BY <1>6, Frames DEF StartServer, MainRuns
  <2> QED
    BY <2>1, <2>2, <2>3, <2>4
<1>7. CASE StartReporter
  <2>1. LifecycleTypeOK'
    BY <1>7 DEF StartReporter, MainRuns, LifecycleTypeOK
  <2>2. DestroyedAfterUnlock'
    BY <1>7 DEF StartReporter, DestroyedAfterUnlock
  <2>3. ServerComesLast'
    BY <1>7 DEF StartReporter, ServerComesLast
  <2>4. StartedHaveThreads'
    <3>1. \A u \in Updaters : u < at
      BY <1>7, Numbers, Bounds DEF StartReporter
    <3> QED
      BY <1>7, <3>1, KindIsStable DEF StartReporter, StartedHaveThreads
  <2>5. UnlockedByHandler' /\ HandlerUsesLiveComponents'
    BY <1>7, Frames DEF StartReporter, MainRuns
  <2> QED
    BY <2>1, <2>2, <2>3, <2>4, <2>5
<1>8. CASE Wait
  <2>1. LifecycleTypeOK'
    <3>1. NumUpdaters \in 0..(NumUpdaters + 1)
      BY Bounds
    <3> QED
      BY <1>8, <3>1 DEF Wait, LifecycleTypeOK
  <2>2. DestroyedAfterUnlock'
    BY <1>8 DEF Wait, DestroyedAfterUnlock
  <2>3. ServerComesLast'
    BY <1>8 DEF Wait, ServerComesLast
  <2>4. StartedHaveThreads'
    BY <1>8, KindIsStable DEF Wait, StartedHaveThreads
  <2>5. UnlockedByHandler' /\ HandlerUsesLiveComponents'
    BY <1>8, Frames DEF Wait, MainRuns
  <2> QED
    BY <2>1, <2>2, <2>3, <2>4, <2>5
<1>9. CASE DestroyReader
  <2>1. LifecycleTypeOK'
    BY <1>9 DEF DestroyReader, MainRuns, LifecycleTypeOK
  <2>2. DestroyedAfterUnlock'
    BY <1>9 DEF DestroyReader, DestroyedAfterUnlock, LifecycleTypeOK
  <2>3. /\ UnlockedByHandler' /\ ServerComesLast' /\ StartedHaveThreads'
        /\ HandlerUsesLiveComponents'
    BY <1>9, Frames DEF DestroyReader, MainRuns
  <2> QED
    BY <2>1, <2>2, <2>3
<1>10. CASE DestroyUpdater
  <2>1. LifecycleTypeOK'
    <3>1. at \in 0..(NumUpdaters + 1) /\ at > 0 /\ at' = at - 1
      BY <1>10 DEF DestroyUpdater, LifecycleTypeOK
    <3>2. at' \in 0..(NumUpdaters + 1)
      BY <3>1, Bounds
    <3> QED
      BY <1>10, <3>2 DEF DestroyUpdater, LifecycleTypeOK
  <2>2. DestroyedAfterUnlock'
    BY <1>10 DEF DestroyUpdater, DestroyedAfterUnlock, LifecycleTypeOK
  <2>3. ServerComesLast'
    BY <1>10 DEF DestroyUpdater, ServerComesLast
  <2>4. StartedHaveThreads'
    BY <1>10, KindIsStable DEF DestroyUpdater, StartedHaveThreads
  <2>5. UnlockedByHandler' /\ HandlerUsesLiveComponents'
    BY <1>10, Frames DEF DestroyUpdater, MainRuns
  <2> QED
    BY <2>1, <2>2, <2>3, <2>4, <2>5
<1>11. CASE DestroyReporter
  <2>1. LifecycleTypeOK'
    BY <1>11 DEF DestroyReporter, MainRuns, LifecycleTypeOK
  <2>2. /\ UnlockedByHandler' /\ DestroyedAfterUnlock' /\ ServerComesLast'
        /\ StartedHaveThreads' /\ HandlerUsesLiveComponents'
    BY <1>11, Frames DEF DestroyReporter, MainRuns
  <2> QED
    BY <2>1, <2>2
<1>12. CASE DestroyServer
  <2>1. LifecycleTypeOK'
    BY <1>12 DEF DestroyServer, MainRuns, LifecycleTypeOK
  <2>2. DestroyedAfterUnlock'
    BY <1>12 DEF DestroyServer, DestroyedAfterUnlock
  <2>3. ServerComesLast'
    BY <1>12 DEF DestroyServer, ServerComesLast
  <2>4. UnlockedByHandler' /\ StartedHaveThreads' /\ HandlerUsesLiveComponents'
    BY <1>12, Frames DEF DestroyServer, MainRuns
  <2> QED
    BY <2>1, <2>2, <2>3, <2>4
<1>13. CASE MainReturns
  <2>1. LifecycleTypeOK'
    BY <1>13 DEF MainReturns, Ends, LifecycleTypeOK
  <2>2. /\ UnlockedByHandler' /\ DestroyedAfterUnlock' /\ ServerComesLast'
        /\ StartedHaveThreads' /\ HandlerUsesLiveComponents'
    BY <1>13, Frames DEF MainReturns, Ends
  <2> QED
    BY <2>1, <2>2
<1>14. CASE DefaultSigterm
  <2>1. LifecycleTypeOK'
    BY <1>14 DEF DefaultSigterm, Ends, LifecycleTypeOK
  <2>2. /\ UnlockedByHandler' /\ DestroyedAfterUnlock' /\ ServerComesLast'
        /\ StartedHaveThreads' /\ HandlerUsesLiveComponents'
    BY <1>14, Frames DEF DefaultSigterm, Ends
  <2> QED
    BY <2>1, <2>2
<1> QED
  BY <1>1, <1>2, <1>3, <1>4, <1>5, <1>6, <1>7, <1>8, <1>9, <1>10, <1>11, <1>12, <1>13, <1>14

\* Steps of a run of the handler.
LEMMA HandlerSteps ==
  ASSUME LifecycleInv, NEW h \in Handlers,
         \/ Sigterm(h)
         \/ StopServerUnready(h)
         \/ StopServer(h)
         \/ StopServerBlocks(h)
         \/ NotifyUpdater(h)
         \/ NotifyBlocks(h)
         \/ Unlock(h)
         \/ Exit(h)
  PROVE  LifecycleInv'
<1> USE DEF LifecycleInv, configVars, mainVars, handlerVars
<1>1. CASE Sigterm(h)
  <2>1. LifecycleTypeOK'
    BY <1>1 DEF Sigterm, LifecycleTypeOK
  <2>2. UnlockedByHandler'
    BY <1>1 DEF Sigterm, UnlockedByHandler, LifecycleTypeOK
  <2>3. ServerComesLast'
    BY <1>1 DEF Sigterm, ServerComesLast, LifecycleTypeOK
  <2>4. HandlerUsesLiveComponents'
    BY <1>1 DEF Sigterm, HandlerUsesLiveComponents, LifecycleTypeOK
  <2>5. DestroyedAfterUnlock' /\ StartedHaveThreads'
    BY <1>1, Frames DEF Sigterm
  <2> QED
    BY <2>1, <2>2, <2>3, <2>4, <2>5
<1>2. CASE StopServerUnready(h)
  <2>1. LifecycleTypeOK'
    BY <1>2 DEF StopServerUnready, Ends, LifecycleTypeOK
  <2>2. /\ UnlockedByHandler' /\ DestroyedAfterUnlock' /\ ServerComesLast'
        /\ StartedHaveThreads' /\ HandlerUsesLiveComponents'
    BY <1>2, Frames DEF StopServerUnready, Ends
  <2> QED
    BY <2>1, <2>2
<1>3. CASE StopServer(h) \/ StopServerBlocks(h)
  <2>0. PICK next \in {"notify", "blocked"} : StopServerThen(h, next)
    BY <1>3 DEF StopServer, StopServerBlocks
  <2>1. LifecycleTypeOK'
    BY <2>0 DEF StopServerThen, Uses, LifecycleTypeOK
  <2>2. UnlockedByHandler'
    BY <2>0 DEF StopServerThen, UnlockedByHandler, LifecycleTypeOK
  <2>3. DestroyedAfterUnlock'
    BY <2>0 DEF StopServerThen, DestroyedAfterUnlock, LifecycleTypeOK
  <2>4. ServerComesLast'
    BY <2>0 DEF StopServerThen, ServerComesLast, LifecycleTypeOK
  <2>5. HandlerUsesLiveComponents'
    BY <2>0
       DEF StopServerThen, Uses, HandlerUsesLiveComponents, DestroyedAfterUnlock,
           UnlockedByHandler, LifecycleTypeOK
  <2>6. StartedHaveThreads'
    BY <2>0, Frames DEF StopServerThen, Uses
  <2> QED
    BY <2>1, <2>2, <2>3, <2>4, <2>5, <2>6
<1>4. CASE NotifyUpdater(h)
  <2>0. hat[h] <= NumUpdaters /\ hpc[h] # "sleep"
    BY <1>4 DEF NotifyUpdater
  <2>1. LifecycleTypeOK'
    <3>1. hat[h] \in Updaters /\ hat[h] + 1 \in 1..(NumUpdaters + 1)
      BY <2>0, HandlerIsAt
    <3> QED
      BY <1>4, <3>1 DEF NotifyUpdater, Uses, LifecycleTypeOK
  <2>2. ServerComesLast'
    BY <1>4 DEF NotifyUpdater, ServerComesLast
  <2>3. HandlerUsesLiveComponents'
    <3>1. hat[h] \in Updaters /\ hpc[h] # "sleep"
      BY <2>0, HandlerIsAt
    <3>2. updater[hat[h]] = "gone" => \E g \in Handlers \ {h} : hpc[g] = "sleep"
      BY <3>1 DEF DestroyedAfterUnlock, UnlockedByHandler
    <3> QED
      BY <1>4, <3>2 DEF NotifyUpdater, Uses, HandlerUsesLiveComponents
  <2>4. UnlockedByHandler' /\ DestroyedAfterUnlock' /\ StartedHaveThreads'
    BY <1>4, Frames DEF NotifyUpdater, Uses
  <2> QED
    BY <2>1, <2>2, <2>3, <2>4
<1>5. CASE NotifyBlocks(h)
  <2>0. hat[h] \in Updaters /\ hpc[h] = "notify"
    BY <1>5, HandlerIsAt DEF NotifyBlocks
  <2>1. LifecycleTypeOK'
    BY <1>5, <2>0 DEF NotifyBlocks, Uses, LifecycleTypeOK
  <2>2. UnlockedByHandler'
    BY <1>5, <2>0 DEF NotifyBlocks, UnlockedByHandler, LifecycleTypeOK
  <2>3. ServerComesLast'
    BY <1>5, <2>0 DEF NotifyBlocks, ServerComesLast, LifecycleTypeOK
  <2>4. HandlerUsesLiveComponents'
    <3>1. updater[hat[h]] = "gone" => \E g \in Handlers \ {h} : hpc[g] = "sleep"
      BY <2>0 DEF DestroyedAfterUnlock, UnlockedByHandler
    <3> QED
      BY <1>5, <2>0, <3>1
         DEF NotifyBlocks, Uses, HandlerUsesLiveComponents, LifecycleTypeOK
  <2>5. DestroyedAfterUnlock' /\ StartedHaveThreads'
    BY <1>5, Frames DEF NotifyBlocks, Uses
  <2> QED
    BY <2>1, <2>2, <2>3, <2>4, <2>5
<1>6. CASE Unlock(h)
  <2>1. LifecycleTypeOK'
    BY <1>6 DEF Unlock, LifecycleTypeOK
  <2>2. UnlockedByHandler'
    BY <1>6 DEF Unlock, UnlockedByHandler, LifecycleTypeOK
  <2>3. DestroyedAfterUnlock'
    BY <1>6 DEF Unlock, DestroyedAfterUnlock
  <2>4. ServerComesLast'
    BY <1>6 DEF Unlock, ServerComesLast, LifecycleTypeOK
  <2>5. HandlerUsesLiveComponents'
    BY <1>6 DEF Unlock, HandlerUsesLiveComponents, LifecycleTypeOK
  <2>6. StartedHaveThreads'
    BY <1>6, Frames DEF Unlock
  <2> QED
    BY <2>1, <2>2, <2>3, <2>4, <2>5, <2>6
<1>7. CASE Exit(h)
  <2>1. LifecycleTypeOK'
    BY <1>7 DEF Exit, Ends, LifecycleTypeOK
  <2>2. /\ UnlockedByHandler' /\ DestroyedAfterUnlock' /\ ServerComesLast'
        /\ StartedHaveThreads' /\ HandlerUsesLiveComponents'
    BY <1>7, Frames DEF Exit, Ends
  <2> QED
    BY <2>1, <2>2
<1> QED
  BY <1>1, <1>2, <1>3, <1>4, <1>5, <1>6, <1>7

\* Steps of an updater's threads.
LEMMA ThreadSteps ==
  ASSUME LifecycleInv, NEW u \in Updaters,
         \/ QueryEnds(u)
         \/ WaitEnds(u)
         \/ WatchGivesUp(u)
  PROVE  LifecycleInv'
<1> USE DEF LifecycleInv, configVars, mainVars, handlerVars
<1>1. CASE QueryEnds(u)
  <2>1. LifecycleTypeOK'
    BY <1>1 DEF QueryEnds, LifecycleTypeOK
  <2>2. StartedHaveThreads'
    BY <1>1, KindIsStable DEF QueryEnds, StartedHaveThreads, LifecycleTypeOK
  <2>3. /\ UnlockedByHandler' /\ DestroyedAfterUnlock' /\ ServerComesLast'
        /\ HandlerUsesLiveComponents'
    BY <1>1, Frames DEF QueryEnds
  <2> QED
    BY <2>1, <2>2, <2>3
<1>2. CASE WaitEnds(u)
  <2>1. LifecycleTypeOK'
    BY <1>2 DEF WaitEnds, LifecycleTypeOK
  <2>2. StartedHaveThreads'
    BY <1>2, KindIsStable DEF WaitEnds, StartedHaveThreads, LifecycleTypeOK
  <2>3. /\ UnlockedByHandler' /\ DestroyedAfterUnlock' /\ ServerComesLast'
        /\ HandlerUsesLiveComponents'
    BY <1>2, Frames DEF WaitEnds
  <2> QED
    BY <2>1, <2>2, <2>3
<1>3. CASE WatchGivesUp(u)
  <2>1. LifecycleTypeOK'
    BY <1>3 DEF WatchGivesUp, LifecycleTypeOK
  <2>2. StartedHaveThreads'
    BY <1>3, KindIsStable DEF WatchGivesUp, StartedHaveThreads, LifecycleTypeOK
  <2>3. /\ UnlockedByHandler' /\ DestroyedAfterUnlock' /\ ServerComesLast'
        /\ HandlerUsesLiveComponents'
    BY <1>3, Frames DEF WatchGivesUp
  <2> QED
    BY <2>1, <2>2, <2>3
<1> QED
  BY <1>1, <1>2, <1>3

--------------------------------------------------------------------------------
\* The invariant holds initially and every step keeps it.
THEOREM LifecycleInvariant == LifecycleSpec => []LifecycleInv
<1>1. LifecycleInit => LifecycleInv
  <2> SUFFICES ASSUME LifecycleInit PROVE LifecycleInv
    OBVIOUS
  <2>1. LifecycleTypeOK
    <3>1. at \in 0..(NumUpdaters + 1) /\ 1 \in 1..(NumUpdaters + 1)
      BY Bounds DEF LifecycleInit
    <3> QED
      BY <3>1 DEF LifecycleInit, LifecycleTypeOK
  <2>2. /\ UnlockedByHandler /\ DestroyedAfterUnlock /\ ServerComesLast
        /\ StartedHaveThreads /\ HandlerUsesLiveComponents
    BY DEF LifecycleInit, UnlockedByHandler, DestroyedAfterUnlock, ServerComesLast,
           StartedHaveThreads, HandlerUsesLiveComponents
  <2> QED
    BY <2>1, <2>2 DEF LifecycleInv
<1>2. LifecycleInv /\ UNCHANGED vars => LifecycleInv'
  <2> SUFFICES ASSUME LifecycleInv, UNCHANGED vars PROVE LifecycleInv'
    OBVIOUS
  <2>1. LifecycleTypeOK'
    <3>1. /\ main' = main /\ at' = at /\ api' = api /\ reporter' = reporter
          /\ updater' = updater /\ thread' = thread /\ notified' = notified
          /\ locked' = locked /\ hpc' = hpc /\ on_main' = on_main /\ hat' = hat
          /\ in_log' = in_log /\ dangling' = dangling /\ outcome' = outcome
      BY DEF vars, mainVars, handlerVars
    <3>2. LifecycleTypeOK
      BY DEF LifecycleInv
    <3> QED
      BY <3>1, <3>2 DEF LifecycleTypeOK
  <2> QED
    BY <2>1, Frames DEF LifecycleInv, vars, configVars, mainVars, handlerVars
<1>3. LifecycleInv /\ [LifecycleNext]_vars => LifecycleInv'
  BY <1>2, MainSteps, HandlerSteps, ThreadSteps
     DEF LifecycleNext, StartUp, TearDown, HandlerStep, Poll
<1> QED
  BY <1>1, <1>3, PTL DEF LifecycleSpec

\* handle_sigterm (metadatad.cc:38-48, 64-69) uses live components only, unless
\* a second run of it meets what main destroys after the first.
THEOREM HandlersUseLiveComponents == LifecycleSpec => []HandlerUsesLiveComponents
<1>1. LifecycleInv => HandlerUsesLiveComponents
  BY DEF LifecycleInv
<1> QED
  BY <1>1, LifecycleInvariant, PTL

\* The order of main (metadatad.cc:89-93) and of StartShutdown together keep
\* every Start() before every NotifyStop() of the same updater.
THEOREM NoUpdaterStartsAfterStop == LifecycleSpec => []NoStartAfterStop
<1>1. LifecycleInv => NoStartAfterStop
  <2> SUFFICES ASSUME LifecycleInv, NEW u \in notified
               PROVE  Kind(u) = "off" \/ thread[u] # "none"
    BY DEF NoStartAfterStop
  <2> USE DEF LifecycleInv
  <2>1. u \in Updaters /\ api # "null"
    BY DEF LifecycleTypeOK, ServerComesLast
  <2>2. main = "start" => u < at
    <3>1. main = "start" => at > NumUpdaters
      BY <2>1 DEF ServerComesLast
    <3> QED
      BY <2>1, <3>1, Numbers, Bounds
  <2>3. main \in {"start", "wait", "destroy"}
    BY <2>1 DEF LifecycleTypeOK, ServerComesLast
  <2> QED
    BY <2>1, <2>2, <2>3 DEF StartedHaveThreads
<1> QED
  BY <1>1, LifecycleInvariant, PTL

--------------------------------------------------------------------------------
\* The environment and the token (Authorization).


USE EnvironmentAssumption, AuthorizationAssumption

\* A member that a thread is about to assign is empty, and one that was
\* returned with a value still has it.
MembersAreStable ==
  \A t \in Threads :
    /\ gpc[t] \in {"query", "query_kube_env"} => cached[wanted[t]] = None
    /\ gpc[t] = "copy" /\ returned[t] # None => cached[wanted[t]] = returned[t]

EnvironmentInv ==
  /\ EnvironmentTypeOK
  /\ MembersAreStable
  /\ CopiedAsReturned

--------------------------------------------------------------------------------
\* What each step of a getter does to the invariant of the environment.

LEMMA EnvironmentStarts == EnvironmentInit => EnvironmentInv
  <1>1. EnvironmentInit => EnvironmentTypeOK
    BY DEF EnvironmentInit, EnvironmentTypeOK
  <1>2. EnvironmentInit => MembersAreStable /\ CopiedAsReturned
    BY DEF EnvironmentInit, MembersAreStable, CopiedAsReturned
  <1> QED BY <1>1, <1>2 DEF EnvironmentInv

LEMMA EnvironmentStutters ==
  EnvironmentInv /\ UNCHANGED environmentVars => EnvironmentInv'
  BY DEF EnvironmentInv, EnvironmentTypeOK, MembersAreStable, CopiedAsReturned,
         environmentVars

\* A getter that fills an empty member, or returns a full one, and unlocks.
LEMMA ReturnKeepsInv ==
  ASSUME NEW t \in Threads, NEW n \in Names, NEW v \in Values \cup {None},
         EnvironmentInv, Return(t, n, v), env_mu \in {None, t},
         cached[n] \in {None, v},
         wanted' = [wanted EXCEPT ![t] = n],
         credentials' \in Credentials, read' \in BOOLEAN
  PROVE  EnvironmentInv'
  <1>1. EnvironmentTypeOK'
    BY DEF EnvironmentInv, EnvironmentTypeOK, Return
  <1>2. MembersAreStable'
    BY DEF EnvironmentInv, EnvironmentTypeOK, MembersAreStable, Return
  <1>3. CopiedAsReturned'
    BY DEF EnvironmentInv, EnvironmentTypeOK, CopiedAsReturned, Return
  <1> QED BY <1>1, <1>2, <1>3 DEF EnvironmentInv

\* A getter that finds its member empty and keeps the lock.
LEMMA AskKeepsInv ==
  ASSUME NEW t \in Threads, NEW n \in Names, NEW pc \in {"query", "query_kube_env"},
         EnvironmentInv, Ask(t, pc), env_mu \in {None, t},
         cached[n] = None,
         wanted' = [wanted EXCEPT ![t] = n],
         credentials' \in Credentials, read' \in BOOLEAN
  PROVE  EnvironmentInv'
  <1>1. EnvironmentTypeOK'
    BY DEF EnvironmentInv, EnvironmentTypeOK, Ask
  <1>2. MembersAreStable'
    BY DEF EnvironmentInv, EnvironmentTypeOK, MembersAreStable, Ask
  <1>3. CopiedAsReturned'
    BY DEF EnvironmentInv, EnvironmentTypeOK, CopiedAsReturned, Ask
  <1> QED BY <1>1, <1>2, <1>3 DEF EnvironmentInv

LEMMA CredentialsTyped ==
  ASSUME EnvironmentInv,
         ReadApplicationDefaultCredentials \/ UNCHANGED <<credentials, read>>
  PROVE  credentials' \in Credentials /\ read' \in BOOLEAN
  BY DEF EnvironmentInv, EnvironmentTypeOK, ReadApplicationDefaultCredentials

LEMMA GetterKeepsInv ==
  ASSUME NEW t \in Threads, NEW n \in Names, EnvironmentInv, Getter(t, n)
  PROVE  EnvironmentInv'
  <1>1. /\ credentials' \in Credentials
        /\ read' \in BOOLEAN
    BY CredentialsTyped DEF Getter
  <1>2. /\ env_mu \in {None, t}
        /\ wanted' = [wanted EXCEPT ![t] = n]
        /\ cached[n] \in Values \cup {None}
    BY DEF Getter, EnvironmentInv, EnvironmentTypeOK
  <1>3. CASE cached[n] # None
    <2>1. Return(t, n, cached[n])
      BY <1>3 DEF Getter
    <2> QED BY <2>1, <1>1, <1>2, ReturnKeepsInv
  <1>4. CASE cached[n] = None /\ n \in DOMAIN ConfigValue
    <2>1. Return(t, n, ConfigValue[n])
      BY <1>4 DEF Getter
    <2>2. ConfigValue[n] \in Values
      BY <1>4
    <2> QED BY <2>1, <2>2, <1>1, <1>2, <1>4, ReturnKeepsInv
  <1>5. CASE cached[n] = None /\ n \notin DOMAIN ConfigValue
    <2>1. \/ /\ credentials'.project # None
             /\ Return(t, n, credentials'.project)
          \/ Ask(t, "query")
      BY <1>5 DEF Getter
    <2>2. CASE Return(t, n, credentials'.project)
      <3>1. credentials'.project \in Values \cup {None}
        BY <1>1
      <3> QED BY <2>2, <3>1, <1>1, <1>2, <1>5, ReturnKeepsInv
    <2>3. CASE Ask(t, "query")
      BY <2>3, <1>1, <1>2, <1>5, AskKeepsInv
    <2> QED BY <2>1, <2>2, <2>3
  <1> QED BY <1>3, <1>4, <1>5

\* A step of a query: the thread has the lock and wants wanted[t].
LEMMA QueryFacts ==
  ASSUME NEW t \in Threads, EnvironmentInv,
         gpc[t] \in {"query", "query_kube_env"}, wanted' = wanted
  PROVE  /\ env_mu = t
         /\ wanted[t] \in Names
         /\ cached[wanted[t]] = None
         /\ wanted' = [wanted EXCEPT ![t] = wanted[t]]
  BY DEF EnvironmentInv, EnvironmentTypeOK, MembersAreStable

LEMMA GetterStepKeepsInv ==
  ASSUME NEW t \in Threads, EnvironmentInv, GetterStep(t)
  PROVE  EnvironmentInv'
  <1>1. CASE \E v \in Values : MetadataArrives(t, v)
    <2>1. PICK v \in Values : MetadataArrives(t, v)
      BY <1>1
    <2>2. /\ Return(t, wanted[t], v)
          /\ gpc[t] \in {"query", "query_kube_env"}
          /\ wanted' = wanted
          /\ credentials' \in Credentials
          /\ read' \in BOOLEAN
      BY <2>1, CredentialsTyped DEF MetadataArrives
    <2> QED BY <2>2, QueryFacts, ReturnKeepsInv
  <1>2. CASE MetadataMissing(t)
    <2>1. /\ Return(t, wanted[t], None) \/ Ask(t, "query_kube_env")
          /\ gpc[t] \in {"query", "query_kube_env"}
          /\ wanted' = wanted
          /\ credentials' \in Credentials
          /\ read' \in BOOLEAN
      BY <1>2, CredentialsTyped DEF MetadataMissing
    <2> QED BY <2>1, QueryFacts, ReturnKeepsInv, AskKeepsInv
  <1>3. CASE Copy(t)
    <2>1. EnvironmentTypeOK'
      BY <1>3 DEF EnvironmentInv, EnvironmentTypeOK, Copy
    <2>2. MembersAreStable'
      BY <1>3 DEF EnvironmentInv, EnvironmentTypeOK, MembersAreStable, Copy
    <2>3. returned[t] # None => ~Overwritten(t)
      BY <1>3 DEF EnvironmentInv, EnvironmentTypeOK, MembersAreStable, Copy,
                  Overwritten
    <2>4. returned[t] # None => copy'[t] = returned[t]
      BY <1>3, <2>3 DEF EnvironmentInv, EnvironmentTypeOK, MembersAreStable, Copy
    <2>5. CopiedAsReturned'
      BY <1>3, <2>4 DEF EnvironmentInv, EnvironmentTypeOK, CopiedAsReturned, Copy
    <2> QED BY <2>1, <2>2, <2>5 DEF EnvironmentInv
  <1> QED BY <1>1, <1>2, <1>3 DEF GetterStep

LEMMA UsedKeepsInv ==
  ASSUME NEW t \in Threads, EnvironmentInv, Used(t)
  PROVE  EnvironmentInv'
  BY DEF EnvironmentInv, EnvironmentTypeOK, MembersAreStable, CopiedAsReturned, Used

LEMMA CredentialsReadKeepsInv ==
  ASSUME EnvironmentInv, CredentialsRead
  PROVE  EnvironmentInv'
  <1>1. credentials' \in Credentials /\ read' \in BOOLEAN
    BY CredentialsTyped DEF CredentialsRead
  <1> QED BY <1>1 DEF EnvironmentInv, EnvironmentTypeOK, MembersAreStable,
                      CopiedAsReturned, CredentialsRead

--------------------------------------------------------------------------------
\* OAuth2: the expiration that is kept, and the moment the header was taken,
\* are tied to the token.

HeaderFollowsToken ==
  header # None =>
    expiration = header.arrived + header.lifetime - Slack

TakenInTime ==
  auth_header # None =>
    \/ taken = auth_header.arrived
    \/ taken <= auth_header.arrived + auth_header.lifetime - Slack

OAuthTypeOK ==
  /\ now \in 0..MaxTime
  /\ rpc \in {"idle", "project_id", "credentials", "ask_server", "ask_metadata",
              "send", "terminated"}
  /\ header \in Tokens \cup {None}
  /\ expiration \in Int
  /\ asked \in 0..now
  /\ auth_header \in Tokens \cup {None}
  /\ taken \in 0..now

OAuthInv ==
  /\ OAuthTypeOK
  /\ HeaderFollowsToken
  /\ TakenInTime

LEMMA OAuthStutters == OAuthInv /\ UNCHANGED oauthVars => OAuthInv'
  BY DEF OAuthInv, OAuthTypeOK, HeaderFollowsToken, TakenInTime, oauthVars

\* A token that has just arrived.
LEMMA TokenArrivesKeepsInv ==
  ASSUME NEW issued \in 0..MaxTime, NEW lifetime \in Lifetimes,
         OAuthInv, TokenArrives(issued, lifetime)
  PROVE  OAuthInv'
  <1> DEFINE token == [issued |-> issued, arrived |-> now, lifetime |-> lifetime]
  <1>1. /\ token \in Tokens
        /\ token.arrived = now
        /\ token.lifetime = lifetime
        /\ lifetime \in Nat
        /\ now \in Nat
    BY DEF Tokens, OAuthInv, OAuthTypeOK
  <1>2. /\ header' = token /\ auth_header' = token /\ taken' = now
        /\ expiration' = now + lifetime - Slack
        /\ rpc' = "send"
        /\ now' = now /\ asked' = asked
    BY DEF TokenArrives, HeaderReturned
  <1> HIDE DEF token
  <1> QED BY <1>1, <1>2 DEF OAuthInv, OAuthTypeOK, HeaderFollowsToken, TakenInTime

\* The steps of GetAuthHeaderValue and of the report around it.
LEMMA OAuthStepKeepsInv ==
  ASSUME OAuthInv,
         SendMetadata \/ GetAuthHeaderValue \/ ReportEnds \/ Tick
  PROVE  OAuthInv'
  <1>0. None \notin Tokens
    BY DEF Tokens
  <1>1. CASE SendMetadata
    BY <1>1 DEF OAuthInv, OAuthTypeOK, HeaderFollowsToken, TakenInTime, SendMetadata
  <1>2. CASE HeaderCached
    <2>1. /\ header \in Tokens
          /\ expiration >= now
      BY <1>2 DEF HeaderCached, IsExpired, OAuthInv, OAuthTypeOK
    <2>2. now <= header.arrived + header.lifetime - Slack
      BY <2>1, <1>0 DEF OAuthInv, OAuthTypeOK, HeaderFollowsToken
    <2> QED BY <1>2, <2>1, <2>2 DEF HeaderCached, HeaderReturned, OAuthInv,
              OAuthTypeOK, HeaderFollowsToken, TakenInTime
  <1>3. CASE HeaderExpired
    BY <1>3 DEF OAuthInv, OAuthTypeOK, HeaderFollowsToken, TakenInTime, HeaderExpired
  <1>4. CASE CredentialsRead
    BY <1>4 DEF OAuthInv, OAuthTypeOK, HeaderFollowsToken, TakenInTime, CredentialsRead
  <1>5. CASE TokenRefused
    BY <1>5 DEF OAuthInv, OAuthTypeOK, HeaderFollowsToken, TakenInTime, TokenRefused
  <1>6. CASE \E issued \in 0..MaxTime, lifetime \in Lifetimes :
               TokenArrives(issued, lifetime)
    BY <1>6, TokenArrivesKeepsInv
  <1>7. CASE TokenUnavailable
    BY <1>7 DEF OAuthInv, OAuthTypeOK, HeaderFollowsToken, TakenInTime,
                TokenUnavailable, HeaderReturned
  <1>8. CASE TokenMalformed
    BY <1>8 DEF OAuthInv, OAuthTypeOK, HeaderFollowsToken, TakenInTime, TokenMalformed
  <1>9. CASE ReportEnds
    BY <1>9 DEF OAuthInv, OAuthTypeOK, HeaderFollowsToken, TakenInTime, ReportEnds
  <1>10. CASE Tick
    BY <1>10 DEF OAuthInv, OAuthTypeOK, HeaderFollowsToken, TakenInTime, Tick
  <1> QED BY <1>1, <1>2, <1>3, <1>4, <1>5, <1>6, <1>7, <1>8, <1>9, <1>10
          DEF GetAuthHeaderValue

LEMMA TakenInTimeSuffices == OAuthInv => SentWithValidToken
  <1> SUFFICES ASSUME OAuthInv, auth_header # None,
                      (now - taken) + Delay(auth_header) <= Slack,
                      (now - taken) + Delay(auth_header) <= auth_header.lifetime
               PROVE  now <= ValidUntil(auth_header)
    BY DEF SentWithValidToken
  <1>1. auth_header \in Tokens
    BY DEF OAuthInv, OAuthTypeOK
  <1>2. /\ auth_header.issued \in Nat
        /\ auth_header.arrived \in Nat
        /\ auth_header.lifetime \in Nat
    BY <1>1 DEF Tokens
  <1>3. now \in Int /\ taken \in Int
    BY DEF OAuthInv, OAuthTypeOK
  <1> QED BY <1>2, <1>3 DEF OAuthInv, TakenInTime, Delay, ValidUntil

--------------------------------------------------------------------------------
\* The environment and OAuth2 together.

AuthorizationInv == EnvironmentInv /\ OAuthInv

LEMMA InvStarts == AuthorizationInit => AuthorizationInv
  <1> SUFFICES ASSUME AuthorizationInit PROVE OAuthInv
    BY EnvironmentStarts DEF AuthorizationInit, AuthorizationInv
  <1> QED BY DEF AuthorizationInit, OAuthInv, OAuthTypeOK, HeaderFollowsToken,
                 TakenInTime

LEMMA StepKeepsInv ==
  ASSUME AuthorizationInv, [AuthorizationNext]_authVars
  PROVE  AuthorizationInv'
  <1> USE DEF AuthorizationInv
  <1>1. CASE SendMetadata
    <2>1. Getter(Reporter, ProjectId)
      BY <1>1 DEF SendMetadata
    <2> QED BY <2>1, <1>1, GetterKeepsInv, OAuthStepKeepsInv
  <1>2. CASE GetAuthHeaderValue
    <2>1. EnvironmentInv'
      <3>1. CASE HeaderCached \/ HeaderExpired
        <4>1. Used(Reporter)
          BY <3>1 DEF HeaderCached, HeaderExpired
        <4> QED BY <4>1, UsedKeepsInv
      <3>2. CASE CredentialsRead
        BY <3>2, CredentialsReadKeepsInv
      <3>3. CASE UNCHANGED environmentVars
        BY <3>3, EnvironmentStutters
      <3> QED BY <1>2, <3>1, <3>2, <3>3 DEF GetAuthHeaderValue, TokenRefused,
                TokenArrives, TokenUnavailable, TokenMalformed
    <2> QED BY <1>2, <2>1, OAuthStepKeepsInv
  <1>3. CASE ReportEnds \/ Tick
    <2>1. UNCHANGED environmentVars
      BY <1>3 DEF ReportEnds, Tick
    <2> QED BY <1>3, <2>1, EnvironmentStutters, OAuthStepKeepsInv
  <1>4. ASSUME NEW t \in Threads, GetterStep(t), UNCHANGED oauthVars
        PROVE  AuthorizationInv'
    BY <1>4, GetterStepKeepsInv, OAuthStutters
  <1>5. ASSUME NEW t \in Threads, ReaderStep(t)
        PROVE  AuthorizationInv'
    <2>1. /\ (\E n \in Names : Getter(t, n)) \/ Used(t)
          /\ UNCHANGED oauthVars
      BY <1>5 DEF ReaderStep
    <2> QED BY <2>1, GetterKeepsInv, UsedKeepsInv, OAuthStutters
  <1>6. CASE UNCHANGED authVars
    BY <1>6, EnvironmentStutters, OAuthStutters DEF authVars
  <1> QED BY <1>1, <1>2, <1>3, <1>4, <1>5, <1>6 DEF AuthorizationNext

LEMMA InvHolds == AuthorizationSpec => []AuthorizationInv
  BY InvStarts, StepKeepsInv, PTL DEF AuthorizationSpec

\* The variables of the environment and of OAuth2 always have their types, and
\* the metadata server is asked for a member only under the environment's lock.
THEOREM AuthorizationTypeCorrect == AuthorizationSpec => []AuthorizationTypeOK
  <1>1. AuthorizationInv => AuthorizationTypeOK
    BY DEF AuthorizationInv, EnvironmentInv, OAuthInv, OAuthTypeOK,
           AuthorizationTypeOK
  <1> QED BY <1>1, InvHolds, PTL

\* Values of the environment, which are returned by reference and read without
\* the lock, are copied as they were when the getter returned.
THEOREM ValuesAreCopiedAsReturned == AuthorizationSpec => []CopiedAsReturned
  <1>1. AuthorizationInv => CopiedAsReturned
    BY DEF AuthorizationInv, EnvironmentInv
  <1> QED BY <1>1, InvHolds, PTL

\* For every slack and lifetime, a request sent within the slack, less the time
\* the token was on its way, carries a valid token.
THEOREM TokensAreValidWhenSent == AuthorizationSpec => []SentWithValidToken
  <1>1. AuthorizationInv => SentWithValidToken
    BY TakenInTimeSuffices DEF AuthorizationInv
  <1> QED BY <1>1, InvHolds, PTL
================================================================================
