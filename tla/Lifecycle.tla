------------------------------- MODULE Lifecycle -------------------------------
(***************************************************************************)
(* The daemon from main to its end (metadatad.cc, agent.cc,                *)
(* configuration.cc): main reads the configuration, starts the updaters,   *)
(* then the API server and the reporter, and waits on a mutex; SIGTERM     *)
(* runs a handler, on main's thread or on another, that stops the server,  *)
(* notifies the updaters, unlocks the mutex and exits the process after a  *)
(* moment.  Once the mutex is unlocked a handler on another thread races   *)
(* main, which returns and destroys everything.  The handler logs, as the  *)
(* thread it interrupted may be doing: then it waits for the mutex of the  *)
(* log forever.                                                            *)
(*                                                                         *)
(* An updater that polls has a thread that queries and waits until its     *)
(* timer is cancelled; one that watches has threads that nobody can stop.  *)
(* The reporter is never notified by the handler, and joining it may take  *)
(* forever (see Reporter).                                                 *)
(***************************************************************************)
EXTENDS Integers, SequencesExt

CONSTANTS
  NumUpdaters,  \* updaters, in the order main declares and starts them
  Watching,     \* the updaters that can watch instead of polling
  Defaults,     \* the option map: each option with its default
  Period,       \* the option with the period of each updater
  UseWatch,     \* the option KubernetesUseWatch
  Files,        \* configuration files, as sequences of keys and values
  CommandLines, \* the options on the command line, likewise
  Unreadable,   \* a value that is not of the option's type
  MaxSignals    \* bound: SIGTERMs the process gets

ASSUME LifecycleAssumption ==
  /\ NumUpdaters \in Nat
  /\ Watching \subseteq 1..NumUpdaters
  /\ \A u \in 1..NumUpdaters : Defaults[Period[u]] \in Int
  /\ Defaults[UseWatch] \in BOOLEAN
  /\ MaxSignals \in Nat

Updaters == 1..NumUpdaters
Handlers == 1..MaxSignals

VARIABLES
  file,      \* the configuration file
  options,   \* the options given with -o
  settings,  \* the values of the options
  main,      \* what main does next
  at,        \* the updater that main or its destructors are at
  api,       \* metadata_api_server_
  reporter,  \* reporter_
  updater,   \* how much of each updater is there
  thread,    \* the thread of each updater
  notified,  \* updaters that NotifyStop was called on
  locked,    \* server_wait_mutex_
  hpc,       \* where each run of handle_sigterm stands
  on_main,   \* the runs that interrupted main
  hat,       \* the updater each run notifies next
  in_log,    \* a run interrupted a thread in LogStream::write, which has its mutex
  dangling,  \* ghost: runs that used a component after its destructor
  outcome    \* how the process ended, if it has

configVars == <<file, options, settings>>
mainVars == <<main, at, api, reporter, updater>>
handlerVars == <<hpc, on_main, hat, in_log>>
vars == <<configVars, mainVars, thread, notified, locked, handlerVars, dangling, outcome>>

LifecycleInit ==
  /\ file \in Files
  /\ options \in CommandLines
  /\ settings = Defaults
  /\ main = "parse"
  /\ at = 1
  /\ api = "null"
  /\ reporter = "null"
  /\ updater = [u \in Updaters |-> "whole"]
  /\ thread = [u \in Updaters |-> "none"]
  /\ notified = {}
  /\ locked = TRUE
  /\ hpc = [h \in Handlers |-> "none"]
  /\ on_main = {}
  /\ hat = [h \in Handlers |-> 1]
  /\ in_log = FALSE
  /\ dangling = {}
  /\ outcome = "running"

\* main runs unless a handler has interrupted it.
MainRuns == outcome = "running" /\ on_main = {}

\* The process ends: exit, an uncaught exception, or a fault.
Ends(how) ==
  /\ outcome' = how
  /\ UNCHANGED <<configVars, mainVars, thread, notified, locked, handlerVars, dangling>>

--------------------------------------------------------------------------------
\* main.

\* OptionDef::Set keeps the value there is if it cannot read the new one; a key
\* that is no option is only complained of.
Set(values, kv) == IF kv[1] \in DOMAIN values /\ kv[2] # Unreadable
                   THEN [values EXCEPT ![kv[1]] = kv[2]] ELSE values

ParseConfiguration(input) == settings' = FoldLeft(Set, settings, input)

\* --help and --version end with 0, an invalid argument with 1, and what is not
\* YAML with an exception.
ParseArgumentsEnds ==
  /\ MainRuns /\ main = "parse"
  /\ \E how \in {"exit 0", "exit 1", "terminated"} : Ends(how)

ParseConfigFile ==
  /\ MainRuns /\ main = "parse"
  /\ ParseConfiguration(file)
  /\ main' = "setup"
  /\ UNCHANGED <<file, options, at, api, reporter, updater, thread, notified,
                 locked, handlerVars, dangling, outcome>>

\* The options of the command line come last and override the file.  Then the
\* agent and the updaters are constructed, cleanup_state and the handler put in
\* place.
Setup ==
  /\ MainRuns /\ main = "setup"
  /\ ParseConfiguration(options)
  /\ main' = "start"
  /\ UNCHANGED <<file, options, at, api, reporter, updater, thread, notified,
                 locked, handlerVars, dangling, outcome>>

\* What ShouldStartUpdater and StartUpdater make of an updater.
Kind(u) == IF u \in Watching /\ settings[UseWatch] THEN "watch"
           ELSE IF settings[Period[u]] > 0 THEN "poll"
           ELSE "off"

\* Start() of an updater, if the configuration asks for it; otherwise it logs
\* that it does not.
StartUpdater ==
  /\ MainRuns /\ main = "start" /\ at <= NumUpdaters
  /\ settings[Period[at]] >= 0
  /\ Kind(at) = "off" => ~in_log
  /\ thread' = [thread EXCEPT ![at] = IF Kind(at) = "off" THEN "none" ELSE "query"]
  /\ at' = at + 1
  /\ UNCHANGED <<configVars, main, api, reporter, updater, notified, locked,
                 handlerVars, dangling, outcome>>

\* ConfigurationValidationError passes through and terminates the program: the
\* period is negative, or what an updater that is to be started queries fails.
ValidationFails ==
  /\ MainRuns /\ main = "start" /\ at <= NumUpdaters
  /\ settings[Period[at]] < 0 \/ Kind(at) # "off"
  /\ Ends("terminated")

\* MetadataAgent::Start: the API server, then the reporter.
StartServer ==
  /\ MainRuns /\ main = "start" /\ at > NumUpdaters
  /\ api = "null"
  /\ api' = "up"
  /\ UNCHANGED <<configVars, main, at, reporter, updater, thread, notified, locked,
                 handlerVars, dangling, outcome>>

StartReporter ==
  /\ MainRuns /\ main = "start" /\ at > NumUpdaters
  /\ api # "null"
  /\ reporter' = "up"
  /\ main' = "wait"
  /\ UNCHANGED <<configVars, at, api, updater, thread, notified, locked, handlerVars,
                 dangling, outcome>>

\* Wait() got the mutex and gave it back; main returns.
Wait ==
  /\ MainRuns /\ main = "wait"
  /\ ~locked
  /\ main' = "destroy"
  /\ at' = NumUpdaters
  /\ UNCHANGED <<configVars, api, reporter, updater, thread, notified, locked,
                 handlerVars, dangling, outcome>>

\* ~KubernetesUpdater joins its watch threads; then the members of an updater
\* are destroyed, its reader among them, although its polling thread may be in
\* the middle of a query: that may end the process or pass unnoticed.
DestroyReader ==
  /\ MainRuns /\ main = "destroy" /\ at > 0
  /\ updater[at] = "whole"
  /\ Kind(at) = "watch" => thread[at] = "done"
  /\ updater' = [updater EXCEPT ![at] = "no reader"]
  /\ outcome' \in IF thread[at] = "query" THEN {"running", "crashed"}
                                          ELSE {"running"}
  /\ UNCHANGED <<configVars, main, at, api, reporter, thread, notified, locked,
                 handlerVars, dangling>>

\* ~PollingMetadataUpdater joins the polling thread.
DestroyUpdater ==
  /\ MainRuns /\ main = "destroy" /\ at > 0
  /\ updater[at] = "no reader"
  /\ thread[at] \in {"none", "done"}
  /\ updater' = [updater EXCEPT ![at] = "gone"]
  /\ at' = at - 1
  /\ UNCHANGED <<configVars, main, api, reporter, thread, notified, locked,
                 handlerVars, dangling, outcome>>

\* ~MetadataAgent: the reporter is stopped and joined, if that ever returns;
\* the API server is stopped once more, which is logged, and its pool joined.
DestroyReporter ==
  /\ MainRuns /\ main = "destroy" /\ at = 0
  /\ reporter = "up"
  /\ reporter' = "gone"
  /\ UNCHANGED <<configVars, main, at, api, updater, thread, notified, locked,
                 handlerVars, dangling, outcome>>

DestroyServer ==
  /\ MainRuns /\ main = "destroy" /\ at = 0
  /\ reporter = "gone" /\ api # "gone"
  /\ ~in_log
  /\ api' = "gone"
  /\ UNCHANGED <<configVars, main, at, reporter, updater, thread, notified, locked,
                 handlerVars, dangling, outcome>>

MainReturns ==
  /\ MainRuns /\ main = "destroy" /\ api = "gone"
  /\ Ends("exit 0")

--------------------------------------------------------------------------------
\* handle_sigterm and StartShutdown.

\* Before std::signal the default action ends the process.
DefaultSigterm ==
  /\ outcome = "running" /\ main \in {"parse", "setup"}
  /\ MaxSignals > 0
  /\ Ends("killed")

\* Threads besides main that a signal may be delivered to.
OtherThreads == \/ api = "up" \/ reporter = "up"
                \/ \E u \in Updaters : thread[u] \in {"query", "wait"}

\* The handler interrupts main or another thread, perhaps while that logs; main
\* does not while it waits.  While a handler runs on a thread the signal is
\* blocked there.
Sigterm(h) ==
  /\ outcome = "running" /\ main \notin {"parse", "setup"}
  /\ hpc[h] = "none"
  /\ \A g \in Handlers : g < h => hpc[g] # "none"
  /\ hpc' = [hpc EXCEPT ![h] = "stop"]
  /\ \/ on_main = {} /\ on_main' = {h} /\ in_log' \in {in_log, in_log \/ main # "wait"}
     \/ OtherThreads /\ UNCHANGED on_main /\ in_log' \in {in_log, TRUE}
  /\ UNCHANGED <<configVars, mainVars, thread, notified, locked, hat, dangling, outcome>>

\* A component is used; if it has been destroyed that may end the process.
Uses(h, gone) ==
  /\ dangling' = IF gone THEN dangling \cup {h} ELSE dangling
  /\ outcome' \in IF gone THEN {"running", "crashed"} ELSE {"running"}

\* server_->Stop() dereferences metadata_api_server_, which Start() sets.
StopServerUnready(h) ==
  /\ outcome = "running" /\ hpc[h] = "stop"
  /\ api = "null"
  /\ Ends("crashed")

\* A plausible bug: the server is stopped only if there is one, as a fix of the
\* crash might do.
StopServerIfAny(h) ==
  /\ outcome = "running" /\ hpc[h] = "stop" /\ ~in_log
  /\ api' = IF api = "up" THEN "stopped" ELSE api
  /\ Uses(h, api = "gone")
  /\ hpc' = [hpc EXCEPT ![h] = "notify"]
  /\ UNCHANGED <<configVars, main, at, reporter, updater, thread, notified, locked,
                 on_main, hat, in_log>>

\* The server is stopped, which is logged.
StopServerThen(h, next) ==
  /\ outcome = "running" /\ hpc[h] = "stop"
  /\ api # "null"
  /\ api' = IF api = "up" THEN "stopped" ELSE api
  /\ Uses(h, api = "gone")
  /\ hpc' = [hpc EXCEPT ![h] = next]
  /\ UNCHANGED <<configVars, main, at, reporter, updater, thread, notified, locked,
                 on_main, hat, in_log>>

StopServer(h) == ~in_log /\ StopServerThen(h, "notify")

\* The mutex of the log is held by a thread that a handler interrupted, this one
\* or another, and no handler returns.
StopServerBlocks(h) == in_log /\ StopServerThen(h, "blocked")

\* updater->NotifyStop(), one after the other.
NotifyUpdater(h) ==
  /\ outcome = "running" /\ hpc[h] = "notify"
  /\ hat[h] <= NumUpdaters
  /\ notified' = notified \cup {hat[h]}
  /\ Uses(h, updater[hat[h]] = "gone")
  /\ hat' = [hat EXCEPT ![h] = @ + 1]
  /\ UNCHANGED <<configVars, mainVars, thread, locked, hpc, on_main, in_log>>

\* Verbose logging is on, and Cancel logs that it unlocked the timer.
NotifyBlocks(h) ==
  /\ outcome = "running" /\ hpc[h] = "notify" /\ in_log
  /\ hat[h] <= NumUpdaters
  /\ notified' = notified \cup {hat[h]}
  /\ Uses(h, updater[hat[h]] = "gone")
  /\ hpc' = [hpc EXCEPT ![h] = "blocked"]
  /\ UNCHANGED <<configVars, mainVars, thread, locked, on_main, hat, in_log>>

\* A plausible bug: the mutex is unlocked before the updaters are notified.
UnlockEarly(h) ==
  /\ outcome = "running" /\ hpc[h] = "notify"
  /\ locked' = FALSE
  /\ hpc' = [hpc EXCEPT ![h] = IF hat[h] > NumUpdaters THEN "sleep" ELSE "notify"]
  /\ UNCHANGED <<configVars, mainVars, thread, notified, on_main, hat, in_log,
                 dangling, outcome>>

\* server_wait_mutex_.unlock(), by whichever thread it is.
Unlock(h) ==
  /\ outcome = "running" /\ hpc[h] = "notify"
  /\ hat[h] > NumUpdaters
  /\ locked' = FALSE
  /\ hpc' = [hpc EXCEPT ![h] = "sleep"]
  /\ UNCHANGED <<configVars, mainVars, thread, notified, on_main, hat, in_log,
                 dangling, outcome>>

\* A plausible bug: the handler leaves the end of the process to main.
ReturnToMain(h) ==
  /\ outcome = "running" /\ hpc[h] = "sleep"
  /\ on_main' = on_main \ {h}
  /\ UNCHANGED <<configVars, mainVars, thread, notified, locked, hpc, hat, in_log,
                 dangling, outcome>>

\* The notifications have had their time: std::exit(0).
Exit(h) ==
  /\ outcome = "running" /\ hpc[h] = "sleep"
  /\ Ends("exit 0")

--------------------------------------------------------------------------------
\* The threads of the updaters.

QueryEnds(u) ==
  /\ outcome = "running" /\ thread[u] = "query"
  /\ Kind(u) = "poll"
  /\ thread' = [thread EXCEPT ![u] = "wait"]
  /\ UNCHANGED <<configVars, mainVars, notified, locked, handlerVars, dangling, outcome>>

\* The period is over, or the timer was cancelled.
WaitEnds(u) ==
  /\ outcome = "running" /\ thread[u] = "wait"
  /\ thread' = [thread EXCEPT ![u] = IF u \in notified THEN "done" ELSE "query"]
  /\ UNCHANGED <<configVars, mainVars, notified, locked, handlerVars, dangling, outcome>>

\* A watch gives up after repeated failures to connect.
WatchGivesUp(u) ==
  /\ outcome = "running" /\ thread[u] = "query"
  /\ Kind(u) = "watch"
  /\ thread' = [thread EXCEPT ![u] = "done"]
  /\ UNCHANGED <<configVars, mainVars, notified, locked, handlerVars, dangling, outcome>>

--------------------------------------------------------------------------------
StartUp == \/ ParseArgumentsEnds \/ ParseConfigFile \/ Setup \/ StartUpdater
           \/ ValidationFails \/ StartServer \/ StartReporter

TearDown == \/ Wait \/ DestroyReader \/ DestroyUpdater \/ DestroyServer \/ MainReturns

HandlerStep(h) == \/ StopServerUnready(h) \/ StopServer(h) \/ StopServerBlocks(h)
                  \/ NotifyUpdater(h) \/ NotifyBlocks(h) \/ Unlock(h) \/ Exit(h)

Poll(u) == QueryEnds(u) \/ WaitEnds(u)

LifecycleNext ==
  \/ StartUp \/ TearDown \/ DestroyReporter \/ DefaultSigterm
  \/ \E h \in Handlers : Sigterm(h) \/ HandlerStep(h)
  \/ \E u \in Updaters : Poll(u) \/ WatchGivesUp(u)

\* Handlers run unless they block on the log, and so does main once it can go on
\* after its wait.  Nothing is owed of what waits for a server without a timeout:
\* start-up, which validates by queries, the queries of updaters, watches that
\* give up and the end of the reporter; nor are signals.
LifecycleSpec == /\ LifecycleInit /\ [][LifecycleNext]_vars
                 /\ WF_vars(TearDown)
                 /\ \A h \in Handlers : WF_vars(HandlerStep(h))

--------------------------------------------------------------------------------
\* The types of the variables that main, the handlers and the threads share.
LifecycleTypeOK ==
  /\ main \in {"parse", "setup", "start", "wait", "destroy"}
  /\ at \in 0..(NumUpdaters + 1)
  /\ api \in {"null", "up", "stopped", "gone"}
  /\ reporter \in {"null", "up", "gone"}
  /\ updater \in [Updaters -> {"whole", "no reader", "gone"}]
  /\ thread \in [Updaters -> {"none", "query", "wait", "done"}]
  /\ notified \subseteq Updaters
  /\ locked \in BOOLEAN
  /\ hpc \in [Handlers -> {"none", "stop", "notify", "sleep", "blocked"}]
  /\ on_main \subseteq Handlers
  /\ hat \in [Handlers -> 1..(NumUpdaters + 1)]
  /\ in_log \in BOOLEAN
  /\ dangling \subseteq Handlers
  /\ outcome \in {"running", "exit 0", "exit 1", "terminated", "killed", "crashed"}

\* A handler uses the server and the updaters before main destroys them, since
\* it unlocks the mutex last: only a second SIGTERM, handled while the first is
\* past that point, meets components that are gone.
HandlerUsesLiveComponents ==
  \A h \in dangling : \E g \in Handlers \ {h} : hpc[g] = "sleep"

\* No updater is started after it was told to stop, which would go unheard: the
\* server, which the handler stops first, is the last to be started.
NoStartAfterStop ==
  \A u \in notified : Kind(u) # "off" => thread[u] # "none"

\* No handler will get to std::exit: one interrupted a thread that was logging,
\* and each blocks on the log.
Deadlocked == in_log /\ \A h \in Handlers : hpc[h] \in {"none", "blocked"}

\* Once SIGTERM is being handled the process ends, although main may be
\* blocked forever in joining watch threads or the reporter: but for a SIGTERM
\* that interrupted a thread inside LOG.
ShutdownEnds ==
  (\E h \in Handlers : hpc[h] # "none") ~> outcome # "running" \/ Deadlocked
================================================================================
