---------------------------- MODULE PollingUpdater -----------------------------
(***************************************************************************)
(* A polling updater (updater.h, updater.cc) writing to the store: Start   *)
(* with its validations, the polling thread, NotifyStop from the shutdown  *)
(* path and the destructor that joins the thread.  The reporter's purge of *)
(* deleted entries runs at any time.                                       *)
(***************************************************************************)
EXTENDS MetadataStore, Sequences, Integers

CONSTANTS
  Periods,        \* polling periods a configuration may ask for
  IdsOf,          \* local ids a reader gives to a resource
  ResultVectors   \* what one call of query_metadata_ may return

\* struct ResourceMetadata; its ids_ are IdsOf of the resource.
ResourceMetadata == [resource: Resources, metadata: Metadata]

ASSUME UpdaterAssumption ==
  /\ Periods \subseteq Int
  /\ IdsOf \in [Resources -> SUBSET Ids]
  /\ ResultVectors \subseteq Seq(ResourceMetadata)

VARIABLES
  period,        \* period_
  upc,           \* where Start, then the polling thread, stands
  results,       \* result_vector of PollForMetadata
  next,          \* index of the result the loop is at
  timer_locked,  \* timer_
  stopping,      \* ghost: NotifyStop was called after the updater started
  dtor           \* where the destructor stands

updaterVars == <<period, upc, results, next, timer_locked, stopping, dtor>>
vars == <<storeVars, updaterVars>>

T == INSTANCE Timer WITH locked <- timer_locked

\* States in which the polling thread exists and has not returned.
Polling == {"query", "update_resource", "update_metadata", "wait"}

UpdaterInit ==
  /\ StoreInit
  /\ period \in Periods
  /\ upc = "new"
  /\ results = <<>>
  /\ next = 1
  /\ timer_locked = FALSE
  /\ stopping = FALSE
  /\ dtor = "alive"

--------------------------------------------------------------------------------
\* Start, called once by main.

\* ValidateStaticConfiguration throws.
StaticValidationFails ==
  /\ upc = "new" /\ dtor = "alive"
  /\ period < 0
  /\ upc' = "rejected"
  /\ UNCHANGED <<storeVars, period, results, next, timer_locked, stopping, dtor>>

\* ShouldStartUpdater is false: nothing is started.
NotStarted ==
  /\ upc = "new" /\ dtor = "alive"
  /\ period = 0
  /\ upc' = "off"
  /\ UNCHANGED <<storeVars, period, results, next, timer_locked, stopping, dtor>>

\* ValidateDynamicConfiguration, overridden by the readers, throws.
DynamicValidationFails ==
  /\ upc = "new" /\ dtor = "alive"
  /\ period > 0
  /\ upc' = "rejected"
  /\ UNCHANGED <<storeVars, period, results, next, timer_locked, stopping, dtor>>

\* StartUpdater: the timer is locked first, then the thread is created.
StartUpdater ==
  /\ upc = "new" /\ dtor = "alive"
  /\ period > 0
  /\ T!Init
  /\ upc' = "query"
  /\ UNCHANGED <<storeVars, period, results, next, stopping, dtor>>

--------------------------------------------------------------------------------
\* The polling thread: PollForMetadata.

\* A plausible bug: every round initializes the timer again.
QueryReturnsReinitializing(v) ==
  /\ upc = "query"
  /\ results' = v
  /\ upc' = IF v = <<>> THEN "wait" ELSE "update_resource"
  /\ next' = 1
  /\ timer_locked' = TRUE
  /\ UNCHANGED <<storeVars, period, stopping, dtor>>

\* query_metadata_ returned the vector v.
QueryReturns(v) ==
  /\ upc = "query"
  /\ results' = v
  /\ upc' = IF v = <<>> THEN "wait" ELSE "update_resource"
  /\ next' = 1
  /\ UNCHANGED <<storeVars, period, timer_locked, stopping, dtor>>

PollQuery == \E v \in ResultVectors : QueryReturns(v)

\* query_metadata_ threw: nothing catches it on this thread, and the process
\* is terminated.
QueryThrows ==
  /\ upc = "query"
  /\ upc' = "terminated"
  /\ UNCHANGED <<storeVars, period, results, next, timer_locked, stopping, dtor>>

\* A plausible bug: the ids of a result are not registered.
ResourceCallbackSkipped ==
  /\ upc = "update_resource"
  /\ upc' = "update_metadata"
  /\ UNCHANGED <<storeVars, period, results, next, timer_locked, stopping, dtor>>

UpdateResourceCallback ==
  /\ upc = "update_resource"
  /\ UpdateResource(IdsOf[results[next].resource], results[next].resource)
  /\ upc' = "update_metadata"
  /\ UNCHANGED <<period, results, next, timer_locked, stopping, dtor>>

UpdateMetadataCallback ==
  /\ upc = "update_metadata"
  /\ UpdateMetadata(results[next].resource, results[next].metadata)
  /\ next' = next + 1
  /\ upc' = IF next < Len(results) THEN "update_resource" ELSE "wait"
  /\ UNCHANGED <<period, results, timer_locked, stopping, dtor>>

PeriodElapsed ==
  /\ upc = "wait"
  /\ T!WaitTimedOut
  /\ upc' = "query"
  /\ UNCHANGED <<storeVars, period, results, next, stopping, dtor>>

StopPolling ==
  /\ upc = "wait"
  /\ T!WaitCancelled
  /\ upc' = "done"
  /\ UNCHANGED <<storeVars, period, results, next, stopping, dtor>>

--------------------------------------------------------------------------------
\* NotifyStop, from the signal handler.
NotifyStopUpdater ==
  /\ dtor # "destroyed"
  /\ T!Cancel
  /\ stopping' = (stopping \/ upc \in Polling)
  /\ UNCHANGED <<storeVars, period, upc, results, next, dtor>>

\* The destructor starts to join the thread; it does not cancel the timer.
JoinThread ==
  /\ dtor = "alive"
  /\ dtor' = "joining"
  /\ UNCHANGED <<storeVars, period, upc, results, next, timer_locked, stopping>>

\* join() returned, or the thread was never created; ~TimerImpl cancels.
JoinReturns ==
  /\ dtor = "joining"
  /\ upc \notin Polling
  /\ T!Cancel
  /\ dtor' = "destroyed"
  /\ UNCHANGED <<storeVars, period, upc, results, next, stopping>>

\* The reporter purges the shared store.
ReporterPurges == PurgeDeletedEntries /\ UNCHANGED updaterVars

Start == StaticValidationFails \/ NotStarted \/ DynamicValidationFails \/ StartUpdater
\* What the polling thread does on its own: the loop over the results, the wait.
PollLoop == \/ UpdateResourceCallback \/ UpdateMetadataCallback
            \/ PeriodElapsed \/ StopPolling

PollForMetadata == PollQuery \/ QueryThrows \/ PollLoop

\* An exception that main or the thread does not catch ended the process.
Terminated == upc \in {"rejected", "terminated"}

UpdaterNext ==
  /\ ~Terminated
  /\ \/ Start \/ PollForMetadata \/ NotifyStopUpdater
     \/ JoinThread \/ JoinReturns \/ ReporterPurges

\* The polling thread is scheduled by the operating system: when it can step it
\* eventually does, and a wait ends at its deadline.  query_metadata_ need not
\* return: it sends requests without a timeout (docker.cc:204,
\* kubernetes.cc:635).  Nothing makes main start or stop an updater.
UpdaterSpec == UpdaterInit /\ [][UpdaterNext]_vars /\ WF_vars(PollLoop)

--------------------------------------------------------------------------------
UpdaterTypeOK ==
  /\ StoreTypeOK
  /\ period \in Periods
  /\ upc \in Polling \cup {"new", "rejected", "off", "done", "terminated"}
  /\ results \in Seq(ResourceMetadata)
  /\ next \in Nat
  /\ (upc \in {"update_resource", "update_metadata"}) => next \in 1..Len(results)
  /\ timer_locked \in BOOLEAN
  /\ stopping \in BOOLEAN
  /\ dtor \in {"alive", "joining", "destroyed"}

\* Whenever the reporter or the health check can see metadata of a resource,
\* every local id of the resource already resolves: UpdateResourceCallback
\* comes before UpdateMetadataCallback for each result, under separate locks.
StoredIsResolvable ==
  \A r \in Resources :
    metadata_map[r] # None => \A id \in IdsOf[r] : resource_map[id] # None

\* A stop is never lost, whenever it arrives: from the call of NotifyStop on,
\* the timer of a started updater stays unlocked until the thread sees it.
StopIsNeverLost == stopping /\ upc \in Polling => ~timer_locked

\* After NotifyStop no further round of polling begins.
NoQueryAfterStop == [][stopping /\ upc # "query" => upc' # "query"]_vars

\* A stopped updater's thread returns once it is out of its query: it applies
\* the results it has, sees the stop at its wait and polls no more.  A thread
\* inside a query that does not return is joined forever.
StoppedUpdaterFinishes ==
  stopping /\ upc \in Polling \ {"query"} ~> upc = "done"
================================================================================
