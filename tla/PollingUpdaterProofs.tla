-------------------------- MODULE PollingUpdaterProofs -------------------------
(***************************************************************************)
(* A polling updater never loses a stop and registers the ids of every     *)
(* resource before its metadata, for any periods, resources, ids and       *)
(* result vectors.  With the readers as its queries, it has stored all     *)
(* that lasted through a round when it goes to sleep, for any lists and    *)
(* objects and however often these change.                                 *)
(***************************************************************************)
EXTENDS Readers, MetadataStoreProofs, SequenceTheorems, TLAPS

\* Between the two callbacks of a result, the ids of its resource resolve.
CurrentIsResolvable ==
  upc = "update_metadata" =>
    \A id \in IdsOf[results[next].resource] : resource_map[id] # None

\* NotifyStop leaves no trace on an updater that has not been started.
NoStopBeforeStart == upc = "new" => ~stopping

\* The inductive invariant.
UpdaterInv ==
  /\ UpdaterTypeOK
  /\ StoredIsResolvable
  /\ CurrentIsResolvable
  /\ NoStopBeforeStart
  /\ StopIsNeverLost

\* A step of the updater, whatever vector the query returned.
UpdaterStep ==
  [UpdaterNext]_vars \/ \E v \in Seq(ResourceMetadata) : QueryReturns(v)

\* One call of query_metadata_ or of the callbacks works on a valid index.
LEMMA CurrentResult ==
  ASSUME UpdaterTypeOK, upc \in {"update_resource", "update_metadata"}
  PROVE  /\ results[next].resource \in Resources
         /\ results[next].metadata \in Metadata
         /\ IdsOf[results[next].resource] \in SUBSET Ids
<1>1. results \in Seq(ResourceMetadata) /\ next \in 1..Len(results)
  BY DEF UpdaterTypeOK
<1>2. results[next] \in ResourceMetadata
  BY <1>1
<1> QED
  BY <1>2, UpdaterAssumption DEF ResourceMetadata

--------------------------------------------------------------------------------
\* Every step of the updater is a step of the store or leaves it alone.
LEMMA UpdaterStepIsStoreStep ==
  ASSUME UpdaterTypeOK, UpdaterStep
  PROVE  [StoreNext]_storeVars
<1>1. CASE UpdateResourceCallback
  BY <1>1, CurrentResult DEF UpdateResourceCallback, StoreNext
<1>2. CASE UpdateMetadataCallback
  BY <1>2, CurrentResult DEF UpdateMetadataCallback, StoreNext
<1>3. CASE ReporterPurges
  BY <1>3 DEF ReporterPurges, StoreNext
<1>4. ASSUME ~UpdateResourceCallback, ~UpdateMetadataCallback, ~ReporterPurges
      PROVE  UNCHANGED storeVars
  BY <1>4 DEF UpdaterStep, UpdaterNext, Start, PollForMetadata, PollLoop, StaticValidationFails,
              NotStarted, DynamicValidationFails, StartUpdater, PollQuery,
              QueryReturns, QueryThrows, PeriodElapsed, StopPolling, NotifyStopUpdater, JoinThread,
              JoinReturns, vars
<1> QED
  BY <1>1, <1>2, <1>3, <1>4

\* Steps that leave the store and the results alone.
LEMMA ControlSteps ==
  ASSUME UpdaterInv,
         \/ Start \/ QueryThrows \/ PeriodElapsed \/ StopPolling \/ NotifyStopUpdater
         \/ JoinThread \/ JoinReturns \/ UNCHANGED vars
  PROVE  UpdaterInv'
<1> USE DEF UpdaterInv, UpdaterTypeOK, StoreTypeOK, StoredIsResolvable,
            CurrentIsResolvable, NoStopBeforeStart, StopIsNeverLost, Polling, storeVars, T!Init,
            T!WaitTimedOut, T!WaitCancelled, T!Cancel
<1>1. CASE StaticValidationFails
  BY <1>1 DEF StaticValidationFails
<1>2. CASE NotStarted
  BY <1>2 DEF NotStarted
<1>3. CASE DynamicValidationFails
  BY <1>3 DEF DynamicValidationFails
<1>4. CASE StartUpdater
  BY <1>4 DEF StartUpdater
<1>5. CASE PeriodElapsed
  BY <1>5 DEF PeriodElapsed
<1>6. CASE StopPolling
  BY <1>6 DEF StopPolling
<1>7. CASE NotifyStopUpdater
  BY <1>7 DEF NotifyStopUpdater
<1>8. CASE JoinThread
  BY <1>8 DEF JoinThread
<1>9. CASE JoinReturns
  BY <1>9 DEF JoinReturns
<1>10. CASE UNCHANGED vars
  BY <1>10 DEF vars, updaterVars
<1>11. CASE QueryThrows
  BY <1>11 DEF QueryThrows
<1> QED
  BY <1>1, <1>2, <1>3, <1>4, <1>5, <1>6, <1>7, <1>8, <1>9, <1>10, <1>11
     DEF Start

\* QueryReturns: a new vector, of which nothing is applied yet.
LEMMA QueryReturnsStep ==
  ASSUME UpdaterInv, NEW v \in Seq(ResourceMetadata), QueryReturns(v)
  PROVE  UpdaterInv'
<1>1. /\ results' = v
      /\ upc' = IF v = <<>> THEN "wait" ELSE "update_resource"
  BY DEF QueryReturns
<1>2. v # <<>> => 1 \in 1..Len(v)
  OBVIOUS
<1>3. UpdaterTypeOK'
  BY <1>1, <1>2
     DEF QueryReturns, UpdaterInv, UpdaterTypeOK, StoreTypeOK, storeVars, Polling
<1>4. StoredIsResolvable' /\ CurrentIsResolvable'
  BY <1>1 DEF QueryReturns, UpdaterInv, StoredIsResolvable, CurrentIsResolvable,
              storeVars
<1>5. NoStopBeforeStart' /\ StopIsNeverLost'
  BY <1>1 DEF QueryReturns, UpdaterInv, NoStopBeforeStart, StopIsNeverLost, Polling
<1> QED
  BY <1>3, <1>4, <1>5 DEF UpdaterInv

\* UpdateResourceCallback: the ids of the result now resolve, and no id that
\* resolved before stops resolving.
LEMMA UpdateResourceCallbackStep ==
  ASSUME UpdaterInv, StoreTypeOK', UpdateResourceCallback
  PROVE  UpdaterInv'
<1> DEFINE r == results[next].resource
<1>1. r \in Resources /\ IdsOf[r] \in SUBSET Ids
  BY CurrentResult DEF UpdateResourceCallback, UpdaterInv
<1>2. /\ upc = "update_resource" /\ upc' = "update_metadata"
      /\ UpdateResource(IdsOf[r], r)
      /\ UNCHANGED <<period, results, next, timer_locked, stopping, dtor>>
  BY DEF UpdateResourceCallback
<1>3. /\ metadata_map' = metadata_map
      /\ \A id \in Ids : resource_map[id] # None => resource_map'[id] # None
      /\ \A id \in IdsOf[r] : resource_map'[id] # None
  BY <1>1, <1>2, NoneAssumption DEF UpdateResource
<1>4. UpdaterTypeOK'
  BY <1>2 DEF UpdaterInv, UpdaterTypeOK, Polling
<1>5. StoredIsResolvable'
  <2>1. \A s \in Resources : IdsOf[s] \subseteq Ids
    BY UpdaterAssumption
  <2> QED
    BY <1>3, <2>1 DEF UpdaterInv, StoredIsResolvable
<1>6. CurrentIsResolvable'
  BY <1>2, <1>3 DEF CurrentIsResolvable
<1>7. NoStopBeforeStart' /\ StopIsNeverLost'
  BY <1>2 DEF UpdaterInv, NoStopBeforeStart, StopIsNeverLost, Polling
<1> QED
  BY <1>4, <1>5, <1>6, <1>7 DEF UpdaterInv

\* UpdateMetadataCallback: the one entry that may appear belongs to a resource
\* whose ids resolve.
LEMMA UpdateMetadataCallbackStep ==
  ASSUME UpdaterInv, StoreTypeOK', UpdateMetadataCallback
  PROVE  UpdaterInv'
<1> DEFINE r == results[next].resource
           m == results[next].metadata
<1>1. r \in Resources /\ m \in Metadata
  BY CurrentResult DEF UpdateMetadataCallback, UpdaterInv
<1>2. /\ upc = "update_metadata"
      /\ UpdateMetadata(r, m)
      /\ next' = next + 1
      /\ upc' = IF next < Len(results) THEN "update_resource" ELSE "wait"
      /\ UNCHANGED <<period, results, timer_locked, stopping, dtor>>
  BY DEF UpdateMetadataCallback
<1>3. /\ resource_map' = resource_map
      /\ \A s \in Resources : s # r => metadata_map'[s] = metadata_map[s]
  BY <1>1, <1>2 DEF UpdateMetadata, ReplaceEntry, storeVars, UpdaterInv,
                    UpdaterTypeOK, StoreTypeOK
<1>4. UpdaterTypeOK'
  <2>1. next \in 1..Len(results) /\ Len(results) \in Nat
    BY <1>2 DEF UpdaterInv, UpdaterTypeOK
  <2>2. next' \in Nat /\ (next < Len(results) => next' \in 1..Len(results))
    BY <1>2, <2>1
  <2> QED
    BY <1>2, <2>2 DEF UpdaterInv, UpdaterTypeOK, Polling
<1>5. StoredIsResolvable'
  BY <1>2, <1>3 DEF UpdaterInv, StoredIsResolvable, CurrentIsResolvable
<1>6. CurrentIsResolvable'
  BY <1>2 DEF CurrentIsResolvable
<1>7. NoStopBeforeStart' /\ StopIsNeverLost'
  BY <1>2 DEF UpdaterInv, NoStopBeforeStart, StopIsNeverLost, Polling
<1> QED
  BY <1>4, <1>5, <1>6, <1>7 DEF UpdaterInv

\* The reporter's purge takes entries away and leaves the ids.
LEMMA ReporterPurgesStep ==
  ASSUME UpdaterInv, StoreTypeOK', ReporterPurges
  PROVE  UpdaterInv'
BY DEF ReporterPurges, PurgeDeletedEntries, updaterVars, UpdaterInv,
       UpdaterTypeOK, StoredIsResolvable, CurrentIsResolvable,
       NoStopBeforeStart, StopIsNeverLost

\* Nothing is stored or stopped yet in the constructor (updater.cc:56-66).
LEMMA UpdaterStarts ==
  ASSUME UpdaterInit
  PROVE  UpdaterInv /\ StoreInv
<1>1. StoreInv
  <2>1. StoreInit
    BY DEF UpdaterInit
  <2> QED
    BY <2>1 DEF StoreInit, StoreInv, StoreTypeOK, CollectionTimesCoverEntries
<1>2. UpdaterTypeOK
  <2>1. results \in Seq(ResourceMetadata)
    BY DEF UpdaterInit
  <2>2. StoreTypeOK /\ period \in Periods
    BY <1>1 DEF StoreInv, UpdaterInit
  <2>3. /\ upc = "new" /\ next = 1 /\ dtor = "alive"
        /\ timer_locked \in BOOLEAN /\ stopping \in BOOLEAN
    BY DEF UpdaterInit
  <2> QED
    BY <2>1, <2>2, <2>3 DEF UpdaterTypeOK, Polling
<1>3. /\ StoredIsResolvable /\ CurrentIsResolvable
      /\ NoStopBeforeStart /\ StopIsNeverLost
  <2>1. \A r \in Resources : metadata_map[r] = None
    BY DEF UpdaterInit, StoreInit
  <2> QED
    BY <2>1 DEF UpdaterInit, StoredIsResolvable, CurrentIsResolvable,
                NoStopBeforeStart, StopIsNeverLost
<1> QED
  BY <1>1, <1>2, <1>3 DEF UpdaterInv

\* Start, every statement of PollForMetadata, NotifyStop, the destructor and
\* the purge keep the invariant.
LEMMA UpdaterKeepsInv ==
  ASSUME UpdaterInv, StoreInv, UpdaterStep
  PROVE  UpdaterInv' /\ StoreInv'
<1>1. [StoreNext]_storeVars
  BY UpdaterStepIsStoreStep DEF UpdaterInv
<1>2. StoreInv'
  BY <1>1, StoreStep
<1>3. StoreTypeOK'
  BY <1>2 DEF StoreInv
<1>4. PollQuery => \E v \in Seq(ResourceMetadata) : QueryReturns(v)
  BY UpdaterAssumption DEF PollQuery
<1> QED
  BY <1>2, <1>3, <1>4, ControlSteps, QueryReturnsStep, UpdateResourceCallbackStep,
     UpdateMetadataCallbackStep, ReporterPurgesStep
     DEF UpdaterStep, UpdaterNext, PollForMetadata, PollLoop

\* A round begins with Start or with a wait that timed out, and a stop rules
\* out both (updater.cc:87-103).
LEMMA NoRoundBegins ==
  ASSUME UpdaterInv, UpdaterStep, stopping, upc # "query"
  PROVE  upc' # "query"
<1>1. upc = "new" => FALSE
  BY DEF UpdaterInv, NoStopBeforeStart
<1>2. upc = "wait" => ~timer_locked
  BY DEF UpdaterInv, StopIsNeverLost, Polling
<1> QED
  BY <1>1, <1>2
     DEF UpdaterStep, UpdaterNext, Start, PollForMetadata, PollLoop, StaticValidationFails,
         NotStarted, DynamicValidationFails, StartUpdater, PollQuery,
         QueryReturns, QueryThrows, UpdateResourceCallback, UpdateMetadataCallback,
         PeriodElapsed, StopPolling, NotifyStopUpdater, JoinThread, JoinReturns,
         ReporterPurges, vars, updaterVars, T!WaitTimedOut

\* The invariant holds initially and every step keeps it.
THEOREM UpdaterInvariant == UpdaterSpec => [](UpdaterInv /\ StoreInv)
<1>1. UpdaterInit => UpdaterInv /\ StoreInv
  BY UpdaterStarts
<1>2. UpdaterInv /\ StoreInv /\ [UpdaterNext]_vars => UpdaterInv' /\ StoreInv'
  BY UpdaterKeepsInv DEF UpdaterStep
<1> QED
  BY <1>1, <1>2, PTL DEF UpdaterSpec

\* The updater with the purging reporter implements the store's specification.
THEOREM UpdaterImplementsStore == UpdaterSpec => StoreSpec
<1>1. UpdaterInit => StoreInit
  BY DEF UpdaterInit
<1>2. UpdaterInv /\ [UpdaterNext]_vars => [StoreNext]_storeVars
  BY UpdaterStepIsStoreStep DEF UpdaterInv, UpdaterStep
<1> QED
  BY <1>1, <1>2, UpdaterInvariant, PTL DEF UpdaterSpec, StoreSpec

\* The updater's variables (updater.h:168-178) have their types and the loop
\* over the result vector stays inside it.
THEOREM UpdaterTypeCorrect == UpdaterSpec => []UpdaterTypeOK
<1>1. UpdaterInv => UpdaterTypeOK
  BY DEF UpdaterInv
<1> QED
  BY <1>1, UpdaterInvariant, PTL

\* Metadata of a resource is visible only when its ids resolve
\* (updater.cc:99-102).
THEOREM StoredResourcesResolve == UpdaterSpec => []StoredIsResolvable
<1>1. UpdaterInv => StoredIsResolvable
  BY DEF UpdaterInv
<1> QED
  BY <1>1, UpdaterInvariant, PTL

\* NotifyStop is seen by the next Wait, whenever it comes (updater.cc:87-103).
THEOREM StopsAreNeverLost == UpdaterSpec => []StopIsNeverLost
<1>1. UpdaterInv => StopIsNeverLost
  BY DEF UpdaterInv
<1> QED
  BY <1>1, UpdaterInvariant, PTL

\* No round of polling begins after NotifyStop.
THEOREM NoQueriesAfterStop == UpdaterSpec => NoQueryAfterStop
<1>1. ASSUME UpdaterInv, [UpdaterNext]_vars
      PROVE  [stopping /\ upc # "query" => upc' # "query"]_vars
  BY <1>1, NoRoundBegins DEF UpdaterStep
<1> QED
  BY <1>1, UpdaterInvariant, PTL DEF UpdaterSpec, NoQueryAfterStop

--------------------------------------------------------------------------------
\* The readers.

\* An instance reader has no lists, nothing has been listed before Start, and
\* what is pending comes from a list.
IdleInv ==
  /\ reader = "instance" => list = 1 /\ pending = None /\ built = <<>> /\ lasting = {}
  /\ upc = "new" => lasting = {}
  /\ pending # None => list <= Len(Lists[reader])

\* Objects that exist at the same time have no id in common, so no two of them
\* become the same resource.
WorldInv ==
  \A o, p \in Objects :
    o # p /\ world[o] # "absent" /\ world[p] # "absent" => ObjectIds(o) \cap ObjectIds(p) = {}

\* An object that lasts exists, and did when the list at hand was fetched: what
\* is left of this list shares no id with it.
LastingInv ==
  /\ \A o \in lasting : world[o] # "absent"
  /\ pending # None => \A o \in lasting, p \in pending :
                         o # p => ObjectIds(o) \cap ObjectIds(p) = {}

\* An entry says of o what the world does.
RightMark(entry, o) ==
  \/ reader = "docker_ids"
  \/ entry.ignore = FALSE /\ entry.is_deleted = (world[o] = "dead")

\* Result "at" of v is one for r, and neither it nor a later one for r
\* contradicts o.
Announces(v, at, o, r) ==
  /\ v[at].resource = r
  /\ \A j \in 1..Len(v) : at <= j /\ v[j].resource = r => RightMark(v[j].metadata, o)

\* What RoundIsComplete says of one resource of o.
InStore(o, r) ==
  /\ \A id \in IdsOf[r] : resource_map[id] # None
  /\ \/ reader = "docker_ids"
     \/ metadata_map[r] # None /\ metadata_map[r].is_deleted = (world[o] = "dead")
     \/ world[o] = "dead" /\ metadata_map[r] = None

\* What RoundIsComplete speaks of.
Kept == lasting \ cut_off

\* While the query runs, what lasts has its turn to come or its results made.
AnnouncedInv ==
  upc = "query" =>
    \A o \in Kept :
      \/ pending # None /\ o \in pending
      \/ \A k \in DOMAIN Yields[o] :
           \E at \in 1..Len(built) : Announces(built, at, o, Yields[o][k])

\* While the loop applies the results, what it has passed is in the store.
AppliedInv ==
  upc \in {"update_resource", "update_metadata", "wait"} =>
    \A o \in Kept : \A k \in DOMAIN Yields[o] :
      \E at \in 1..Len(results) :
        /\ Announces(results, at, o, Yields[o][k])
        /\ at < next => InStore(o, Yields[o][k])

\* The thread sleeps only when the loop has passed all results.
SleepsAtTheEnd == upc = "wait" => \A at \in 1..Len(results) : at < next

\* The inductive invariant.
ReaderInv ==
  /\ StoreInv
  /\ UpdaterInv
  /\ ReaderTypeOK
  /\ IdleInv
  /\ WorldInv
  /\ LastingInv
  /\ AnnouncedInv
  /\ AppliedInv
  /\ SleepsAtTheEnd

\* MetadataQuery makes well-formed results: one for each resource of the object
\* (docker.cc:144, kubernetes.cc:158, 277, 379).
LEMMA ResultsType ==
  ASSUME ReaderTypeOK, NEW o \in Objects
  PROVE  /\ Results(o) \in Seq(ResourceMetadata)
         /\ Len(Results(o)) = Len(Yields[o])
         /\ \A k \in 1..Len(Yields[o]) :
              /\ Yields[o][k] \in Resources
              /\ Results(o)[k].resource = Yields[o][k]
              /\ Results(o)[k].metadata = Entry(o)
<1>1. Yields[o] \in Seq(Resources) /\ o \in Payloads
  BY ReaderAssumption
<1>2. Entry(o) \in Metadata
  BY <1>1, StoreAssumption DEF ReaderTypeOK, Entry, IGNORED, Metadata
<1>3. \A k \in DOMAIN Yields[o] : Yields[o][k] \in Resources
  BY <1>1
<1>4. Results(o) \in [1..Len(Yields[o]) -> ResourceMetadata]
  BY <1>1, <1>2, <1>3 DEF Results, ResourceMetadata
<1>5. Len(Yields[o]) \in Nat /\ DOMAIN Yields[o] = 1..Len(Yields[o])
  BY <1>1
<1>6. Results(o) \in Seq(ResourceMetadata) /\ Len(Results(o)) = Len(Yields[o])
  BY <1>4, <1>5
<1>7. \A k \in 1..Len(Yields[o]) :
        /\ Results(o)[k].resource = Yields[o][k]
        /\ Results(o)[k].metadata = Entry(o)
  BY <1>5 DEF Results
<1> QED
  BY <1>3, <1>5, <1>6, <1>7

\* The entry that is made of an object says what the world does.
LEMMA EntryIsRight ==
  ASSUME NEW o
  PROVE  RightMark(Entry(o), o)
BY DEF RightMark, Entry

\* Every step of the updater with its readers is one of the updater, for some
\* result of the query (updater.cc:87-103).
LEMMA ReaderStepIsUpdaterStep ==
  ASSUME ReaderTypeOK, [ReaderNext]_allVars
  PROVE  UpdaterStep
<1>1. CASE \/ UNCHANGED allVars \/ ListFetched \/ ListFails \/ ListDone
           \/ ValidationSucceeds \/ ValidationRetried
           \/ \E o \in Objects : ObjectBuilt(o) \/ ObjectSkipped(o) \/ NodeFails(o)
           \/ \E o \in ListObjects : Appears(o) \/ Dies(o) \/ Disappears(o)
  <2>1. UNCHANGED vars
    BY <1>1 DEF allVars, ListFetched, ListFails, ListDone, ValidationSucceeds,
                ValidationRetried, ObjectBuilt, ObjectSkipped, NodeFails, Appears, Dies, Disappears,
                WorldChanges
  <2> QED
    BY <2>1 DEF UpdaterStep
<1>2. CASE InstanceQuery /\ ~Terminated
  <2>1. <<[resource |-> Host, metadata |-> IGNORED]>> \in Seq(ResourceMetadata)
    BY ReaderAssumption, StoreAssumption DEF IGNORED, ResourceMetadata, Metadata
  <2> QED
    BY <1>2, <2>1 DEF InstanceQuery, UpdaterStep, UpdaterNext, PollForMetadata,
                         PollLoop
<1>3. CASE QueryDone
  <2>1. built \in Seq(ResourceMetadata)
    BY DEF ReaderTypeOK
  <2> QED
    BY <1>3, <2>1 DEF QueryDone, UpdaterStep
<1>4. CASE /\ ~Terminated
           /\ \/ ValidationFails \/ NoCurrentNode \/ Validated
              \/ (\E o \in Objects : NoInstance(o) \/ UnknownOwnerKind(o))
              \/ BrokenResponse
              \/ NextRound \/ UpdateResourceCallback \/ UpdateMetadataCallback
              \/ StopPolling \/ Others
  BY <1>4 DEF ValidationFails, NoCurrentNode, Validated, NoInstance, UnknownOwnerKind, BrokenResponse, NextRound, Others,
              UpdaterStep, UpdaterNext, Start, PollForMetadata, PollLoop
<1> QED
  BY <1>1, <1>2, <1>3, <1>4
     DEF ReaderNext, Thread, OwnSteps, MetadataQuery, ValidateDynamicConfiguration

\* Steps that leave the readers' variables alone; none leads into a query but
\* Start, and out of one lead exceptions and the instance's result.
QuietStep ==
  /\ UNCHANGED readerVars
  /\ \/ upc' = upc \/ upc' = "terminated"
     \/ upc = "query" /\ reader = "instance"
     \/ upc' # "query" /\ upc \notin {"query", "terminated"}
     \/ upc = "new" /\ upc' = "query"
  /\ upc' = "new" => upc = "new"

\* The actions of PollingUpdater that Readers takes over are quiet.
LEMMA QuietActions ==
  ASSUME \/ ValidationFails \/ NoCurrentNode \/ Validated \/ InstanceQuery
         \/ (\E o \in Objects : NoInstance(o) \/ UnknownOwnerKind(o)) \/ BrokenResponse
         \/ (UpdateResourceCallback \/ UpdateMetadataCallback \/ StopPolling)
              /\ UNCHANGED readerVars
         \/ Others
         \/ UNCHANGED allVars
  PROVE  QuietStep
<1>1. CASE ValidationFails \/ NoCurrentNode \/ Validated
  BY <1>1 DEF ValidationFails, NoCurrentNode, Validated, DynamicValidationFails,
              StartUpdater, QuietStep
<1>2. CASE \/ InstanceQuery \/ BrokenResponse
           \/ \E o \in Objects : NoInstance(o) \/ UnknownOwnerKind(o)
  BY <1>2 DEF InstanceQuery, NoInstance, UnknownOwnerKind, BrokenResponse, QueryReturns, QueryThrows, QuietStep
<1>3. CASE (UpdateResourceCallback \/ UpdateMetadataCallback \/ StopPolling)
             /\ UNCHANGED readerVars
  BY <1>3 DEF UpdateResourceCallback, UpdateMetadataCallback, StopPolling, QuietStep
<1>4. CASE Others
  BY <1>4 DEF Others, StaticValidationFails, NotStarted, NotifyStopUpdater, JoinThread,
              JoinReturns, ReporterPurges, updaterVars, QuietStep
<1>5. CASE UNCHANGED allVars
  BY <1>5 DEF allVars, vars, updaterVars, QuietStep
<1> QED
  BY <1>1, <1>2, <1>3, <1>4, <1>5

\* Quiet steps keep the types.
LEMMA QuietTypes ==
  ASSUME ReaderTypeOK, IdleInv, UpdaterTypeOK', QuietStep
  PROVE  ReaderTypeOK' /\ IdleInv'
<1>1. UNCHANGED <<reader, world, changes, validation, attempts, list, pending,
                  collected, built, lasting, cut_off>>
  BY DEF QuietStep, readerVars
<1>2. upc' \notin {"query", "terminated"} => list = 1 /\ pending = None /\ built = <<>>
  <2>1. CASE upc \notin {"query", "terminated"}
    BY <2>1 DEF ReaderTypeOK
  <2>2. CASE reader = "instance"
    BY <2>2 DEF IdleInv
  <2> QED
    BY <2>1, <2>2 DEF QuietStep
<1>3. ReaderTypeOK'
  BY <1>1, <1>2 DEF ReaderTypeOK
<1>4. IdleInv'
  BY <1>1 DEF IdleInv, QuietStep
<1> QED
  BY <1>3, <1>4

\* Objects come and go and Start validates (docker.cc:67-76,
\* kubernetes.cc:1115-1160): the types stay.
LEMMA WorldTypes ==
  ASSUME ReaderTypeOK, IdleInv, UpdaterTypeOK',
         \/ ValidationSucceeds \/ ValidationRetried
         \/ \E o \in ListObjects : Appears(o) \/ Dies(o) \/ Disappears(o)
  PROVE  ReaderTypeOK' /\ IdleInv'
<1>1. upc' = upc
  BY DEF ValidationSucceeds, ValidationRetried, Appears, Dies, Disappears, WorldChanges,
         vars, updaterVars
<1>2. CASE ValidationSucceeds
  <2>1. Validations \in {0, 1, 2}
    BY ReaderAssumption DEF ReaderTypeOK, Validations, Docker
  <2>2. validation' \in 1..3
    BY <1>2, <2>1 DEF ValidationSucceeds, Validating, ReaderTypeOK
  <2>3. attempts' \in 0..(RetryLimit - 1)
    BY <1>2, ReaderAssumption DEF ValidationSucceeds
  <2>4. UNCHANGED <<reader, world, changes, list, pending, collected, built, lasting, cut_off>>
    BY <1>2 DEF ValidationSucceeds, queryVars
  <2> QED
    BY <1>1, <2>2, <2>3, <2>4 DEF ReaderTypeOK, IdleInv
<1>3. CASE ValidationRetried
  <2>1. attempts' \in 0..(RetryLimit - 1)
    BY <1>3, ReaderAssumption DEF ValidationRetried, ReaderTypeOK
  <2>2. UNCHANGED <<reader, world, changes, validation, list, pending, collected, built,
                    lasting, cut_off>>
    BY <1>3 DEF ValidationRetried, queryVars
  <2> QED
    BY <1>1, <2>1, <2>2 DEF ReaderTypeOK, IdleInv
<1>4. ASSUME NEW o, NEW state \in {"absent", "active", "dead"}, WorldChanges(o, state)
      PROVE  ReaderTypeOK' /\ IdleInv'
  <2>1. changes' \in 0..MaxChanges
    BY <1>4, ReaderAssumption DEF WorldChanges, ReaderTypeOK
  <2>2. world' \in [Objects -> {"absent", "active", "dead"}]
    BY <1>4 DEF WorldChanges, ReaderTypeOK
  <2>3. UNCHANGED <<reader, validation, attempts, list, pending, collected, built, cut_off>>
    BY <1>4 DEF WorldChanges
  <2>4. lasting' \subseteq lasting
    BY <1>4 DEF WorldChanges
  <2>5. ReaderTypeOK'
    BY <1>1, <2>1, <2>2, <2>3, <2>4 DEF ReaderTypeOK
  <2>6. IdleInv'
    BY <1>1, <2>3, <2>4 DEF IdleInv
  <2> QED
    BY <2>5, <2>6
<1> QED
  BY <1>2, <1>3, <1>4 DEF Appears, Dies, Disappears

\* The query goes through its lists and objects (docker.cc:161-197,
\* kubernetes.cc:514-630): the types stay, and nothing is left at its end.
LEMMA QueryTypes ==
  ASSUME ReaderTypeOK, IdleInv, UpdaterTypeOK',
         \/ ListFetched \/ ListFails \/ ListDone \/ QueryDone \/ NextRound
         \/ \E o \in Objects : ObjectBuilt(o) \/ ObjectSkipped(o) \/ NodeFails(o)
  PROVE  ReaderTypeOK' /\ IdleInv'
<1>0. Lists[reader] \in Seq(SUBSET Objects) /\ Len(Lists[reader]) \in Nat
  BY ReaderAssumption DEF ReaderTypeOK
<1>1. CASE ListFetched
  <2>1. /\ upc = "query" /\ upc' = "query" /\ reader # "instance"
        /\ list <= Len(Lists[reader])
    BY <1>1 DEF ListFetched, AtList, vars, updaterVars
  <2>2. Lists[reader][list] \in SUBSET Objects
    BY <1>0, <1>1 DEF ListFetched, AtList, ReaderTypeOK
  <2>3. pending' \in SUBSET Objects /\ lasting' \in SUBSET Objects /\ collected' \in Times
    BY <1>1, <2>2 DEF ListFetched, Existing, ReaderTypeOK
  <2>4. UNCHANGED <<reader, world, changes, validation, attempts, list, built, cut_off>>
    BY <1>1 DEF ListFetched
  <2>5. ReaderTypeOK'
    BY <2>1, <2>3, <2>4 DEF ReaderTypeOK
  <2> QED
    BY <2>1, <2>4, <2>5 DEF IdleInv
<1>2. CASE ListFails \/ ListDone
  <2>1. upc = "query" /\ upc' = "query"
    BY <1>2 DEF ListFails, ListDone, AtList, AtObject, vars, updaterVars
  <2>2. list <= Len(Lists[reader])
    <3>1. CASE ListFails
      BY <3>1 DEF ListFails, AtList
    <3>2. CASE ListDone
      BY <3>2 DEF ListDone, AtObject, IdleInv
    <3> QED
      BY <1>2, <3>1, <3>2
  <2>3. list' \in 1..(Len(Lists[reader]) + 1)
    BY <1>0, <1>2, <2>2 DEF ListFails, ListDone, ReaderTypeOK
  <2>4. pending' = None
    BY <1>2 DEF ListFails, ListDone, AtList
  <2>5. UNCHANGED <<reader, world, changes, validation, attempts, collected, built, lasting, cut_off>>
    BY <1>2 DEF ListFails, ListDone
  <2>6. reader # "instance"
    BY <1>2 DEF ListFails, ListDone, AtList, AtObject, IdleInv
  <2> QED
    BY <2>1, <2>3, <2>4, <2>5, <2>6 DEF ReaderTypeOK, IdleInv
<1>3. CASE QueryDone
  <2>1. list' = 1 /\ pending' = None /\ built' = <<>> /\ reader # "instance"
    BY <1>3 DEF QueryDone
  <2>2. UNCHANGED <<reader, world, changes, validation, attempts, collected, lasting, cut_off>>
    BY <1>3 DEF QueryDone
  <2>3. upc' # "new"
    BY <1>3 DEF QueryDone, QueryReturns
  <2>4. list' \in 1..(Len(Lists[reader]) + 1) /\ built' \in Seq(ResourceMetadata)
    BY <1>0, <2>1
  <2> QED
    BY <2>1, <2>2, <2>3, <2>4 DEF ReaderTypeOK, IdleInv
<1>4. CASE NextRound
  <2>1. upc' = "query" /\ lasting' = {} /\ cut_off' = {}
    BY <1>4 DEF NextRound, PeriodElapsed
  <2>2. UNCHANGED <<reader, world, changes, validation, attempts, list, pending, collected,
                    built>>
    BY <1>4 DEF NextRound
  <2> QED
    BY <2>1, <2>2 DEF ReaderTypeOK, IdleInv
<1>5. ASSUME NEW o \in Objects, ObjectBuilt(o) \/ ObjectSkipped(o) \/ NodeFails(o)
      PROVE  ReaderTypeOK' /\ IdleInv'
  <2>1. upc = "query" /\ upc' = "query" /\ pending # None /\ reader # "instance"
    BY <1>5 DEF ObjectBuilt, ObjectSkipped, NodeFails, AtObject, vars, updaterVars, IdleInv
  <2>2. UNCHANGED <<reader, world, changes, validation, attempts, list, collected>>
    BY <1>5 DEF ObjectBuilt, ObjectSkipped, NodeFails
  <2>3. /\ pending' \in SUBSET Objects /\ lasting' \in SUBSET Objects
        /\ cut_off' \in SUBSET Objects
    BY <1>5, <2>1 DEF ObjectBuilt, ObjectSkipped, NodeFails, ReaderTypeOK
  <2>4. built' \in Seq(ResourceMetadata)
    <3>1. built \in Seq(ResourceMetadata) /\ Results(o) \in Seq(ResourceMetadata)
      BY ResultsType DEF ReaderTypeOK
    <3>2. built \o Results(o) \in Seq(ResourceMetadata)
      BY <3>1, ConcatProperties
    <3> QED
      BY <1>5, <3>1, <3>2 DEF ObjectBuilt, ObjectSkipped, NodeFails
  <2>5. list <= Len(Lists[reader])
    BY <2>1 DEF IdleInv
  <2> QED
    BY <2>1, <2>2, <2>3, <2>4, <2>5 DEF ReaderTypeOK, IdleInv
<1> QED
  BY <1>1, <1>2, <1>3, <1>4, <1>5

--------------------------------------------------------------------------------
\* What the steps of the readers do to the objects: they leave them alone, or
\* one object changes, which then no longer lasts.
LEMMA ObjectsChangeOneByOne ==
  ASSUME ReaderTypeOK, [ReaderNext]_allVars
  PROVE  /\ reader' = reader
         /\ \A o \in Objects : o \in lasting' => world'[o] = world[o]
         /\ \/ world' = world
            \/ \E o \in ListObjects : Appears(o) \/ Dies(o) \/ Disappears(o)
<1>1. CASE \E o \in ListObjects : Appears(o) \/ Dies(o) \/ Disappears(o)
  BY <1>1 DEF Appears, Dies, Disappears, WorldChanges, ReaderTypeOK
<1>2. ASSUME ~(\E o \in ListObjects : Appears(o) \/ Dies(o) \/ Disappears(o))
      PROVE  world' = world /\ reader' = reader
  <2>1. CASE QuietStep
    BY <2>1 DEF QuietStep, readerVars
  <2>2. CASE \/ ListFetched \/ ListFails \/ ListDone \/ QueryDone \/ NextRound
             \/ (\E o \in Objects : ObjectBuilt(o) \/ ObjectSkipped(o) \/ NodeFails(o))
             \/ ValidationSucceeds \/ ValidationRetried
    BY <2>2 DEF ListFetched, ListFails, ListDone, QueryDone, NextRound, ObjectBuilt,
                ObjectSkipped, NodeFails, ValidationSucceeds, ValidationRetried
  <2> QED
    BY <1>2, <2>1, <2>2, QuietActions
       DEF ReaderNext, Thread, OwnSteps, MetadataQuery, ValidateDynamicConfiguration
<1> QED
  BY <1>1, <1>2

\* An object that appears has no id of an object that exists.
LEMMA WorldStep ==
  ASSUME ReaderTypeOK, WorldInv, [ReaderNext]_allVars
  PROVE  WorldInv'
<1>1. CASE world' = world
  BY <1>1 DEF WorldInv
<1>2. ASSUME NEW o \in ListObjects, Appears(o)
      PROVE  WorldInv'
  <2>1. world' = [world EXCEPT ![o] = "active"]
    BY <1>2 DEF Appears, WorldChanges
  <2>2. \A p \in Objects : world[p] # "absent" => ObjectIds(o) \cap ObjectIds(p) = {}
    BY <1>2 DEF Appears, Existing
  <2>3. \A p \in Objects : p # o => world'[p] = world[p]
    BY <2>1 DEF ReaderTypeOK
  <2> QED
    BY <2>2, <2>3 DEF WorldInv
<1>3. ASSUME NEW o \in ListObjects, Dies(o) \/ Disappears(o)
      PROVE  WorldInv'
  <2>1. world[o] # "absent" /\ \A p \in Objects : p # o => world'[p] = world[p]
    BY <1>3 DEF Dies, Disappears, WorldChanges, ReaderTypeOK
  <2> QED
    BY <2>1 DEF WorldInv
<1> QED
  BY <1>1, <1>2, <1>3, ObjectsChangeOneByOne

\* When a list is fetched, all that lasts and all that is listed exists; after
\* that both only lose objects.
LEMMA LastingStep ==
  ASSUME ReaderTypeOK, WorldInv, LastingInv, [ReaderNext]_allVars
  PROVE  LastingInv'
<1>1. CASE ListFetched
  <2>1. /\ lasting' = lasting \cup pending'
        /\ pending' = Existing(Lists[reader][list])
        /\ world' = world
    BY <1>1 DEF ListFetched
  <2>2. Lists[reader][list] \in SUBSET Objects
    BY <1>1, ReaderAssumption DEF ListFetched, AtList, ReaderTypeOK
  <2>3. pending' \subseteq Objects /\ \A o \in pending' : world[o] # "absent"
    BY <2>1, <2>2 DEF Existing
  <2>4. lasting' \subseteq Objects /\ \A o \in lasting' : world[o] # "absent"
    BY <2>1, <2>3 DEF LastingInv, ReaderTypeOK
  <2> QED
    BY <2>1, <2>3, <2>4 DEF WorldInv, LastingInv
<1>2. ASSUME ~ListFetched
      PROVE  /\ lasting' \subseteq lasting
             /\ pending' # None => pending # None /\ pending' \subseteq pending
  <2>1. CASE QuietStep
    BY <2>1 DEF QuietStep, readerVars
  <2>2. CASE \/ ListFails \/ ListDone \/ QueryDone \/ NextRound
             \/ ValidationSucceeds \/ ValidationRetried
    BY <2>2 DEF ListFails, ListDone, QueryDone, NextRound, ValidationSucceeds,
                ValidationRetried, queryVars
  <2>3. ASSUME NEW o \in Objects, ObjectBuilt(o) \/ ObjectSkipped(o) \/ NodeFails(o)
        PROVE  /\ lasting' \subseteq lasting
               /\ pending # None /\ pending' \subseteq pending
    BY <2>3 DEF ObjectBuilt, ObjectSkipped, NodeFails, AtObject
  <2>4. CASE \E o \in ListObjects : Appears(o) \/ Dies(o) \/ Disappears(o)
    BY <2>4 DEF Appears, Dies, Disappears, WorldChanges
  <2> QED
    BY <1>2, <2>1, <2>2, <2>3, <2>4, QuietActions
       DEF ReaderNext, Thread, OwnSteps, MetadataQuery, ValidateDynamicConfiguration
<1>3. ASSUME ~ListFetched
      PROVE  LastingInv'
  <2>1. \A o \in lasting' : world'[o] # "absent"
    BY <1>2, <1>3, ObjectsChangeOneByOne DEF LastingInv, ReaderTypeOK
  <2> QED
    BY <1>2, <1>3, <2>1 DEF LastingInv
<1> QED
  BY <1>1, <1>3

--------------------------------------------------------------------------------
\* Resources of objects without a common id differ: every result has an id.
LEMMA NoCommonResource ==
  ASSUME NEW o \in Objects, NEW p \in Objects, ObjectIds(o) \cap ObjectIds(p) = {},
         NEW k \in DOMAIN Yields[o], NEW l \in DOMAIN Yields[p]
  PROVE  Yields[o][k] # Yields[p][l]
<1>1. PICK id \in IdsOf[Yields[o][k]] : TRUE
  BY ReaderAssumption
<1>2. id \in ObjectIds(o)
  BY <1>1 DEF ObjectIds
<1>3. Yields[o][k] = Yields[p][l] => id \in ObjectIds(p)
  BY <1>1 DEF ObjectIds
<1> QED
  BY <1>2, <1>3

\* Another object's results, appended to the vector (docker.cc:182-187), do not
\* contradict what was announced of an object without a common id.
LEMMA StaysAnnounced ==
  ASSUME ReaderTypeOK, NEW o \in Objects, NEW p \in Objects,
         ObjectIds(o) \cap ObjectIds(p) = {}, NEW k \in DOMAIN Yields[o],
         NEW at \in 1..Len(built), Announces(built, at, o, Yields[o][k])
  PROVE  /\ at \in 1..Len(built \o Results(p))
         /\ Announces(built \o Results(p), at, o, Yields[o][k])
<1> DEFINE w == Results(p)
           r == Yields[o][k]
<1>1. built \in Seq(ResourceMetadata) /\ w \in Seq(ResourceMetadata)
  BY ResultsType DEF ReaderTypeOK
<1>2. \A l \in 1..Len(w) : w[l].resource # r
  <2> SUFFICES ASSUME NEW l \in 1..Len(w) PROVE w[l].resource # r
    OBVIOUS
  <2>1. Len(w) = Len(Yields[p]) /\ w[l].resource = Yields[p][l]
    BY ResultsType
  <2>2. l \in DOMAIN Yields[p]
    BY <2>1, ReaderAssumption
  <2> QED
    BY <2>1, <2>2, NoCommonResource
<1> HIDE DEF w, r
<1>3. /\ Len(built \o w) = Len(built) + Len(w)
      /\ Len(built) \in Nat /\ Len(w) \in Nat
      /\ \A j \in 1..(Len(built) + Len(w)) :
           (built \o w)[j] = IF j <= Len(built) THEN built[j] ELSE w[j - Len(built)]
  BY <1>1, ConcatProperties
<1>4. Announces(built, at, o, r)
  BY DEF r
<1>5. at \in 1..Len(built \o w) /\ (built \o w)[at] = built[at]
  BY <1>3
<1>6. ASSUME NEW j \in 1..Len(built \o w), at <= j, (built \o w)[j].resource = r
      PROVE  RightMark((built \o w)[j].metadata, o)
  <2>1. CASE j <= Len(built)
    <3>1. (built \o w)[j] = built[j] /\ j \in 1..Len(built)
      BY <1>3, <2>1
    <3> QED
      BY <1>4, <1>6, <3>1 DEF Announces
  <2>2. CASE ~(j <= Len(built))
    <3>1. (built \o w)[j] = w[j - Len(built)] /\ j - Len(built) \in 1..Len(w)
      BY <1>3, <2>2
    <3> QED
      BY <1>2, <1>6, <3>1
  <2> QED
    BY <2>1, <2>2
<1>7. Announces(built \o w, at, o, r)
  BY <1>4, <1>5, <1>6 DEF Announces
<1> QED
  BY <1>5, <1>7 DEF w, r

\* An object's own results announce each of its resources.
LEMMA IsAnnounced ==
  ASSUME ReaderTypeOK, NEW o \in Objects, NEW k \in DOMAIN Yields[o]
  PROVE  \E at \in 1..Len(built \o Results(o)) :
           Announces(built \o Results(o), at, o, Yields[o][k])
<1> DEFINE w == Results(o)
           r == Yields[o][k]
           at == Len(built) + k
<1>1. /\ built \in Seq(ResourceMetadata) /\ w \in Seq(ResourceMetadata)
      /\ k \in 1..Len(w)
  BY ResultsType, ReaderAssumption DEF ReaderTypeOK
<1>2. w[k].resource = r /\ \A l \in 1..Len(w) : w[l].metadata = Entry(o)
  BY <1>1, ResultsType
<1>3. RightMark(Entry(o), o)
  BY EntryIsRight
<1> HIDE DEF w, r
<1>4. /\ Len(built \o w) = Len(built) + Len(w)
      /\ Len(built) \in Nat /\ Len(w) \in Nat
      /\ \A j \in 1..(Len(built) + Len(w)) :
           (built \o w)[j] = IF j <= Len(built) THEN built[j] ELSE w[j - Len(built)]
  BY <1>1, ConcatProperties
<1>5. at \in 1..Len(built \o w) /\ (built \o w)[at] = w[k]
  BY <1>1, <1>4
<1>6. ASSUME NEW j \in 1..Len(built \o w), at <= j
      PROVE  RightMark((built \o w)[j].metadata, o)
  <2>1. (built \o w)[j] = w[j - Len(built)] /\ j - Len(built) \in 1..Len(w)
    BY <1>1, <1>4, <1>6
  <2> QED
    BY <1>2, <1>3, <2>1
<1>7. Announces(built \o w, at, o, r)
  BY <1>2, <1>5, <1>6 DEF Announces
<1> QED
  BY <1>5, <1>7 DEF w, r

\* An announcement depends on the vector and the state of its object alone.
LEMMA AnnouncesStable ==
  ASSUME NEW v, NEW at, NEW o, NEW r, Announces(v, at, o, r),
         reader' = reader, world'[o] = world[o]
  PROVE  /\ v = built' => Announces(built, at, o, r)'
         /\ v = results' => Announces(results, at, o, r)'
BY DEF Announces, RightMark

\* While the query runs, an object that lasts stays listed or announced.
LEMMA AnnouncedFrame ==
  ASSUME ReaderTypeOK, AnnouncedInv, [ReaderNext]_allVars,
         upc' = "query" => upc = "query",
         built' = built, Kept' \subseteq Kept,
         \A o \in Kept' : pending # None /\ o \in pending
                               => pending' # None /\ o \in pending'
  PROVE  AnnouncedInv'
<1> SUFFICES ASSUME upc' = "query", NEW o \in Kept', ~(pending' # None /\ o \in pending'),
                    NEW k \in DOMAIN Yields[o]
             PROVE  \E at \in 1..Len(built') : Announces(built, at, o, Yields[o][k])'
  BY DEF AnnouncedInv
<1>1. PICK at \in 1..Len(built) : Announces(built, at, o, Yields[o][k])
  BY DEF AnnouncedInv
<1>2. reader' = reader /\ world'[o] = world[o]
  BY ObjectsChangeOneByOne DEF ReaderTypeOK, Kept
<1> QED
  BY <1>1, <1>2, AnnouncesStable

\* MetadataQuery loses no object that lasts: it is listed, then built or, if
\* that fails, no longer counted (docker.cc:161-197, kubernetes.cc:514-630).
LEMMA AnnouncedStep ==
  ASSUME ReaderInv, [ReaderNext]_allVars
  PROVE  AnnouncedInv'
<1> USE DEF ReaderInv
<1>0. /\ reader' = reader
      /\ lasting \subseteq Objects
      /\ \A o \in Objects : o \in lasting' => world'[o] = world[o]
  BY ObjectsChangeOneByOne DEF ReaderTypeOK
<1>1. CASE ListFetched
  <2>1. /\ upc = "query" /\ pending = None /\ built' = built
        /\ lasting' = lasting \cup pending' /\ world' = world /\ cut_off' = cut_off
    BY <1>1 DEF ListFetched, AtList
  <2>2. pending' # None
    <3>1. Lists[reader][list] \in SUBSET Objects
      BY <1>1, ReaderAssumption DEF ListFetched, AtList, ReaderTypeOK
    <3>2. pending' \in SUBSET Objects
      BY <1>1, <3>1 DEF ListFetched, Existing
    <3> QED
      BY <3>2, ReaderAssumption
  <2> SUFFICES ASSUME NEW o \in Kept, NEW k \in DOMAIN Yields[o]
               PROVE  \E at \in 1..Len(built') : Announces(built, at, o, Yields[o][k])'
    BY <2>1, <2>2 DEF AnnouncedInv, Kept
  <2>3. PICK at \in 1..Len(built) : Announces(built, at, o, Yields[o][k])
    BY <2>1 DEF AnnouncedInv
  <2> QED
    BY <1>0, <2>1, <2>3, AnnouncesStable DEF Kept
<1>2. ASSUME NEW p \in Objects, ObjectBuilt(p)
      PROVE  AnnouncedInv'
  <2>1. /\ upc = "query" /\ pending # None /\ p \in pending
        /\ built' = built \o Results(p) /\ pending' = pending \ {p}
        /\ lasting' = lasting /\ world' = world /\ cut_off' = cut_off
    BY <1>2 DEF ObjectBuilt, AtObject
  <2>2. pending' # None
    BY <2>1, ReaderAssumption DEF ReaderTypeOK
  <2> SUFFICES ASSUME NEW o \in Kept, ~(o \in pending'), NEW k \in DOMAIN Yields[o]
               PROVE  \E at \in 1..Len(built') : Announces(built, at, o, Yields[o][k])'
    BY <2>1, <2>2 DEF AnnouncedInv, Kept
  <2>3. \E at \in 1..Len(built \o Results(p)) :
          Announces(built \o Results(p), at, o, Yields[o][k])
    <3>1. CASE o = p
      BY <1>0, <3>1, IsAnnounced DEF Kept
    <3>2. CASE o # p
      <4>1. PICK at \in 1..Len(built) : Announces(built, at, o, Yields[o][k])
        BY <2>1, <3>2 DEF AnnouncedInv
      <4>2. ObjectIds(o) \cap ObjectIds(p) = {}
        BY <2>1, <3>2 DEF LastingInv, Kept
      <4> QED
        BY <1>0, <4>1, <4>2, StaysAnnounced DEF Kept
    <3> QED
      BY <3>1, <3>2
  <2>4. PICK at \in 1..Len(built \o Results(p)) :
          Announces(built \o Results(p), at, o, Yields[o][k])
    BY <2>3
  <2> QED
    BY <1>0, <2>1, <2>4, AnnouncesStable DEF Kept
<1>3. ASSUME NEW p \in Objects, ObjectSkipped(p) \/ NodeFails(p)
      PROVE  AnnouncedInv'
  <2>1. /\ upc = "query" /\ pending # None /\ built' = built
        /\ Kept' \subseteq Kept
    BY <1>3 DEF ObjectSkipped, NodeFails, AtObject, Kept
  <2>2. pending' \in SUBSET Objects /\ \A o \in Kept' : o \in pending => o \in pending'
    BY <1>3, <2>1 DEF ObjectSkipped, NodeFails, ReaderTypeOK, Kept
  <2>3. pending' # None
    BY <2>2, ReaderAssumption
  <2> QED
    BY <2>1, <2>2, <2>3, AnnouncedFrame
<1>4. CASE \/ ListFails \/ ListDone \/ ValidationSucceeds \/ ValidationRetried
           \/ \E o \in ListObjects : Appears(o) \/ Dies(o) \/ Disappears(o)
  <2>1. upc' = upc /\ built' = built /\ Kept' \subseteq Kept
    BY <1>4 DEF ListFails, ListDone, ValidationSucceeds, ValidationRetried, Appears, Dies,
                Disappears, WorldChanges, queryVars, vars, updaterVars, Kept
  <2>2. \/ pending' = pending
        \/ pending = None
        \/ pending = {}
    BY <1>4 DEF ListFails, ListDone, ValidationSucceeds, ValidationRetried, Appears, Dies,
                Disappears, WorldChanges, queryVars
  <2> QED
    BY <2>1, <2>2, AnnouncedFrame
<1>5. CASE QueryDone \/ NextRound
  BY <1>5 DEF QueryDone, QueryReturns, NextRound, AnnouncedInv, Kept
<1>6. CASE QuietStep
  <2>1. UNCHANGED <<pending, built, lasting, cut_off>>
    BY <1>6 DEF QuietStep, readerVars
  <2>2. CASE upc = "new"
    BY <2>1, <2>2 DEF IdleInv, AnnouncedInv, Kept
  <2>3. CASE upc # "new"
    BY <1>6, <2>1, <2>3, AnnouncedFrame DEF QuietStep, Kept
  <2> QED
    BY <2>2, <2>3
<1> QED
  BY <1>1, <1>2, <1>3, <1>4, <1>5, <1>6, QuietActions
     DEF ReaderNext, Thread, OwnSteps, MetadataQuery, ValidateDynamicConfiguration

--------------------------------------------------------------------------------
\* What is in the store stays there: ids are never removed (store.cc:46) and a
\* purge takes only what is marked as deleted (store.cc:98).
LEMMA StaysInStore ==
  ASSUME StoreInv, [StoreNext]_storeVars, NEW o, NEW r \in Resources,
         reader' = reader, world'[o] = world[o],
         metadata_map'[r] = metadata_map[r] \/ PurgeDeletedEntries,
         InStore(o, r)
  PROVE  InStore(o, r)'
<1>1. \A id \in IdsOf[r] : resource_map'[id] # None
  <2> SUFFICES ASSUME NEW id \in IdsOf[r] PROVE resource_map'[id] # None
    OBVIOUS
  <2>1. id \in Ids /\ resource_map[id] # None
    BY UpdaterAssumption DEF InStore
  <2> QED
    BY <2>1, MappingsStay
<1>2. CASE metadata_map'[r] = metadata_map[r]
  BY <1>1, <1>2 DEF InStore
<1>3. CASE PurgeDeletedEntries
  <2>1. metadata_map'[r] = IF metadata_map[r] # None /\ metadata_map[r].is_deleted
                           THEN None ELSE metadata_map[r]
    BY <1>3 DEF PurgeDeletedEntries
  <2>2. CASE metadata_map[r] # None /\ metadata_map[r].is_deleted
    <3>1. metadata_map'[r] = None
      BY <2>1, <2>2
    <3>2. reader = "docker_ids" \/ world[o] = "dead"
      BY <2>2 DEF InStore
    <3> QED
      BY <1>1, <3>1, <3>2 DEF InStore
  <2>3. CASE ~(metadata_map[r] # None /\ metadata_map[r].is_deleted)
    BY <1>1, <2>1, <2>3 DEF InStore
  <2> QED
    BY <2>2, <2>3
<1> QED
  BY <1>2, <1>3

\* Steps that leave the results and the place in the loop alone.
LEMMA AppliedFrame ==
  ASSUME ReaderInv, [ReaderNext]_allVars, [StoreNext]_storeVars,
         upc' \in {"update_resource", "update_metadata", "wait"}
           => upc \in {"update_resource", "update_metadata", "wait"},
         results' = results, next' = next, Kept' \subseteq Kept,
         UNCHANGED metadata_map \/ PurgeDeletedEntries
  PROVE  AppliedInv'
<1> SUFFICES ASSUME upc \in {"update_resource", "update_metadata", "wait"},
                    NEW o \in Kept', NEW k \in DOMAIN Yields[o]
             PROVE  \E at \in 1..Len(results') :
                      /\ Announces(results, at, o, Yields[o][k])'
                      /\ at < next' => InStore(o, Yields[o][k])'
  BY DEF AppliedInv
<1>1. o \in Objects /\ reader' = reader /\ world'[o] = world[o]
  BY ObjectsChangeOneByOne DEF ReaderInv, ReaderTypeOK, Kept
<1>2. Yields[o][k] \in Resources
  BY <1>1, ReaderAssumption
<1>3. PICK at \in 1..Len(results) :
        /\ Announces(results, at, o, Yields[o][k])
        /\ at < next => InStore(o, Yields[o][k])
  BY DEF ReaderInv, AppliedInv
<1>4. Announces(results, at, o, Yields[o][k])'
  BY <1>1, <1>3, AnnouncesStable
<1>5. at < next' => InStore(o, Yields[o][k])'
  BY <1>1, <1>2, <1>3, StaysInStore DEF ReaderInv
<1> QED
  BY <1>3, <1>4, <1>5

\* MetadataQuery returns all that lasts (docker.cc:196, kubernetes.cc:629).
LEMMA QueryDoneApplies ==
  ASSUME ReaderInv, [ReaderNext]_allVars, QueryDone
  PROVE  AppliedInv'
<1>1. /\ upc = "query" /\ results' = built /\ next' = 1 /\ pending = None
      /\ lasting' = lasting /\ cut_off' = cut_off
  BY DEF QueryDone, QueryReturns
<1> SUFFICES ASSUME NEW o \in Kept, NEW k \in DOMAIN Yields[o]
             PROVE  \E at \in 1..Len(results') :
                      /\ Announces(results, at, o, Yields[o][k])'
                      /\ at < next' => InStore(o, Yields[o][k])'
  BY <1>1 DEF AppliedInv, Kept
<1>2. reader' = reader /\ world'[o] = world[o]
  BY <1>1, ObjectsChangeOneByOne DEF ReaderInv, ReaderTypeOK, Kept
<1>3. PICK at \in 1..Len(built) : Announces(built, at, o, Yields[o][k])
  BY <1>1 DEF ReaderInv, AnnouncedInv
<1>4. Announces(results, at, o, Yields[o][k])'
  BY <1>1, <1>2, <1>3, AnnouncesStable
<1>5. ~(at < next')
  BY <1>1
<1> QED
  BY <1>1, <1>4, <1>5

\* The loop stores the result it is at (updater.cc:99-102); a later result for
\* the same resource says the same of the object.
LEMMA UpdateMetadataApplies ==
  ASSUME ReaderInv, [ReaderNext]_allVars, [StoreNext]_storeVars,
         UpdateMetadataCallback, UNCHANGED readerVars
  PROVE  AppliedInv'
<1> DEFINE s == results[next].resource
           m == results[next].metadata
<1>1. /\ upc = "update_metadata" /\ UpdateMetadata(s, m)
      /\ results' = results /\ next' = next + 1 /\ lasting' = lasting /\ cut_off' = cut_off
      /\ world' = world /\ reader' = reader
  BY DEF UpdateMetadataCallback, readerVars
<1>2. /\ s \in Resources /\ m \in Metadata
      /\ next \in 1..Len(results) /\ Len(results) \in Nat
  BY <1>1, CurrentResult DEF ReaderInv, ReaderTypeOK, UpdaterTypeOK
<1>3. \A id \in IdsOf[s] : resource_map[id] # None
  BY <1>1 DEF ReaderInv, UpdaterInv, CurrentIsResolvable
<1> HIDE DEF s, m
<1> SUFFICES ASSUME NEW o \in Kept, NEW k \in DOMAIN Yields[o]
             PROVE  \E at \in 1..Len(results') :
                      /\ Announces(results, at, o, Yields[o][k])'
                      /\ at < next' => InStore(o, Yields[o][k])'
  BY <1>1 DEF AppliedInv, Kept
<1> DEFINE r == Yields[o][k]
<1>4. r \in Resources
  BY ReaderAssumption DEF ReaderInv, ReaderTypeOK, Kept
<1>5. PICK at \in 1..Len(results) :
        /\ Announces(results, at, o, r)
        /\ at < next => InStore(o, r)
  BY <1>1 DEF ReaderInv, AppliedInv
<1> HIDE DEF r
<1>6. Announces(results, at, o, r)'
  BY <1>1, <1>5, AnnouncesStable
<1>7. ASSUME s = r, at <= next
      PROVE  InStore(o, r)'
  <2>1. RightMark(m, o)
    BY <1>2, <1>5, <1>7 DEF Announces, s, m
  <2>2. resource_map' = resource_map
    BY <1>1 DEF UpdateMetadata, ReplaceEntry, storeVars
  <2>3. CASE reader = "docker_ids"
    BY <1>1, <1>3, <1>7, <2>2, <2>3 DEF InStore
  <2>4. CASE reader # "docker_ids"
    <3>1. m.ignore = FALSE /\ m.is_deleted = (world[o] = "dead")
      BY <2>1, <2>4 DEF RightMark
    <3>2. metadata_map' = [metadata_map EXCEPT ![s] = m]
      BY <1>1, <3>1 DEF UpdateMetadata, ReplaceEntry
    <3>3. metadata_map'[r] = m
      BY <1>2, <1>7, <3>2 DEF ReaderInv, StoreInv, StoreTypeOK
    <3>4. m # None
      BY <1>2, NoneAssumption DEF Metadata
    <3> QED
      BY <1>1, <1>3, <1>7, <2>2, <3>1, <3>3, <3>4 DEF InStore
  <2> QED
    BY <2>3, <2>4
<1>8. ASSUME s # r, at < next
      PROVE  InStore(o, r)'
  <2>1. metadata_map'[r] = metadata_map[r]
    BY <1>1, <1>2, <1>4, <1>8
       DEF UpdateMetadata, ReplaceEntry, storeVars, ReaderInv, StoreInv, StoreTypeOK
  <2> QED
    BY <1>1, <1>4, <1>5, <1>8, <2>1, StaysInStore DEF ReaderInv
<1>9. at = next => s = r
  BY <1>5 DEF Announces, s
<1>10. at < next' => at < next \/ at = next
  BY <1>1, <1>2
<1>11. at < next' => InStore(o, r)'
  BY <1>2, <1>7, <1>8, <1>9, <1>10
<1> QED
  BY <1>1, <1>6, <1>11 DEF r

\* Every step keeps what the loop has passed in the store.
LEMMA AppliedStep ==
  ASSUME ReaderInv, [ReaderNext]_allVars, [StoreNext]_storeVars
  PROVE  AppliedInv'
<1>1. CASE InstanceQuery
  <2>1. lasting' = {}
    BY <1>1 DEF InstanceQuery, readerVars, ReaderInv, IdleInv
  <2> QED
    BY <2>1 DEF AppliedInv, Kept
<1>2. CASE QueryDone
  BY <1>2, QueryDoneApplies
<1>3. CASE UpdateMetadataCallback /\ UNCHANGED readerVars
  BY <1>3, UpdateMetadataApplies
<1>4. CASE UpdateResourceCallback /\ UNCHANGED readerVars
  <2>1. /\ upc = "update_resource" /\ results' = results /\ next' = next
        /\ lasting' = lasting /\ cut_off' = cut_off /\ metadata_map' = metadata_map
    BY <1>4 DEF UpdateResourceCallback, UpdateResource, readerVars
  <2> QED
    BY <2>1, AppliedFrame DEF Kept
<1>5. CASE \/ ListFetched \/ ListFails \/ ListDone \/ NextRound \/ BrokenResponse
           \/ ValidationFails \/ NoCurrentNode \/ Validated
           \/ \E o \in Objects : ObjectBuilt(o) \/ ObjectSkipped(o) \/ NodeFails(o) \/ NoInstance(o) \/ UnknownOwnerKind(o)
  <2>1. upc' \in {"query", "rejected", "terminated"}
    BY <1>5 DEF ListFetched, ListFails, ListDone, NextRound, ValidationFails, NoCurrentNode,
                Validated, ObjectBuilt, ObjectSkipped, NodeFails, NoInstance,
                UnknownOwnerKind, BrokenResponse, PeriodElapsed, AtList,
                AtObject, DynamicValidationFails, StartUpdater, QueryThrows, vars, updaterVars
  <2> QED
    BY <2>1 DEF AppliedInv, Kept
<1>6. CASE \/ ValidationSucceeds \/ ValidationRetried
           \/ StopPolling /\ UNCHANGED readerVars
           \/ Others
           \/ UNCHANGED allVars
           \/ \E o \in ListObjects : Appears(o) \/ Dies(o) \/ Disappears(o)
  <2>1. /\ results' = results /\ next' = next
        /\ upc' \in {"update_resource", "update_metadata", "wait"} => upc' = upc
        /\ UNCHANGED metadata_map \/ PurgeDeletedEntries
    BY <1>6 DEF ValidationSucceeds, ValidationRetried, StopPolling, Others, Appears, Dies,
                Disappears, WorldChanges, StaticValidationFails, NotStarted,
                NotifyStopUpdater, JoinThread, JoinReturns, ReporterPurges, allVars, vars,
                updaterVars, storeVars
  <2>2. Kept' \subseteq Kept
    BY <1>6 DEF ValidationSucceeds, ValidationRetried, StopPolling, Others, Appears, Dies,
                Disappears, WorldChanges, queryVars, readerVars, allVars, Kept
  <2> QED
    BY <2>1, <2>2, AppliedFrame
<1> QED
  BY <1>1, <1>2, <1>3, <1>4, <1>5, <1>6
     DEF ReaderNext, Thread, OwnSteps, MetadataQuery, ValidateDynamicConfiguration

\* The loop over the vector is left at its end (updater.cc:99-102).
LEMMA SleepsStep ==
  ASSUME UpdaterTypeOK, SleepsAtTheEnd, UpdaterStep
  PROVE  SleepsAtTheEnd'
<1>1. ASSUME NEW v \in Seq(ResourceMetadata), QueryReturns(v)
      PROVE  SleepsAtTheEnd'
  <2>1. upc' = "wait" => results' = <<>>
    BY <1>1 DEF QueryReturns
  <2> QED
    BY <2>1 DEF SleepsAtTheEnd
<1>2. CASE UpdateMetadataCallback
  <2>1. /\ next \in 1..Len(results) /\ Len(results) \in Nat
        /\ results' = results /\ next' = next + 1
        /\ upc' = "wait" => ~(next < Len(results))
    BY <1>2 DEF UpdateMetadataCallback, UpdaterTypeOK
  <2> QED
    BY <2>1 DEF SleepsAtTheEnd
<1>3. ASSUME \/ Start \/ QueryThrows \/ UpdateResourceCallback \/ PeriodElapsed
             \/ StopPolling \/ NotifyStopUpdater \/ JoinThread \/ JoinReturns
             \/ ReporterPurges \/ UNCHANGED vars
      PROVE  SleepsAtTheEnd'
  <2>1. results' = results /\ next' = next /\ (upc' = "wait" => upc = "wait")
    BY <1>3 DEF Start, StaticValidationFails, NotStarted, DynamicValidationFails,
                StartUpdater, QueryThrows, UpdateResourceCallback, PeriodElapsed,
                StopPolling, NotifyStopUpdater, JoinThread, JoinReturns, ReporterPurges,
                vars, updaterVars
  <2> QED
    BY <2>1 DEF SleepsAtTheEnd
<1>4. PollQuery => \E v \in Seq(ResourceMetadata) : QueryReturns(v)
  BY UpdaterAssumption DEF PollQuery
<1> QED
  BY <1>1, <1>2, <1>3, <1>4 DEF UpdaterStep, UpdaterNext, PollForMetadata, PollLoop

\* Every step of the updater with its readers keeps the invariant.
LEMMA ReaderStep ==
  ASSUME ReaderInv, [ReaderNext]_allVars
  PROVE  ReaderInv'
<1>1. UpdaterStep
  BY ReaderStepIsUpdaterStep DEF ReaderInv
<1>2. [StoreNext]_storeVars
  BY <1>1, UpdaterStepIsStoreStep DEF ReaderInv, UpdaterInv
<1>3. UpdaterInv' /\ StoreInv' /\ UpdaterTypeOK'
  BY <1>1, UpdaterKeepsInv DEF ReaderInv, UpdaterInv
<1>4. ReaderTypeOK' /\ IdleInv'
  BY <1>3, QuietActions, QuietTypes, WorldTypes, QueryTypes
     DEF ReaderInv, ReaderNext, Thread, OwnSteps, MetadataQuery, ValidateDynamicConfiguration
<1>5. WorldInv' /\ LastingInv'
  BY WorldStep, LastingStep DEF ReaderInv
<1>6. AnnouncedInv' /\ AppliedInv'
  BY <1>2, AnnouncedStep, AppliedStep
<1>7. SleepsAtTheEnd'
  BY <1>1, SleepsStep DEF ReaderInv, UpdaterInv
<1> QED
  BY <1>3, <1>4, <1>5, <1>6, <1>7 DEF ReaderInv

\* Before Start nothing exists and nothing is listed.
LEMMA ReaderStarts ==
  ASSUME ReaderInit
  PROVE  ReaderInv
<1>1. UpdaterInv /\ StoreInv /\ upc = "new"
  BY UpdaterStarts DEF ReaderInit, UpdaterInit
<1>2. /\ reader \in Kinds /\ changes = 0 /\ validation = 1 /\ attempts = 0
      /\ list = 1 /\ pending = None /\ collected = 0 /\ built = <<>> /\ lasting = {}
      /\ cut_off = {} /\ world = [o \in Objects |-> "absent"]
  BY DEF ReaderInit
<1>3. Len(Lists[reader]) \in Nat
  BY <1>2, ReaderAssumption
<1>4. ReaderTypeOK
  <2>1. UpdaterTypeOK /\ built \in Seq(ResourceMetadata) /\ collected \in Times
    BY <1>1, <1>2, StoreAssumption DEF UpdaterInv
  <2>2. world \in [Objects -> {"absent", "active", "dead"}]
    BY <1>2
  <2> QED
    BY <1>1, <1>2, <1>3, <2>1, <2>2, ReaderAssumption DEF ReaderTypeOK
<1>5. IdleInv /\ WorldInv /\ LastingInv
  BY <1>2 DEF IdleInv, WorldInv, LastingInv
<1>6. AnnouncedInv /\ AppliedInv /\ SleepsAtTheEnd
  BY <1>1 DEF AnnouncedInv, AppliedInv, SleepsAtTheEnd
<1> QED
  BY <1>1, <1>4, <1>5, <1>6 DEF ReaderInv

\* The invariant of the updater with its readers.
THEOREM ReaderInvariant == ReaderSpec => []ReaderInv
<1>1. ReaderInit => ReaderInv
  BY ReaderStarts
<1>2. ReaderInv /\ [ReaderNext]_allVars => ReaderInv'
  BY ReaderStep
<1> QED
  BY <1>1, <1>2, PTL DEF ReaderSpec

\* The readers' variables have their types, and between two rounds nothing of a
\* query is left (docker.cc:161-197, kubernetes.cc:514-630).
THEOREM ReaderTypeCorrect == ReaderSpec => []ReaderTypeOK
<1>1. ReaderInv => ReaderTypeOK
  BY DEF ReaderInv
<1> QED
  BY <1>1, ReaderInvariant, PTL

\* When the thread goes to sleep (updater.cc:103), every object that neither
\* changed nor failed in the round, and is no node behind one that failed
\* (kubernetes.cc:549-553), is in the store, with its ids and the right deletion
\* mark.
THEOREM RoundsAreComplete == ReaderSpec => []RoundIsComplete
<1>1. ReaderInv => RoundIsComplete
  <2> SUFFICES ASSUME ReaderInv, upc = "wait", NEW o \in Kept, NEW k \in DOMAIN Yields[o]
               PROVE  InStore(o, Yields[o][k])
    BY DEF RoundIsComplete, InStore, Kept
  <2>1. PICK at \in 1..Len(results) : at < next => InStore(o, Yields[o][k])
    BY DEF ReaderInv, AppliedInv
  <2>2. at < next
    BY DEF ReaderInv, SleepsAtTheEnd
  <2> QED
    BY <2>1, <2>2
<1> QED
  BY <1>1, ReaderInvariant, PTL

\* The updater with its readers takes no step that the updater alone could not:
\* the safety part of UpdaterSpec, for an updater whose queries may return any
\* vector.
THEOREM ReadersImplementUpdater ==
  ResultVectors = Seq(ResourceMetadata)
    => (ReaderSpec => UpdaterInit /\ [][UpdaterNext]_vars)
<1> SUFFICES ASSUME ResultVectors = Seq(ResourceMetadata)
             PROVE  ReaderSpec => UpdaterInit /\ [][UpdaterNext]_vars
  OBVIOUS
<1>1. ReaderInit => UpdaterInit
  BY DEF ReaderInit
<1>2. ASSUME ReaderInv, [ReaderNext]_allVars
      PROVE  [UpdaterNext]_vars
  <2>1. UpdaterStep
    BY <1>2, ReaderStepIsUpdaterStep DEF ReaderInv
  <2>2. ASSUME NEW v \in Seq(ResourceMetadata), QueryReturns(v)
        PROVE  UpdaterNext
    BY <2>2 DEF QueryReturns, UpdaterNext, PollForMetadata, PollQuery, Terminated
  <2> QED
    BY <2>1, <2>2 DEF UpdaterStep
<1> QED
  BY <1>1, <1>2, ReaderInvariant, PTL DEF ReaderSpec

\* With the readers, too, metadata is visible only when its ids resolve, and a
\* stop is seen by the next wait (updater.cc:87-103).
THEOREM ReadersKeepUpdaterSafe ==
  ReaderSpec => /\ []StoredIsResolvable
                /\ []StopIsNeverLost
                /\ NoQueryAfterStop
<1>1. ReaderInv => StoredIsResolvable /\ StopIsNeverLost
  BY DEF ReaderInv, UpdaterInv
<1>2. ASSUME ReaderInv, [ReaderNext]_allVars
      PROVE  [stopping /\ upc # "query" => upc' # "query"]_vars
  <2>1. UpdaterStep
    BY <1>2, ReaderStepIsUpdaterStep DEF ReaderInv
  <2> QED
    BY <1>2, <2>1, NoRoundBegins DEF ReaderInv
<1> QED
  BY <1>1, <1>2, ReaderInvariant, PTL DEF ReaderSpec, NoQueryAfterStop
================================================================================
