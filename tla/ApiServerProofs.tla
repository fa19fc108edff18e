---------------------------- MODULE ApiServerProofs ----------------------------
(***************************************************************************)
(* The API server's handlers see the store as its specification promises,  *)
(* and their answers are right for any number of threads, ids, resources,  *)
(* types and components, and for every maximum age.                        *)
(***************************************************************************)
EXTENDS ApiServer, MetadataStoreProofs

--------------------------------------------------------------------------------
\* The server with its updaters and its reporter drives the store as the
\* store's own specification allows.

\* A step of the server, of an updater or of the clock is an operation of the
\* store (store.cc:31-110) or leaves its three maps alone.
LEMMA ApiStepIsStoreStep ==
  ASSUME [ApiNext]_vars
  PROVE  [StoreNext]_storeVars
<1>1. ASSUME NEW t \in Threads, NEW id \in Ids, MonitoredResourceRequest(t, id)
      PROVE  UNCHANGED storeVars
  BY <1>1 DEF MonitoredResourceRequest
<1>2. ASSUME NEW t \in Threads,
             HealthzRequest(t) \/ UnmatchedRequest(t) \/ Closed(t)
      PROVE  UNCHANGED storeVars
  BY <1>2 DEF HealthzRequest, UnmatchedRequest, Closed
<1>3. ASSUME NEW t \in Threads, Handle(t)
      PROVE  UNCHANGED storeVars
  BY <1>3 DEF Handle, LookupFails, LookupSucceeds, WriteResource,
              CopyUnhealthy, ReadTimes
<1>4. ASSUME \/ \E c \in Components : WatchFails(c) \/ SetUnhealthy(c)
             \/ \E w \in Updaters \cup {Reporter} : LockMetadata(w)
             \/ ReporterCopies \/ Tick \/ UNCHANGED vars
      PROVE  UNCHANGED storeVars
  BY <1>4 DEF WatchFails, SetUnhealthy, LockMetadata, ReporterCopies, Tick, vars
<1>5. ASSUME NEW ids \in SUBSET Ids, NEW r \in Resources,
             UpdaterRegisters(ids, r)
      PROVE  StoreNext
  BY <1>5 DEF UpdaterRegisters, StoreNext
<1>6. ASSUME NEW result \in Incoming,
             UpdaterIgnores(result) \/ \E w \in Updaters : UpdaterStores(w, result)
      PROVE  StoreNext
  BY <1>6, ApiAssumption DEF UpdaterStores, UpdaterIgnores, StoreNext
<1>7. CASE ReporterPurges
  BY <1>7 DEF ReporterPurges, StoreNext
<1> QED
  BY <1>1, <1>2, <1>3, <1>4, <1>5, <1>6, <1>7 DEF ApiNext, Store, Report

\* Whatever the server, the updaters and the reporter do, the store (store.cc)
\* behaves as its specification says.
THEOREM ApiImplementsStore == ApiSpec => StoreSpec
<1>1. ApiInit => StoreInit
  BY DEF ApiInit
<1>2. [ApiNext]_vars => [StoreNext]_storeVars
  BY ApiStepIsStoreStep
<1> QED
  BY <1>1, <1>2, PTL DEF ApiSpec, StoreSpec

\* A reference that LookupResource (store.cc:31) hands to a handler stays what
\* it was while updaters write and the reporter purges.
THEOREM ApiResourceMapIsStable == ApiSpec => ResourceMapStable
BY ApiImplementsStore, ResourceMapIsStable, PTL

\* The times a health check copies (health_checker.cc:43) cover every entry
\* that is in the store.
THEOREM ApiTimesCoverEntries == ApiSpec => []CollectionTimesCoverEntries
BY ApiImplementsStore, TimesCoverEntries, PTL

--------------------------------------------------------------------------------
\* The handlers' inductive invariant, by parts.

\* Between the lookup and the answer, an id that resolved on arrival resolves
\* to the same resource, and a reference that was returned refers to something.
LookupInv ==
  \A t \in Threads :
    /\ hpc[t] \in {"lookup", "serialize"} =>
         /\ req[t] \in Ids
         /\ arrival[t].resource # None =>
              resource_map[req[t]] = arrival[t].resource
    /\ hpc[t] = "serialize" => resource_map[req[t]] # None

\* The health mutex is held by the thread between copying the components and
\* reading the times, and by no other.
MutexInv == \A t \in Threads : hpc[t] = "times" <=> health_mu = t

\* What was known when a health check arrived is still known: components stay
\* unhealthy, and a type that was collected keeps a collection time.
ArrivalInv ==
  \A t \in Threads :
    hpc[t] \in {"healthz", "times", "health_sent"} =>
      /\ arrival[t].unhealthy \subseteq unhealthy_components
      /\ arrival[t].now <= now
      /\ \A type \in arrival[t].collected : last_collection_times[type] # None

\* The components copied and the clock read within the check are not older
\* than the request.
CheckInv ==
  \A t \in Threads :
    hpc[t] = "times" =>
      /\ arrival[t].unhealthy \subseteq blamed[t]
      /\ arrival[t].now <= checked_at[t]

ApiInv ==
  /\ StoreInv
  /\ ApiTypeOK
  /\ LookupInv
  /\ MutexInv
  /\ ArrivalInv
  /\ CheckInv
  /\ KnownIdIsAnswered
  /\ HealthyMeansHealthy

\* What is recorded of a request's arrival, of either handler, is well formed.
LEMMA HealthArrivalType ==
  ASSUME ApiTypeOK
  PROVE  /\ NoArrival \in Arrivals
         /\ HealthArrival \in Arrivals
         /\ \A r \in Resources \cup {None} :
              [NoArrival EXCEPT !.resource = r] \in Arrivals
BY StoreAssumption DEF ApiTypeOK, NoArrival, HealthArrival, Arrivals

\* The rest of the agent (store.cc, SetUnhealthy of health_checker.cc:32, the
\* clock) moves what the handlers read, but only forwards: mappings stay,
\* components stay unhealthy, times only rise.
LEMMA WorldStep ==
  ASSUME ApiInv, [StoreNext]_storeVars, UNCHANGED <<handlerVars, health_mu>>,
         unhealthy_components \subseteq unhealthy_components',
         unhealthy_components' \subseteq Components,
         metadata_mu' \in Updaters \cup {Reporter, None}, dying' \subseteq Components,
         now' \in Times, now <= now'
  PROVE  ApiInv'
<1>1. StoreInv'
  BY StoreStep DEF ApiInv
<1>2. ApiTypeOK'
  BY <1>1 DEF ApiInv, StoreInv, ApiTypeOK, handlerVars
<1>3. LookupInv' /\ KnownIdIsAnswered'
  BY MappingsStay DEF ApiInv, LookupInv, KnownIdIsAnswered, handlerVars
<1>4. MutexInv' /\ CheckInv'
  BY DEF ApiInv, MutexInv, CheckInv, handlerVars
<1>5. ASSUME NEW t \in Threads
      PROVE  arrival[t].collected \subseteq Types /\ arrival[t].now \in Nat
  BY StoreAssumption DEF ApiInv, ApiTypeOK, Arrivals
<1>6. now \in Nat /\ now' \in Nat
  BY StoreAssumption DEF ApiInv, ApiTypeOK
<1>7. ArrivalInv'
  BY <1>5, <1>6, TimesOnlyRise DEF ApiInv, ArrivalInv, handlerVars
<1>8. HealthyMeansHealthy'
  <2> SUFFICES ASSUME NEW t \in Threads,
                      hpc[t] = "health_sent", reply[t] = "healthy",
                      NEW type \in arrival[t].collected
               PROVE  /\ arrival[t].unhealthy = {}
                      /\ arrival[t].now <= last_collection_times'[type] + MaxAge
    BY DEF ApiInv, HealthyMeansHealthy, handlerVars
  <2>1. /\ arrival[t].unhealthy = {}
        /\ arrival[t].now <= last_collection_times[type] + MaxAge
    BY DEF ApiInv, HealthyMeansHealthy
  <2>2. type \in Types /\ last_collection_times[type] # None
    BY <1>5 DEF ApiInv, ArrivalInv
  <2>3. /\ last_collection_times'[type] # None
        /\ last_collection_times[type] <= last_collection_times'[type]
    BY <2>2, TimesOnlyRise DEF ApiInv
  <2>4. last_collection_times[type] \in Nat /\ last_collection_times'[type] \in Nat
    BY <1>1, <2>2, <2>3, StoreAssumption DEF ApiInv, StoreInv, StoreTypeOK
  <2> QED
    BY <1>5, <2>1, <2>3, <2>4, ApiAssumption
<1> QED
  BY <1>1, <1>2, <1>3, <1>4, <1>7, <1>8 DEF ApiInv

\* A request that arrives (Dispatcher::operator(), api_server.cc:33) records
\* what is known, which nothing contradicts yet.
LEMMA RequestStep ==
  ASSUME ApiInv, NEW t \in Threads,
         \/ \E id \in Ids : MonitoredResourceRequest(t, id)
         \/ HealthzRequest(t) \/ UnmatchedRequest(t) \/ Closed(t)
  PROVE  ApiInv'
<1> USE HealthArrivalType DEF ApiInv
<1>1. ASSUME NEW id \in Ids, MonitoredResourceRequest(t, id)
      PROVE  ApiInv'
  <2> USE <1>1 DEF MonitoredResourceRequest, storeVars, agentVars
  <2>1. StoreInv'
    BY DEF StoreInv, StoreTypeOK, CollectionTimesCoverEntries
  <2>2. LookupResource(id) \in Resources \cup {None}
    BY DEF LookupResource, StoreInv, StoreTypeOK
  <2>3. arrival' = [arrival EXCEPT ![t] =
                      [NoArrival EXCEPT !.resource = LookupResource(id)]]
    OBVIOUS
  <2>4. ApiTypeOK'
    BY <2>1, <2>2, <2>3 DEF ApiTypeOK, StoreInv
  <2>5. LookupInv'
    BY DEF LookupInv, ApiTypeOK, LookupResource, NoArrival
  <2>6. MutexInv' /\ CheckInv' /\ ArrivalInv'
    BY DEF MutexInv, CheckInv, ArrivalInv, ApiTypeOK
  <2>7. KnownIdIsAnswered' /\ HealthyMeansHealthy'
    BY DEF KnownIdIsAnswered, HealthyMeansHealthy, ApiTypeOK
  <2> QED
    BY <2>1, <2>4, <2>5, <2>6, <2>7
<1>2. CASE HealthzRequest(t)
  <2> USE <1>2 DEF HealthzRequest, storeVars, agentVars
  <2>1. StoreInv'
    BY DEF StoreInv, StoreTypeOK, CollectionTimesCoverEntries
  <2>2. ApiTypeOK'
    BY <2>1 DEF ApiTypeOK, StoreInv
  <2>3. LookupInv' /\ MutexInv' /\ CheckInv'
    BY DEF LookupInv, MutexInv, CheckInv, ApiTypeOK
  <2>4. now \in Nat
    BY StoreAssumption DEF ApiTypeOK
  <2>5. ArrivalInv'
    <3> SUFFICES ASSUME NEW u \in Threads,
                        hpc'[u] \in {"healthz", "times", "health_sent"}
                 PROVE  /\ arrival'[u].unhealthy \subseteq unhealthy_components
                        /\ arrival'[u].now <= now
                        /\ \A type \in arrival'[u].collected :
                             last_collection_times[type] # None
      BY DEF ArrivalInv
    <3>1. CASE u = t
      <4>1. arrival'[u] = HealthArrival
        BY <3>1 DEF ApiTypeOK
      <4> QED
        BY <2>4, <4>1 DEF HealthArrival
    <3>2. CASE u # t
      BY <3>2 DEF ArrivalInv, ApiTypeOK
    <3> QED
      BY <3>1, <3>2
  <2>6. KnownIdIsAnswered' /\ HealthyMeansHealthy'
    BY DEF KnownIdIsAnswered, HealthyMeansHealthy, ApiTypeOK
  <2> QED
    BY <2>1, <2>2, <2>3, <2>5, <2>6
<1>3. CASE UnmatchedRequest(t)
  <2> USE <1>3 DEF UnmatchedRequest, storeVars, agentVars
  <2>1. StoreInv'
    BY DEF StoreInv, StoreTypeOK, CollectionTimesCoverEntries
  <2>2. ApiTypeOK'
    BY <2>1 DEF ApiTypeOK, StoreInv
  <2>3. LookupInv' /\ MutexInv' /\ CheckInv' /\ ArrivalInv'
    BY DEF LookupInv, MutexInv, CheckInv, ArrivalInv, ApiTypeOK
  <2>4. KnownIdIsAnswered' /\ HealthyMeansHealthy'
    BY DEF KnownIdIsAnswered, HealthyMeansHealthy, ApiTypeOK
  <2> QED
    BY <2>1, <2>2, <2>3, <2>4
<1>4. CASE Closed(t)
  <2> USE <1>4 DEF Closed, storeVars, agentVars
  <2>1. StoreInv'
    BY DEF StoreInv, StoreTypeOK, CollectionTimesCoverEntries
  <2>2. ApiTypeOK'
    BY <2>1 DEF ApiTypeOK, StoreInv
  <2>3. LookupInv' /\ MutexInv' /\ CheckInv' /\ ArrivalInv'
    BY DEF LookupInv, MutexInv, CheckInv, ArrivalInv, ApiTypeOK
  <2>4. KnownIdIsAnswered' /\ HealthyMeansHealthy'
    BY DEF KnownIdIsAnswered, HealthyMeansHealthy, ApiTypeOK
  <2> QED
    BY <2>1, <2>2, <2>3, <2>4
<1> QED
  BY <1>1, <1>2, <1>3, <1>4

\* HandleMonitoredResource (api_server.cc:112): an id that resolved on arrival
\* does not fail, and what is read through the reference is what it resolved to.
LEMMA LookupStep ==
  ASSUME ApiInv, NEW t \in Threads,
         LookupFails(t) \/ LookupSucceeds(t) \/ WriteResource(t)
  PROVE  ApiInv'
<1> USE DEF ApiInv, LookupFails, LookupSucceeds, WriteResource, storeVars,
            agentVars, LookupResource
<1>1. StoreInv'
  BY DEF StoreInv, StoreTypeOK, CollectionTimesCoverEntries
<1>2. WriteResource(t) => resource_map[req[t]] \in Resources
  BY DEF LookupInv, StoreInv, StoreTypeOK
<1>3. ApiTypeOK'
  BY <1>1, <1>2 DEF ApiTypeOK, StoreInv
<1>4. LookupInv' /\ MutexInv' /\ CheckInv' /\ ArrivalInv'
  <2>1. LookupInv'
    BY DEF LookupInv, ApiTypeOK
  <2>2. MutexInv'
    BY DEF MutexInv, ApiTypeOK
  <2>3. CheckInv'
    BY DEF CheckInv, ApiTypeOK
  <2>4. ArrivalInv'
    BY DEF ArrivalInv, ApiTypeOK
  <2> QED
    BY <2>1, <2>2, <2>3, <2>4
<1>5. KnownIdIsAnswered'
  BY DEF KnownIdIsAnswered, LookupInv, ApiTypeOK
<1>6. HealthyMeansHealthy'
  BY DEF HealthyMeansHealthy, ApiTypeOK
<1> QED
  BY <1>1, <1>3, <1>4, <1>5, <1>6

\* UnhealthyComponents (health_checker.cc:37) starts: it takes the lock, copies
\* the components reported so far and reads the clock.
LEMMA CopyUnhealthyStep ==
  ASSUME ApiInv, NEW t \in Threads, CopyUnhealthy(t)
  PROVE  ApiInv'
<1> USE DEF ApiInv, CopyUnhealthy, storeVars, agentVars
<1>1. StoreInv'
  BY DEF StoreInv, StoreTypeOK, CollectionTimesCoverEntries
<1>2. ApiTypeOK'
  BY <1>1 DEF ApiTypeOK, StoreInv
<1>3. LookupInv' /\ ArrivalInv'
  BY DEF LookupInv, ArrivalInv, ApiTypeOK
<1>4. MutexInv'
  BY ApiAssumption DEF MutexInv, ApiTypeOK
<1>5. CheckInv'
  BY DEF CheckInv, ArrivalInv, ApiTypeOK
<1>6. KnownIdIsAnswered' /\ HealthyMeansHealthy'
  BY DEF KnownIdIsAnswered, HealthyMeansHealthy, ApiTypeOK
<1> QED
  BY <1>1, <1>2, <1>3, <1>4, <1>5, <1>6

\* UnhealthyComponents ends (health_checker.cc:43-52): if it blames nobody, no
\* component was unhealthy on arrival, and each type collected by then is young
\* enough for the clock read within the check, which is no earlier than the
\* arrival.
LEMMA ReadTimesStep ==
  ASSUME ApiInv, NEW t \in Threads, ReadTimes(t)
  PROVE  ApiInv'
<1> USE DEF ApiInv
<1>1. StoreInv'
  BY DEF ReadTimes, agentVars, storeVars, StoreInv, StoreTypeOK, CollectionTimesCoverEntries
<1>2. ApiTypeOK'
  BY <1>1, StoreAssumption DEF ReadTimes, agentVars, ApiTypeOK, StoreInv
<1>3. LookupInv' /\ ArrivalInv' /\ CheckInv'
  BY DEF ReadTimes, agentVars, storeVars, LookupInv, ArrivalInv, CheckInv, ApiTypeOK
<1>4. MutexInv'
  BY ApiAssumption DEF ReadTimes, MutexInv, ApiTypeOK
<1>5. KnownIdIsAnswered'
  BY DEF ReadTimes, agentVars, storeVars, KnownIdIsAnswered, ApiTypeOK
<1>6. HealthyMeansHealthy'
  <2> SUFFICES ASSUME NEW u \in Threads,
                      hpc'[u] = "health_sent", reply'[u] = "healthy"
               PROVE  /\ arrival[u].unhealthy = {}
                      /\ \A type \in arrival[u].collected :
                           arrival[u].now <= last_collection_times[type] + MaxAge
    BY DEF HealthyMeansHealthy, ReadTimes, agentVars, storeVars
  <2>1. CASE u # t
    BY <2>1 DEF HealthyMeansHealthy, ReadTimes, ApiTypeOK
  <2>2. CASE u = t
    <3>1. blamed[t] = {} /\ StaleTypes(t) = {}
      BY <2>2 DEF ReadTimes, ApiTypeOK
    <3>2. arrival[t].unhealthy = {} /\ arrival[t].now <= checked_at[t]
      BY <3>1 DEF ReadTimes, CheckInv
    <3>3. ASSUME NEW type \in arrival[t].collected
          PROVE  arrival[t].now <= last_collection_times[type] + MaxAge
      <4>1. type \in Types /\ last_collection_times[type] # None
        BY DEF ApiTypeOK, Arrivals, ArrivalInv, ReadTimes
      <4>2. ~(last_collection_times[type] + MaxAge < checked_at[t])
        BY <3>1, <4>1 DEF StaleTypes, GetLastCollectionTimes
      <4>3. last_collection_times[type] \in Nat
        BY <4>1, StoreAssumption DEF StoreInv, StoreTypeOK
      <4>4. arrival[t].now \in Nat /\ checked_at[t] \in Nat
        BY StoreAssumption DEF ApiTypeOK, Arrivals
      <4> QED
        BY <3>2, <4>2, <4>3, <4>4, ApiAssumption
    <3> QED
      BY <2>2, <3>2, <3>3
  <2> QED
    BY <2>1, <2>2
<1> QED
  BY <1>1, <1>2, <1>3, <1>4, <1>5, <1>6

--------------------------------------------------------------------------------
\* The handlers' invariant holds before the first request and after every step
\* of a handler, an updater, the reporter, a watch thread or the clock.
THEOREM ApiInvariant == ApiSpec => []ApiInv
<1>1. ApiInit => ApiInv
  <2> SUFFICES ASSUME ApiInit PROVE ApiInv
    OBVIOUS
  <2>1. StoreInv
    BY DEF ApiInit, StoreInit, StoreInv, StoreTypeOK, CollectionTimesCoverEntries
  <2>2. ApiTypeOK
    BY <2>1, StoreAssumption DEF ApiInit, ApiTypeOK, StoreInv, NoArrival, Arrivals
  <2>3. LookupInv /\ MutexInv /\ ArrivalInv /\ CheckInv
    BY ApiAssumption DEF ApiInit, LookupInv, MutexInv, ArrivalInv, CheckInv
  <2>4. KnownIdIsAnswered /\ HealthyMeansHealthy
    BY DEF ApiInit, KnownIdIsAnswered, HealthyMeansHealthy
  <2> QED
    BY <2>1, <2>2, <2>3, <2>4 DEF ApiInv
<1>2. ASSUME ApiInv, [ApiNext]_vars
      PROVE  ApiInv'
  <2>1. [StoreNext]_storeVars
    BY <1>2, ApiStepIsStoreStep
  <2>2. /\ unhealthy_components \subseteq Components /\ dying \subseteq Components
        /\ metadata_mu \in Updaters \cup {Reporter, None}
        /\ now \in Times /\ now \in Nat
    BY <1>2, StoreAssumption DEF ApiInv, ApiTypeOK
  <2>3. ASSUME NEW t \in Threads,
               \/ \E id \in Ids : MonitoredResourceRequest(t, id)
               \/ HealthzRequest(t) \/ UnmatchedRequest(t) \/ Closed(t)
        PROVE  ApiInv'
    BY <1>2, <2>3, RequestStep
  <2>4. ASSUME NEW t \in Threads, Handle(t)
        PROVE  ApiInv'
    BY <1>2, <2>4, LookupStep, CopyUnhealthyStep, ReadTimesStep DEF Handle
  <2>5. ASSUME NEW c \in Components, WatchFails(c) \/ SetUnhealthy(c)
        PROVE  ApiInv'
    BY <1>2, <2>1, <2>2, <2>5, WorldStep DEF WatchFails, SetUnhealthy
  <2>6. ASSUME NEW ids \in SUBSET Ids, NEW r \in Resources,
               UpdaterRegisters(ids, r)
        PROVE  ApiInv'
    BY <1>2, <2>1, <2>2, <2>6, WorldStep DEF UpdaterRegisters, agentVars
  <2>7. ASSUME NEW result \in Incoming,
               UpdaterIgnores(result) \/ \E w \in Updaters : UpdaterStores(w, result)
        PROVE  ApiInv'
    BY <1>2, <2>1, <2>2, <2>7, WorldStep
       DEF UpdaterIgnores, UpdaterStores, UnlockMetadata, agentVars
  <2>8. CASE \/ ReporterCopies \/ ReporterPurges
             \/ \E w \in Updaters \cup {Reporter} : LockMetadata(w)
    BY <1>2, <2>1, <2>2, <2>8, WorldStep
       DEF ReporterCopies, ReporterPurges, UnlockMetadata, LockMetadata
  <2>9. CASE Tick
    BY <1>2, <2>1, <2>2, <2>9, WorldStep DEF Tick
  <2>10. CASE UNCHANGED vars
    BY <1>2, <2>1, <2>2, <2>10, WorldStep DEF vars, agentVars, handlerVars
  <2> QED
    BY <1>2, <2>3, <2>4, <2>5, <2>6, <2>7, <2>8, <2>9, <2>10 DEF ApiNext, Store, Report
<1> QED
  BY <1>1, <1>2, PTL DEF ApiSpec

\* Every variable of the server and of the health checker has its type.
THEOREM ApiTypeCorrect == ApiSpec => []ApiTypeOK
<1>1. ApiInv => ApiTypeOK
  BY DEF ApiInv
<1> QED
  BY <1>1, ApiInvariant, PTL

\* HandleMonitoredResource (api_server.cc:112) answers a request for an id that
\* resolved when it arrived with the resource it resolved to, although the
\* resource is read after the store's lock is released.
THEOREM KnownIdsAreAnswered == ApiSpec => []KnownIdIsAnswered
<1>1. ApiInv => KnownIdIsAnswered
  BY DEF ApiInv
<1> QED
  BY <1>1, ApiInvariant, PTL

\* HandleHealthz (api_server.cc:161) answers 200 only if nothing that was known
\* when the request arrived says otherwise, however the copies of the
\* components and of the times interleave with reports and updates.
THEOREM HealthyAnswersAreRight == ApiSpec => []HealthyMeansHealthy
<1>1. ApiInv => HealthyMeansHealthy
  BY DEF ApiInv
<1> QED
  BY <1>1, ApiInvariant, PTL
================================================================================
