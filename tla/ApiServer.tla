------------------------------- MODULE ApiServer -------------------------------
(***************************************************************************)
(* The local API of the agent: the handlers of MetadataApiServer           *)
(* (api_server.cc), run by a pool of threads, and the HealthChecker they   *)
(* ask (health_checker.cc).  Updaters write to the store, watch threads    *)
(* report themselves unhealthy, and the clock runs, between any two steps  *)
(* of a handler.  A health check takes the store's metadata_mu_ while it   *)
(* holds its own mutex, so both are modelled as their holders;             *)
(* resource_mu_ is never waited for with another lock held.                *)
(*                                                                         *)
(* A request is a lookup of an id, a health check, or one that the         *)
(* dispatcher's string matching finds no handler for.  A response is its   *)
(* status and, for a lookup, the resource in its body.                     *)
(***************************************************************************)
EXTENDS MetadataStore

CONSTANTS
  Threads,     \* server_pool_
  Updaters,    \* threads that store metadata
  Reporter,    \* the reporter's thread
  Components,  \* names that SetUnhealthy is called with
  Incoming,    \* results whose metadata updaters may store
  MaxAge       \* HealthCheckMaxDataAgeSeconds

ASSUME ApiAssumption ==
  /\ Incoming \subseteq [resource: Resources, metadata: Metadata]
  /\ MaxAge \in Nat
  /\ None \notin Threads \cup Updaters \cup {Reporter}
  /\ Reporter \notin Updaters

VARIABLES
  now,                   \* system_clock::now()
  unhealthy_components,  \* unhealthy_components_
  health_mu,             \* the thread holding HealthChecker::mutex_, or None
  metadata_mu,           \* the writer holding metadata_mu_, or None
  dying,                 \* watch threads about to call SetUnhealthy
  hpc,                   \* where each handler stands
  req,                   \* the id each handler was asked for
  checked_at,            \* now() of each health check
  blamed,                \* result of UnhealthyComponents, as far as built
  reply,                 \* the response each handler wrote
  arrival                \* ghost: what was known when each request arrived

handlerVars == <<hpc, req, checked_at, blamed, reply, arrival>>
agentVars == <<now, unhealthy_components, metadata_mu, dying>>
vars == <<storeVars, agentVars, health_mu, handlerVars>>

Arrivals == [resource: Resources \cup {None}, unhealthy: SUBSET Components,
             collected: SUBSET Types, now: Times]

NoArrival == [resource |-> None, unhealthy |-> {}, collected |-> {}, now |-> 0]

\* What a health check that arrives now may not contradict.
HealthArrival ==
  [resource |-> None,
   unhealthy |-> unhealthy_components,
   collected |-> {type \in Types : last_collection_times[type] # None},
   now |-> now]

ApiInit ==
  /\ StoreInit
  /\ now = 0
  /\ unhealthy_components = {}
  /\ health_mu = None
  /\ metadata_mu = None
  /\ dying = {}
  /\ hpc = [t \in Threads |-> "idle"]
  /\ req = [t \in Threads |-> None]
  /\ checked_at = [t \in Threads |-> 0]
  /\ blamed = [t \in Threads |-> {}]
  /\ reply = [t \in Threads |-> None]
  /\ arrival = [t \in Threads |-> NoArrival]

--------------------------------------------------------------------------------
\* Dispatcher::operator() hands a request to the one handler it matches.

MonitoredResourceRequest(t, id) ==
  /\ hpc[t] = "idle"
  /\ hpc' = [hpc EXCEPT ![t] = "lookup"]
  /\ req' = [req EXCEPT ![t] = id]
  /\ arrival' = [arrival EXCEPT ![t] =
                   [NoArrival EXCEPT !.resource = LookupResource(id)]]
  /\ UNCHANGED <<storeVars, agentVars, health_mu, checked_at,
                 blamed, reply>>

HealthzRequest(t) ==
  /\ hpc[t] = "idle"
  /\ hpc' = [hpc EXCEPT ![t] = "healthz"]
  /\ arrival' = [arrival EXCEPT ![t] = HealthArrival]
  /\ UNCHANGED <<storeVars, agentVars, health_mu, req,
                 checked_at, blamed, reply>>

\* No handler has the method and a prefix of the destination: nothing is
\* written, and the client waits until it closes the connection.
UnmatchedRequest(t) ==
  /\ hpc[t] = "idle"
  /\ hpc' = [hpc EXCEPT ![t] = "unanswered"]
  /\ UNCHANGED <<storeVars, agentVars, health_mu, req,
                 checked_at, blamed, reply, arrival>>

\* The connection is closed, after the response if there is one.
Closed(t) ==
  /\ hpc[t] \in {"resource_sent", "health_sent", "unanswered"}
  /\ hpc' = [hpc EXCEPT ![t] = "idle"]
  /\ req' = [req EXCEPT ![t] = None]
  /\ reply' = [reply EXCEPT ![t] = None]
  /\ arrival' = [arrival EXCEPT ![t] = NoArrival]
  /\ UNCHANGED <<storeVars, agentVars, health_mu, checked_at,
                 blamed>>

--------------------------------------------------------------------------------
\* HandleMonitoredResource.

\* LookupResource throws out_of_range.
LookupFails(t) ==
  /\ hpc[t] = "lookup"
  /\ LookupResource(req[t]) = None
  /\ hpc' = [hpc EXCEPT ![t] = "resource_sent"]
  /\ reply' = [reply EXCEPT ![t] = "not found"]
  /\ UNCHANGED <<storeVars, agentVars, health_mu, req,
                 checked_at, blamed, arrival>>

\* LookupResource returns a reference into the map and unlocks it.
LookupSucceeds(t) ==
  /\ hpc[t] = "lookup"
  /\ LookupResource(req[t]) # None
  /\ hpc' = [hpc EXCEPT ![t] = "serialize"]
  /\ UNCHANGED <<storeVars, agentVars, health_mu, req,
                 checked_at, blamed, reply, arrival>>

\* The resource is read through the reference, without the lock.
WriteResource(t) ==
  /\ hpc[t] = "serialize"
  /\ hpc' = [hpc EXCEPT ![t] = "resource_sent"]
  /\ reply' = [reply EXCEPT ![t] = resource_map[req[t]]]
  /\ UNCHANGED <<storeVars, agentVars, health_mu, req,
                 checked_at, blamed, arrival>>

--------------------------------------------------------------------------------
\* HandleHealthz and HealthChecker::UnhealthyComponents.

\* The lock is taken, the set is copied, then the clock is read.
CopyUnhealthy(t) ==
  /\ hpc[t] = "healthz"
  /\ health_mu = None
  /\ health_mu' = t
  /\ hpc' = [hpc EXCEPT ![t] = "times"]
  /\ blamed' = [blamed EXCEPT ![t] = unhealthy_components]
  /\ checked_at' = [checked_at EXCEPT ![t] = now]
  /\ UNCHANGED <<storeVars, agentVars, req, reply, arrival>>

\* A plausible bug: the age is measured from the wrong end, and data exactly
\* one tick too old still passes.
StaleTypesOffByOne(t) ==
  {type \in Types :
     /\ GetLastCollectionTimes[type] # None
     /\ GetLastCollectionTimes[type] + MaxAge + 1 < checked_at[t]}

\* Types whose collected_at < cutoff = now() - MaxAge.  A type that was never
\* collected is not in the map.
StaleTypes(t) ==
  {type \in Types :
     /\ GetLastCollectionTimes[type] # None
     /\ GetLastCollectionTimes[type] + MaxAge < checked_at[t]}

\* The collection times are copied under metadata_mu_, which may have to be
\* waited for, while mutex_ is held; then mutex_ is released and the response is
\* written.
ReadTimes(t) ==
  /\ hpc[t] = "times"
  /\ metadata_mu = None
  /\ LET components == blamed[t] \cup StaleTypes(t)
     IN reply' = [reply EXCEPT ![t] =
                    IF components = {} THEN "healthy" ELSE "unhealthy"]
  /\ health_mu' = None
  /\ hpc' = [hpc EXCEPT ![t] = "health_sent"]
  /\ blamed' = [blamed EXCEPT ![t] = {}]
  /\ checked_at' = [checked_at EXCEPT ![t] = 0]
  /\ UNCHANGED <<storeVars, agentVars, req, arrival>>

--------------------------------------------------------------------------------
\* The rest of the agent.

\* A watch thread is about to exit, and then waits for mutex_.
WatchFails(component) ==
  /\ component \notin dying \cup unhealthy_components
  /\ dying' = dying \cup {component}
  /\ UNCHANGED <<storeVars, now, unhealthy_components, metadata_mu, health_mu,
                 handlerVars>>

SetUnhealthy(component) ==
  /\ component \in dying
  /\ health_mu = None
  /\ unhealthy_components' = unhealthy_components \cup {component}
  /\ dying' = dying \ {component}
  /\ UNCHANGED <<storeVars, now, metadata_mu, health_mu, handlerVars>>

UpdaterRegisters(ids, r) ==
  /\ UpdateResource(ids, r)
  /\ UNCHANGED <<agentVars, health_mu, handlerVars>>

\* UpdateMetadata, GetMetadataMap or PurgeDeletedEntries takes its lock.
LockMetadata(w) ==
  /\ metadata_mu = None
  /\ metadata_mu' = w
  /\ UNCHANGED <<storeVars, now, unhealthy_components, dying, health_mu,
                 handlerVars>>

UnlockMetadata ==
  /\ metadata_mu' = None
  /\ UNCHANGED <<now, unhealthy_components, dying, health_mu, handlerVars>>

\* A plausible bug: a type that is stored late is reported to the health checker
\* under the store's lock.
UpdaterStoresAndReports(w, result) ==
  /\ metadata_mu = w
  /\ health_mu = None
  /\ ~result.metadata.ignore /\ result.metadata.collected_at <= now
  /\ UpdateMetadata(result.resource, result.metadata)
  /\ UnlockMetadata

\* An updater stores a result collected now or earlier.
UpdaterStores(w, result) ==
  /\ metadata_mu = w
  /\ ~result.metadata.ignore /\ result.metadata.collected_at <= now
  /\ UpdateMetadata(result.resource, result.metadata)
  /\ UnlockMetadata

\* UpdateMetadata returns before it takes the lock.
UpdaterIgnores(result) ==
  /\ result.metadata.ignore
  /\ UpdateMetadata(result.resource, result.metadata)
  /\ UNCHANGED <<agentVars, health_mu, handlerVars>>

\* The reporter copies the map, or purges what it has sent.
ReporterCopies ==
  /\ metadata_mu = Reporter
  /\ UnlockMetadata
  /\ UNCHANGED storeVars

ReporterPurges ==
  /\ metadata_mu = Reporter
  /\ PurgeDeletedEntries
  /\ UnlockMetadata

Tick ==
  /\ now + 1 \in Times
  /\ now' = now + 1
  /\ UNCHANGED <<storeVars, unhealthy_components, metadata_mu, dying, health_mu,
                 handlerVars>>

Handle(t) == \/ LookupFails(t) \/ LookupSucceeds(t) \/ WriteResource(t)
             \/ CopyUnhealthy(t) \/ ReadTimes(t)

\* What a thread does with metadata_mu_ held.
Store(w) == \E result \in Incoming : UpdaterStores(w, result)
Report == ReporterCopies \/ ReporterPurges

ApiNext ==
  \/ \E t \in Threads : \/ \E id \in Ids : MonitoredResourceRequest(t, id)
                        \/ HealthzRequest(t) \/ UnmatchedRequest(t)
                        \/ Handle(t)
                        \/ Closed(t)
  \/ \E c \in Components : WatchFails(c) \/ SetUnhealthy(c)
  \/ \E ids \in SUBSET Ids, r \in Resources : UpdaterRegisters(ids, r)
  \/ \E w \in Updaters \cup {Reporter} : LockMetadata(w)
  \/ \E w \in Updaters : Store(w)
  \/ \E result \in Incoming : UpdaterIgnores(result)
  \/ Report
  \/ Tick

\* A thread inside a handler or a critical section keeps running, and who waits
\* for a mutex that is free again and again gets it.  Nothing is assumed of
\* clients, of what updaters and reporter begin, or of the clock.
ApiSpec == /\ ApiInit /\ [][ApiNext]_vars
           /\ \A t \in Threads : WF_vars(Handle(t)) /\ SF_vars(ReadTimes(t))
           /\ \A w \in Updaters : WF_vars(Store(w))
           /\ WF_vars(Report)
           /\ \A c \in Components : SF_vars(SetUnhealthy(c))

--------------------------------------------------------------------------------
ApiTypeOK ==
  /\ StoreTypeOK
  /\ now \in Times
  /\ unhealthy_components \subseteq Components
  /\ health_mu \in Threads \cup {None}
  /\ metadata_mu \in Updaters \cup {Reporter, None}
  /\ dying \subseteq Components
  /\ hpc \in [Threads -> {"idle", "lookup", "serialize", "healthz", "times",
                          "resource_sent", "health_sent", "unanswered"}]
  /\ req \in [Threads -> Ids \cup {None}]
  /\ checked_at \in [Threads -> Times]
  /\ blamed \in [Threads -> SUBSET (Components \cup Types)]
  /\ reply \in [Threads -> Resources \cup {None, "not found", "healthy", "unhealthy"}]
  /\ arrival \in [Threads -> Arrivals]

\* A request for an id that resolved when the request arrived is answered with
\* the resource it resolved to, although the handler reads the resource through
\* a reference it keeps after the store's lock is released.
KnownIdIsAnswered ==
  \A t \in Threads :
    hpc[t] = "resource_sent" /\ arrival[t].resource # None
      => reply[t] = arrival[t].resource

\* /healthz answers 200 only if no component had been reported unhealthy when
\* the request arrived, and no type that had been collected by then was older
\* than the maximum age.
HealthyMeansHealthy ==
  \A t \in Threads :
    hpc[t] = "health_sent" /\ reply[t] = "healthy" =>
      /\ arrival[t].unhealthy = {}
      /\ \A type \in arrival[t].collected :
           arrival[t].now <= last_collection_times[type] + MaxAge

\* A watch thread that fails gets to say so, and the health check to know it:
\* mutex_, which SetUnhealthy needs, is held by UnhealthyComponents while that
\* waits for metadata_mu_ (health_checker.cc:43), so nobody may wait for mutex_
\* with metadata_mu_ held.
FailureIsReported ==
  \A c \in Components : c \in dying ~> c \in unhealthy_components
================================================================================
