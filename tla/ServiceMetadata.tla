---------------------------- MODULE ServiceMetadata ----------------------------
(***************************************************************************)
(* Cluster-level service metadata (kubernetes.cc): one thread watches the  *)
(* services of the cluster, another their endpoints.  Each event updates a *)
(* cache of the reader; then the thread builds the list of all services    *)
(* from both caches and stores it as the metadata of the k8s_cluster       *)
(* resource.  service_mutex_ guards each cache access by itself, so the    *)
(* threads interleave between the update, the list and the store.          *)
(*                                                                         *)
(* The Kubernetes master is external: it changes objects, streams an event *)
(* per change while the watch is connected, loses the events in flight     *)
(* when it ends the connection, and lists the objects that exist when the  *)
(* watch connects again.  A connection that WatchMaster's timers end is    *)
(* not closed: it stays in the io_service of the watch, and what it reads  *)
(* goes to the Watcher of the next connection.                             *)
(***************************************************************************)
EXTENDS MetadataStore, Sequences, FiniteSets

CONSTANTS
  Cluster,        \* the k8s_cluster resource
  Services,       \* service keys: namespace and name
  Objects,        \* bodies of services, and pod lists of endpoints
  NoPods,         \* kNoPods
  MaxChanges,     \* bound: changes of the master
  MaxDisconnects  \* bound: connections lost, per watch

Watches == {"services", "endpoints"}

\* What GetServiceList may return: for each service in the cache its raw
\* metadata and its pods.
ServiceLists ==
  [Services -> [raw: Objects, pods: Objects] \cup {None}]

ASSUME ServiceAssumption ==
  /\ Cluster \in Resources
  /\ IsFiniteSet(Services)
  /\ NoPods \in Objects
  /\ None \notin Objects
  /\ None \notin [raw: Objects, pods: Objects]
  /\ ServiceLists \subseteq Payloads
  /\ MaxChanges \in Nat
  /\ MaxDisconnects \in Nat

VARIABLES
  actual,       \* external: the objects the master has, per watch
  changes,      \* ghost: changes made so far
  connected,    \* external: whether a watch is connected
  disconnects,  \* ghost: connections lost so far, per watch
  stream,       \* external: events sent and not yet handled
  leftover,     \* external: events on connections that a timer left behind
  mixed,        \* external: whether a timer has left a connection behind
  cache,        \* service_to_metadata_ and service_to_pods_
  wpc,          \* where the event callback of each thread stands
  list,         \* service list each callback has built
  last_writer   \* ghost: the watch that stored the cluster entry last

serviceVars == <<actual, changes, connected, disconnects, stream, leftover, mixed,
                 cache, wpc, list, last_writer>>
vars == <<storeVars, serviceVars>>

Missing == [s \in Services |-> None]

ServiceInit ==
  /\ StoreInit
  /\ actual = [w \in Watches |-> Missing]
  /\ changes = 0
  /\ connected = [w \in Watches |-> FALSE]
  /\ disconnects = [w \in Watches |-> 0]
  /\ stream = [w \in Watches |-> <<>>]
  /\ leftover = [w \in Watches |-> <<>>]
  /\ mixed = [w \in Watches |-> FALSE]
  /\ cache = [w \in Watches |-> Missing]
  /\ wpc = [w \in Watches |-> "idle"]
  /\ list = [w \in Watches |-> Missing]
  /\ last_writer = None

--------------------------------------------------------------------------------
\* The master and the connections to it.

\* An event carries the object's key; its object is None when it is DELETED.
Event(s, object) == [service |-> s, object |-> object]
Events == [service: Services, object: Objects \cup {None}]

MasterChanges(w, s, object) ==
  /\ changes < MaxChanges
  /\ object # actual[w][s]
  /\ actual' = [actual EXCEPT ![w][s] = object]
  /\ changes' = changes + 1
  /\ stream' = IF connected[w]
               THEN [stream EXCEPT ![w] = Append(@, Event(s, object))]
               ELSE stream
  /\ leftover' = IF mixed[w]
                 THEN [leftover EXCEPT ![w] = Append(@, Event(s, object))]
                 ELSE leftover
  /\ UNCHANGED <<storeVars, connected, disconnects, mixed, cache, wpc, list,
                 last_writer>>

\* The orders in which the existing objects of a watch may be listed.
Listings(w) ==
  LET existing == {Event(s, actual[w][s]) :
                     s \in {k \in Services : actual[w][k] # None}}
  IN {q \in [1..Cardinality(existing) -> existing] :
        \A e \in existing : \E i \in DOMAIN q : q[i] = e}

\* WatchMaster sends its request, once the callback of the last connection has
\* returned and its thread is joined; the answer begins with ADDED events.
Connect(w) ==
  /\ ~connected[w]
  /\ wpc[w] = "idle"
  /\ connected' = [connected EXCEPT ![w] = TRUE]
  /\ \E q \in Listings(w) : stream' = [stream EXCEPT ![w] = q]
  /\ UNCHANGED <<storeVars, actual, changes, disconnects, leftover, mixed, cache, wpc,
                 list, last_writer>>

\* The master closes the connection, or it fails: the Watcher's operator() gets
\* the error and stops the service.
Disconnect(w) ==
  /\ connected[w]
  /\ disconnects[w] < MaxDisconnects
  /\ connected' = [connected EXCEPT ![w] = FALSE]
  /\ disconnects' = [disconnects EXCEPT ![w] = @ + 1]
  /\ stream' = [stream EXCEPT ![w] = <<>>]
  /\ UNCHANGED <<storeVars, actual, changes, leftover, mixed, cache, wpc, list,
                 last_writer>>

\* The reconnect or the silence timer stops the service.  The connection is left
\* in it, with what the master sent on it and will still send.
TimerEnds(w) ==
  /\ connected[w]
  /\ disconnects[w] < MaxDisconnects
  /\ connected' = [connected EXCEPT ![w] = FALSE]
  /\ disconnects' = [disconnects EXCEPT ![w] = @ + 1]
  /\ leftover' = [leftover EXCEPT ![w] = @ \o stream[w]]
  /\ stream' = [stream EXCEPT ![w] = <<>>]
  /\ mixed' = [mixed EXCEPT ![w] = TRUE]
  /\ UNCHANGED <<storeVars, actual, changes, cache, wpc, list, last_writer>>

\* service->run() of the next connection's Watcher serves the old connection
\* too: an event it had left comes between the events of the new one.
StaleEvent(w) ==
  /\ connected[w]
  /\ mixed[w]
  /\ leftover[w] # <<>>
  /\ stream' = [stream EXCEPT ![w] = <<Head(leftover[w])>> \o @]
  /\ leftover' = [leftover EXCEPT ![w] = Tail(@)]
  /\ UNCHANGED <<storeVars, actual, changes, connected, disconnects, mixed, cache,
                 wpc, list, last_writer>>

\* Pieces of events of two connections in one parser are no JSON: it fails, and
\* an event is lost.
EventGarbled(w) ==
  /\ mixed[w]
  /\ stream[w] # <<>>
  /\ stream' = [stream EXCEPT ![w] = Tail(@)]
  /\ UNCHANGED <<storeVars, actual, changes, connected, disconnects, leftover, mixed,
                 cache, wpc, list, last_writer>>

--------------------------------------------------------------------------------
\* ServiceCallback and EndpointsCallback.

\* A plausible bug: a deletion is skipped instead of erasing the key.
UpdateCacheIgnoresDeletion(w) ==
  /\ wpc[w] = "idle"
  /\ stream[w] # <<>>
  /\ LET event == Head(stream[w])
     IN cache' = IF event.object = None THEN cache
                 ELSE [cache EXCEPT ![w][event.service] = event.object]
  /\ stream' = [stream EXCEPT ![w] = Tail(@)]
  /\ wpc' = [wpc EXCEPT ![w] = "updated"]
  /\ UNCHANGED <<storeVars, actual, changes, connected, disconnects, leftover, mixed,
                 list, last_writer>>

\* UpdateServiceToMetadataCache and UpdateServiceToPodsCache: erase the key
\* of a deleted object, set the key of any other.
UpdateCache(w) ==
  /\ wpc[w] = "idle"
  /\ stream[w] # <<>>
  /\ LET event == Head(stream[w])
     IN cache' = [cache EXCEPT ![w][event.service] = event.object]
  /\ stream' = [stream EXCEPT ![w] = Tail(@)]
  /\ wpc' = [wpc EXCEPT ![w] = "updated"]
  /\ UNCHANGED <<storeVars, actual, changes, connected, disconnects, leftover, mixed,
                 list, last_writer>>

PodsOf(s) == IF cache["endpoints"][s] = None THEN NoPods
             ELSE cache["endpoints"][s]

\* GetServiceList: every cached service, with its pods if any are cached.
ServiceList ==
  [s \in Services |->
     IF cache["services"][s] = None THEN None
     ELSE [raw |-> cache["services"][s], pods |-> PodsOf(s)]]

\* A plausible bug: the list is the one built for the previous event.
GetClusterMetadataCached(w) ==
  /\ wpc[w] = "updated"
  /\ wpc' = [wpc EXCEPT ![w] = "listed"]
  /\ UNCHANGED <<storeVars, actual, changes, connected, disconnects, stream, leftover,
                 mixed, cache, list, last_writer>>

\* GetClusterMetadata, with the list built under service_mutex_.
GetClusterMetadata(w) ==
  /\ wpc[w] = "updated"
  /\ list' = [list EXCEPT ![w] = ServiceList]
  /\ wpc' = [wpc EXCEPT ![w] = "listed"]
  /\ UNCHANGED <<storeVars, actual, changes, connected, disconnects, stream, leftover,
                 mixed, cache, last_writer>>

\* The collection time of the event is left out: every entry has time 0.
ClusterEntry(w) == [is_deleted |-> FALSE, collected_at |-> 0,
                    metadata |-> list[w], ignore |-> FALSE]

\* MetadataCallback: the result has no ids, so UpdateResource does nothing.
MetadataCallback(w) ==
  /\ wpc[w] = "listed"
  /\ UpdateMetadata(Cluster, ClusterEntry(w))
  /\ wpc' = [wpc EXCEPT ![w] = "idle"]
  /\ list' = [list EXCEPT ![w] = Missing]
  /\ last_writer' = w
  /\ UNCHANGED <<actual, changes, connected, disconnects, stream, leftover, mixed,
                 cache>>

Master == \E w \in Watches :
            \/ \E s \in Services, object \in Objects \cup {None} :
                 MasterChanges(w, s, object)
            \/ Connect(w) \/ Disconnect(w) \/ TimerEnds(w)
            \/ StaleEvent(w) \/ EventGarbled(w)

Callback(w) == UpdateCache(w) \/ GetClusterMetadata(w) \/ MetadataCallback(w)

ServiceNext == Master \/ \E w \in Watches : Callback(w)

ServiceSpec == ServiceInit /\ [][ServiceNext]_vars

--------------------------------------------------------------------------------
ServiceTypeOK ==
  /\ StoreTypeOK
  /\ actual \in [Watches -> [Services -> Objects \cup {None}]]
  /\ changes \in 0..MaxChanges
  /\ connected \in [Watches -> BOOLEAN]
  /\ disconnects \in [Watches -> 0..MaxDisconnects]
  /\ stream \in [Watches -> Seq(Events)]
  /\ leftover \in [Watches -> Seq(Events)]
  /\ mixed \in [Watches -> BOOLEAN]
  /\ cache \in [Watches -> [Services -> Objects \cup {None}]]
  /\ wpc \in [Watches -> {"idle", "updated", "listed"}]
  /\ list \in [Watches -> ServiceLists]
  /\ last_writer \in Watches \cup {None}

\* The stored list agrees with the cached half that watch w feeds.
AgreesOnHalf(stored, w) ==
  \A s \in Services :
    IF w = "services"
    THEN IF cache["services"][s] = None THEN stored[s] = None
         ELSE stored[s] # None /\ stored[s].raw = cache["services"][s]
    ELSE stored[s] # None => stored[s].pods = PodsOf(s)

\* However the two threads interleave, the thread that stored the cluster
\* entry last left its own kind of object up to date in it, until it handles
\* its next event.
LastWriterIsCurrent ==
  last_writer # None /\ wpc[last_writer] = "idle" =>
    /\ metadata_map[Cluster] # None
    /\ AgreesOnHalf(metadata_map[Cluster].metadata, last_writer)

\* Once a connected watch has drained its events, its cache has every object
\* of the master, across the connections the master ended; and if it never lost
\* one, it has nothing else.  Nothing is claimed of a watch of which a timer has
\* left a connection behind: from then on old and new events are mixed.
CachesFollowMaster ==
  \A w \in Watches :
    connected[w] /\ ~mixed[w] /\ stream[w] = <<>> =>
      /\ \A s \in Services : actual[w][s] # None => cache[w][s] = actual[w][s]
      /\ disconnects[w] = 0 => cache[w] = actual[w]

\* What kubernetes.cc says of the cluster's metadata, that it "contains ALL
\* current services": when no callback is running, the stored list is the one
\* the caches give.
ClusterEntryIsCurrent ==
  /\ \A w \in Watches : wpc[w] = "idle"
  /\ metadata_map[Cluster] # None
  => metadata_map[Cluster].metadata = ServiceList
================================================================================
