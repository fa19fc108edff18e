----------------------------- MODULE MetadataStore -----------------------------
(***************************************************************************)
(* The in-memory store of the metadata agent (store.h, store.cc): a map    *)
(* from locally unique ids to monitored resources, a map from monitored    *)
(* resources to metadata entries, and the time each resource type was last *)
(* collected.  The first map is guarded by resource_mu_, the other two by  *)
(* metadata_mu_; every operation holds its lock from its first access to   *)
(* its last, so every operation is one action.                             *)
(*                                                                         *)
(* std::map is a total function into values or None.  The version, the     *)
(* creation time and the JSON body of an entry are one element of Payloads.*)
(***************************************************************************)
EXTENDS Naturals

CONSTANTS
  Ids,          \* locally unique resource ids (strings in the code)
  Resources,    \* MonitoredResource values
  Types,        \* monitored resource types
  TypeOf,       \* MonitoredResource::type()
  Times,        \* instants of the system clock
  Payloads,     \* version, created_at and JSON body of an entry
  EmptyObject,  \* the payload of Metadata::IGNORED
  None          \* "no such key"

ASSUME StoreAssumption ==
  /\ TypeOf \in [Resources -> Types]
  /\ Times \subseteq Nat
  /\ 0 \in Times
  /\ EmptyObject \in Payloads

\* The key-is-missing marker is no value of a map.
ASSUME NoneAssumption ==
  /\ None \notin Resources
  /\ None \notin Nat
  /\ None \notin [is_deleted: BOOLEAN, collected_at: Times,
                  metadata: Payloads, ignore: BOOLEAN]

VARIABLES
  resource_map,          \* resource_map_
  metadata_map,          \* metadata_map_
  last_collection_times  \* last_collection_times_

storeVars == <<resource_map, metadata_map, last_collection_times>>

--------------------------------------------------------------------------------
\* struct Metadata, as far as the store and its clients tell entries apart.
Metadata == [is_deleted: BOOLEAN, collected_at: Times,
             metadata: Payloads, ignore: BOOLEAN]

\* Metadata::IGNORED(): the entry of a result that only names a resource.
IGNORED == [is_deleted |-> FALSE, collected_at |-> 0,
            metadata |-> EmptyObject, ignore |-> TRUE]

\* Metadata::Clone().
Clone(entry) == IF entry.ignore THEN IGNORED ELSE entry

StoreInit ==
  /\ resource_map = [id \in Ids |-> None]
  /\ metadata_map = [r \in Resources |-> None]
  /\ last_collection_times = [t \in Types |-> None]

\* Readers: each is one critical section.
LookupResource(id) == resource_map[id]

GetMetadataMap ==
  [r \in Resources |->
     IF metadata_map[r] = None THEN None ELSE Clone(metadata_map[r])]

GetLastCollectionTimes == last_collection_times

\* A plausible bug: assignment where the code has emplace.
UpdateResourceOverwrites(ids, resource) ==
  /\ resource_map' =
       [id \in Ids |-> IF id \in ids THEN resource ELSE resource_map[id]]
  /\ UNCHANGED <<metadata_map, last_collection_times>>

\* UpdateResource: emplace() leaves a mapping that is already there alone.
UpdateResource(ids, resource) ==
  /\ resource_map' =
       [id \in Ids |-> IF id \in ids /\ resource_map[id] = None
                       THEN resource ELSE resource_map[id]]
  /\ UNCHANGED <<metadata_map, last_collection_times>>

\* A plausible bug: the timestamp is emplaced and never raised.
EmplacedTime(type, collected_at) ==
  IF last_collection_times[type] = None
  THEN collected_at ELSE last_collection_times[type]

\* last_collection_times_ after emplace() and the forced raise.
RaisedTime(type, collected_at) ==
  IF \/ last_collection_times[type] = None
     \/ last_collection_times[type] < collected_at
  THEN collected_at
  ELSE last_collection_times[type]

\* UpdateMetadata for an entry that is not ignored: erase, emplace, raise.
ReplaceEntry(resource, entry) ==
  /\ metadata_map' = [metadata_map EXCEPT ![resource] = entry]
  /\ last_collection_times' =
       [last_collection_times EXCEPT
          ![TypeOf[resource]] = RaisedTime(TypeOf[resource], entry.collected_at)]
  /\ UNCHANGED resource_map

UpdateMetadata(resource, entry) ==
  \/ entry.ignore /\ UNCHANGED storeVars
  \/ ~entry.ignore /\ ReplaceEntry(resource, entry)

PurgeDeletedEntries ==
  /\ metadata_map' =
       [r \in Resources |->
          IF metadata_map[r] # None /\ metadata_map[r].is_deleted
          THEN None ELSE metadata_map[r]]
  /\ UNCHANGED <<resource_map, last_collection_times>>

--------------------------------------------------------------------------------
\* The store with arbitrary callers.
StoreNext ==
  \/ \E ids \in SUBSET Ids, r \in Resources : UpdateResource(ids, r)
  \/ \E r \in Resources, entry \in Metadata : UpdateMetadata(r, entry)
  \/ PurgeDeletedEntries

StoreSpec == StoreInit /\ [][StoreNext]_storeVars

--------------------------------------------------------------------------------
\* Types of the three maps (store.h:112-118).
StoreTypeOK ==
  /\ resource_map \in [Ids -> Resources \cup {None}]
  /\ metadata_map \in [Resources -> Metadata \cup {None}]
  /\ last_collection_times \in [Types -> Times \cup {None}]

\* Whatever order callers store entries in, late and out-of-date ones included,
\* last_collection_times_ of a type is never older than an entry of that type
\* the store still holds: the health check reads the one, the reporter sends
\* the other.
CollectionTimesCoverEntries ==
  \A r \in Resources :
    metadata_map[r] # None =>
      /\ last_collection_times[TypeOf[r]] # None
      /\ metadata_map[r].collected_at <= last_collection_times[TypeOf[r]]

\* A mapping handed out by reference (LookupResource returns after unlocking)
\* stays what it was: no step changes or removes it.
ResourceMapStable ==
  [][\A id \in Ids : resource_map[id] # None
                       => resource_map'[id] = resource_map[id]]_storeVars

\* The last collection time of a type never goes back and is never forgotten,
\* not even when every entry of the type is purged.
LastCollectionMonotone ==
  [][\A t \in Types : last_collection_times[t] # None =>
       /\ last_collection_times'[t] # None
       /\ last_collection_times[t] <= last_collection_times'[t]]_storeVars

================================================================================
