-------------------------- MODULE MetadataStoreProofs --------------------------
(***************************************************************************)
(* What the store promises to every client, for any set of ids, resources, *)
(* types, times and payloads.                                              *)
(***************************************************************************)
EXTENDS MetadataStore, TLAPS

\* The bound on the entries is inductive with the types: that a raise keeps it
\* needs that times are numbers.
StoreInv ==
  /\ StoreTypeOK
  /\ CollectionTimesCoverEntries

\* UpdateResource (store.cc:37) writes a resource under each id, so the
\* resource map keeps its type and the other two maps are untouched.
LEMMA UpdateResourceStep ==
  ASSUME StoreInv, NEW ids \in SUBSET Ids, NEW res \in Resources,
         UpdateResource(ids, res)
  PROVE  StoreInv'
BY DEF StoreInv, StoreTypeOK, CollectionTimesCoverEntries, UpdateResource

\* RaisedTime (store.cc:72-77) is a time, at least the collection time given
\* and at least the time recorded before.
LEMMA RaisedTimeBounds ==
  ASSUME StoreTypeOK, NEW t \in Types, NEW c \in Times
  PROVE  /\ RaisedTime(t, c) \in Times
         /\ RaisedTime(t, c) # None
         /\ c <= RaisedTime(t, c)
         /\ last_collection_times[t] # None =>
              last_collection_times[t] <= RaisedTime(t, c)
<1>1. c \in Nat /\ c # None
  BY StoreAssumption, NoneAssumption
<1>2. CASE last_collection_times[t] = None
  BY <1>1, <1>2 DEF RaisedTime
<1>3. CASE last_collection_times[t] # None
  <2>1. last_collection_times[t] \in Times
    BY <1>3 DEF StoreTypeOK
  <2>2. last_collection_times[t] \in Nat
    BY <2>1, StoreAssumption
  <2> QED
    BY <1>1, <1>3, <2>1, <2>2 DEF RaisedTime
<1> QED
  BY <1>2, <1>3

\* Storing an entry (store.cc:69-77) keeps the invariant: the time of its
\* type is raised to cover it, and still covers the entries already there.
LEMMA ReplaceEntryStep ==
  ASSUME StoreInv, NEW res \in Resources, NEW entry \in Metadata,
         ReplaceEntry(res, entry)
  PROVE  StoreInv'
<1> DEFINE t == TypeOf[res]
           c == entry.collected_at
<1>1. t \in Types /\ c \in Times
  BY StoreAssumption DEF Metadata
<1>2. /\ RaisedTime(t, c) \in Times
      /\ RaisedTime(t, c) # None
      /\ c <= RaisedTime(t, c)
      /\ last_collection_times[t] # None =>
           last_collection_times[t] <= RaisedTime(t, c)
  BY <1>1, RaisedTimeBounds DEF StoreInv
<1>3. StoreTypeOK'
  BY <1>1, <1>2 DEF StoreInv, StoreTypeOK, ReplaceEntry
<1>4. CollectionTimesCoverEntries'
  <2> SUFFICES ASSUME NEW r \in Resources, metadata_map'[r] # None
               PROVE  /\ last_collection_times'[TypeOf[r]] # None
                      /\ metadata_map'[r].collected_at
                           <= last_collection_times'[TypeOf[r]]
    BY DEF CollectionTimesCoverEntries
  <2>1. last_collection_times'
          = [last_collection_times EXCEPT ![t] = RaisedTime(t, c)]
    BY DEF ReplaceEntry
  <2>2. TypeOf[r] \in Types
    BY StoreAssumption
  <2>3. CASE r = res
    <3>1. metadata_map'[r] = entry
      BY <2>3 DEF ReplaceEntry, StoreInv, StoreTypeOK
    <3>2. last_collection_times'[TypeOf[r]] = RaisedTime(t, c)
      BY <2>1, <2>2, <2>3 DEF StoreInv, StoreTypeOK
    <3> QED
      BY <3>1, <3>2, <1>2
  <2>4. CASE r # res
    <3>1. metadata_map'[r] = metadata_map[r]
      BY <2>4 DEF ReplaceEntry, StoreInv, StoreTypeOK
    <3>2. /\ last_collection_times[TypeOf[r]] # None
          /\ metadata_map[r].collected_at <= last_collection_times[TypeOf[r]]
      BY <3>1 DEF StoreInv, CollectionTimesCoverEntries
    <3>3. metadata_map[r] \in Metadata
      BY <3>1 DEF StoreInv, StoreTypeOK
    <3>4. metadata_map[r].collected_at \in Nat
      BY <3>3, StoreAssumption DEF Metadata
    <3>5. CASE TypeOf[r] = t
      <4>1. last_collection_times'[TypeOf[r]] = RaisedTime(t, c)
        BY <2>1, <2>2, <3>5 DEF StoreInv, StoreTypeOK
      <4>2. last_collection_times[t] \in Nat /\ RaisedTime(t, c) \in Nat
        BY <1>1, <1>2, <3>2, <3>5, StoreAssumption DEF StoreInv, StoreTypeOK
      <4> HIDE DEF t, c
      <4> QED
        BY <1>2, <3>1, <3>2, <3>4, <3>5, <4>1, <4>2
    <3>6. CASE TypeOf[r] # t
      <4>1. last_collection_times'[TypeOf[r]] = last_collection_times[TypeOf[r]]
        BY <2>1, <2>2, <3>6 DEF StoreInv, StoreTypeOK
      <4> QED
        BY <3>1, <3>2, <4>1
    <3> QED
      BY <3>5, <3>6
  <2> QED
    BY <2>3, <2>4
<1> QED
  BY <1>3, <1>4 DEF StoreInv

\* UpdateMetadata (store.cc:50) keeps the invariant, whether it returns early
\* or stores the entry.
LEMMA UpdateMetadataStep ==
  ASSUME StoreInv, NEW res \in Resources, NEW entry \in Metadata,
         UpdateMetadata(res, entry)
  PROVE  StoreInv'
<1>1. CASE entry.ignore /\ UNCHANGED storeVars
  BY <1>1 DEF storeVars, StoreInv, StoreTypeOK, CollectionTimesCoverEntries
<1>2. CASE ~entry.ignore /\ ReplaceEntry(res, entry)
  BY <1>2, ReplaceEntryStep
<1> QED
  BY <1>1, <1>2 DEF UpdateMetadata

\* PurgeDeletedEntries (store.cc:98) only removes entries.
LEMMA PurgeDeletedEntriesStep ==
  ASSUME StoreInv, PurgeDeletedEntries
  PROVE  StoreInv'
BY DEF StoreInv, StoreTypeOK, CollectionTimesCoverEntries, PurgeDeletedEntries

\* Every operation of the store keeps the invariant.
LEMMA StoreStep ==
  ASSUME StoreInv, [StoreNext]_storeVars
  PROVE  StoreInv'
<1>1. ASSUME NEW ids \in SUBSET Ids, NEW r \in Resources,
             UpdateResource(ids, r)
      PROVE  StoreInv'
  BY <1>1, UpdateResourceStep
<1>2. ASSUME NEW r \in Resources, NEW entry \in Metadata,
             UpdateMetadata(r, entry)
      PROVE  StoreInv'
  BY <1>2, UpdateMetadataStep
<1>3. CASE PurgeDeletedEntries
  BY <1>3, PurgeDeletedEntriesStep
<1>4. CASE UNCHANGED storeVars
  BY <1>4 DEF storeVars, StoreInv, StoreTypeOK, CollectionTimesCoverEntries
<1> QED
  BY <1>1, <1>2, <1>3, <1>4 DEF StoreNext

\* The invariant holds of the empty store and is kept by every operation.
THEOREM StoreInvariant == StoreSpec => []StoreInv
<1>1. StoreInit => StoreInv
  BY DEF StoreInit, StoreInv, StoreTypeOK, CollectionTimesCoverEntries
<1>2. StoreInv /\ [StoreNext]_storeVars => StoreInv'
  BY StoreStep
<1> QED
  BY <1>1, <1>2, PTL DEF StoreSpec

\* The three maps of the store (store.h:112-118) always have their types.
THEOREM StoreTypeCorrect == StoreSpec => []StoreTypeOK
<1>1. StoreInv => StoreTypeOK
  BY DEF StoreInv
<1> QED
  BY <1>1, StoreInvariant, PTL

\* However late or out of order entries arrive at UpdateMetadata, the last
\* collection time of a type covers every entry of the type still stored.
THEOREM TimesCoverEntries == StoreSpec => []CollectionTimesCoverEntries
<1>1. StoreInv => CollectionTimesCoverEntries
  BY DEF StoreInv
<1> QED
  BY <1>1, StoreInvariant, PTL

\* emplace() (store.cc:46) is the only write to the resource map: one step of
\* the store leaves every mapping that is there as it is.
LEMMA MappingsStay ==
  ASSUME StoreInv, [StoreNext]_storeVars, NEW id \in Ids,
         resource_map[id] # None
  PROVE  resource_map'[id] = resource_map[id]
BY DEF StoreInv, StoreTypeOK, StoreNext, storeVars, UpdateResource,
       UpdateMetadata, ReplaceEntry, PurgeDeletedEntries

\* The forced raise (store.cc:72-77) is the only write to a time that is there:
\* one step of the store neither lowers nor forgets it.
LEMMA TimesOnlyRise ==
  ASSUME StoreInv, [StoreNext]_storeVars, NEW t \in Types,
         last_collection_times[t] # None
  PROVE  /\ last_collection_times'[t] # None
         /\ last_collection_times[t] <= last_collection_times'[t]
<1>0. last_collection_times[t] \in Nat
  BY StoreAssumption DEF StoreInv, StoreTypeOK
<1>1. CASE UNCHANGED last_collection_times
  BY <1>0, <1>1
<1>2. ASSUME NEW r \in Resources, NEW entry \in Metadata,
             ReplaceEntry(r, entry)
      PROVE  /\ last_collection_times'[t] # None
             /\ last_collection_times[t] <= last_collection_times'[t]
  <2>1. TypeOf[r] \in Types /\ entry.collected_at \in Times
    BY StoreAssumption DEF Metadata
  <2>2. /\ RaisedTime(TypeOf[r], entry.collected_at) # None
        /\ last_collection_times[TypeOf[r]] # None =>
             last_collection_times[TypeOf[r]]
               <= RaisedTime(TypeOf[r], entry.collected_at)
    BY <2>1, RaisedTimeBounds DEF StoreInv
  <2>3. last_collection_times'[t] =
          IF t = TypeOf[r] THEN RaisedTime(TypeOf[r], entry.collected_at)
                           ELSE last_collection_times[t]
    BY <1>2 DEF ReplaceEntry, StoreInv, StoreTypeOK
  <2> QED
    BY <1>0, <2>2, <2>3
<1> QED
  BY <1>1, <1>2 DEF StoreNext, storeVars, UpdateResource,
                    UpdateMetadata, PurgeDeletedEntries

\* LookupResource (store.cc:31) may return a reference after unlocking: no
\* operation of the store changes or removes a mapping.
THEOREM ResourceMapIsStable == StoreSpec => ResourceMapStable
<1>1. ASSUME StoreInv, [StoreNext]_storeVars
      PROVE  [\A id \in Ids : resource_map[id] # None
                => resource_map'[id] = resource_map[id]]_storeVars
  BY <1>1, MappingsStay
<1> QED
  BY <1>1, StoreInvariant, PTL DEF StoreSpec, ResourceMapStable

\* GetLastCollectionTimes (store.cc:93) never sees a time go back.
THEOREM CollectionTimesAreMonotone == StoreSpec => LastCollectionMonotone
<1>1. ASSUME StoreInv, [StoreNext]_storeVars
      PROVE  [\A t \in Types : last_collection_times[t] # None =>
                /\ last_collection_times'[t] # None
                /\ last_collection_times[t] <= last_collection_times'[t]]_storeVars
  BY <1>1, TimesOnlyRise
<1> QED
  BY <1>1, StoreInvariant, PTL DEF StoreSpec, LastCollectionMonotone
================================================================================
