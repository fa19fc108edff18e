----------------------------- MODULE ReporterProofs ----------------------------
(***************************************************************************)
(* The reporter never purges a deletion it has seen without having         *)
(* reported it, and its requests keep within the configured limits, for    *)
(* any resources, entries, sizes and limits.                               *)
(***************************************************************************)
EXTENDS Reporter, MetadataStoreProofs, TLAPS

\* Resource r waits in the request being filled.
InRequest(r) == \E i \in 1..Len(entries) : entries[i] = r

\* What the loop of SendMetadata has passed is accounted for.
Accounted ==
  \A r \in Resources :
    /\ rpc \in {"batch", "purge"}
    /\ snapshot[r] # None
    /\ r \notin todo
    /\ ~InRequest(r)
    => ingested[r] = snapshot[r] \/ TooLarge(snapshot[r])

\* The purge is reached only when nothing is left to send.
PurgeAfterAll == rpc = "purge" => todo = {} /\ entries = <<>>

\* The size counted so far; an empty request has room for the next entry.
SizeCounted ==
  /\ rpc = "batch" /\ entries = <<>> => total_size = EmptySize
  /\ rpc = "batch" /\ entries # <<>> =>
       /\ total_size <= LimitBytes
       /\ LimitCount > 0 => Len(entries) <= LimitCount

\* The inductive invariant.
ReporterInv ==
  /\ ReporterTypeOK
  /\ Accounted
  /\ PurgeAfterAll
  /\ SizeCounted

--------------------------------------------------------------------------------
\* Every step of the reporter is a step of the store or leaves it alone.
LEMMA ReporterStepIsStoreStep ==
  ASSUME [ReporterNext]_vars
  PROVE  [StoreNext]_storeVars
<1>1. CASE UpdaterStores
  <2>1. PICK r \in Resources : \E entry \in Incoming[r] : UpdateMetadata(r, entry)
    BY <1>1 DEF UpdaterStores
  <2>2. Incoming[r] \subseteq Metadata
    BY ReporterAssumption
  <2> QED
    BY <2>1, <2>2 DEF StoreNext
<1>2. CASE Purge
  BY <1>2 DEF Purge, StoreNext
<1>3. CASE UNCHANGED storeVars
  BY <1>3
<1>4. ASSUME ReportMetadata, ~Purge
      PROVE  UNCHANGED storeVars
  BY <1>4 DEF ReportMetadata, SendMetadata, TimerInit, InitialWait, Collect,
              DropTooLarge, AddEntry, SendFull, SendRest, NothingToSend,
              RequestFails, PeriodElapsed, StopReporting
<1>5. ASSUME NotifyStopReporter \/ JoinReturns \/ UNCHANGED vars
      PROVE  UNCHANGED storeVars
  BY <1>5 DEF NotifyStopReporter, JoinReturns, vars
<1> QED
  BY <1>1, <1>2, <1>3, <1>4, <1>5 DEF ReporterNext

\* The reporter with its updaters implements the store's specification, so
\* everything proved of the store holds of it.
THEOREM ReporterImplementsStore == ReporterSpec => StoreSpec
<1>1. ReporterInit => StoreInit
  BY DEF ReporterInit
<1>2. [ReporterNext]_vars => [StoreNext]_storeVars
  BY ReporterStepIsStoreStep
<1> QED
  BY <1>1, <1>2, PTL DEF ReporterSpec, StoreSpec

--------------------------------------------------------------------------------
\* GetMetadataMap copies entries: each copy has the type of an entry, and a
\* resource has a copy exactly when it has an entry.
LEMMA CopyHasType ==
  ASSUME StoreTypeOK
  PROVE  GetMetadataMap \in [Resources -> Metadata \cup {None}]
BY StoreAssumption DEF GetMetadataMap, Clone, IGNORED, Metadata, StoreTypeOK

\* The set a request's entries are drawn from.
Listed == {r \in Resources : snapshot[r] # None}

\* Typing of the service's state after it took a request.
LEMMA TakenHasType ==
  ASSUME ReporterTypeOK
  PROVE  Taken \in [Resources -> Metadata \cup {None}]
BY DEF ReporterTypeOK, Taken

\* The size of a listed entry is a number of bytes.
LEMMA SizeIsNat ==
  ASSUME ReporterTypeOK, NEW r \in Listed
  PROVE  Size(r) \in Nat
<1>1. snapshot[r] \in Metadata
  BY DEF ReporterTypeOK, Listed
<1> QED
  BY <1>1, ReporterAssumption DEF Size, Metadata

\* Steps of the reporter thread that change nothing but its position, the
\* timer, the destructor or the store keep the invariant.
LEMMA ControlSteps ==
  ASSUME ReporterInv, StoreTypeOK',
         \/ TimerInit \/ InitialWait \/ PeriodElapsed \/ StopReporting
         \/ NotifyStopReporter \/ JoinReturns \/ UpdaterStores \/ Purge
         \/ UNCHANGED vars
  PROVE  ReporterInv'
<1> USE DEF ReporterInv, ReporterTypeOK, Reporting, T!Init, T!WaitTimedOut,
            T!WaitCancelled, T!Cancel
<1>1. CASE TimerInit
  BY <1>1 DEF TimerInit, Accounted, PurgeAfterAll, SizeCounted
<1>2. CASE InitialWait
  BY <1>2 DEF InitialWait, Accounted, PurgeAfterAll, SizeCounted
<1>3. CASE PeriodElapsed
  BY <1>3 DEF PeriodElapsed, Accounted, PurgeAfterAll, SizeCounted
<1>4. CASE StopReporting
  BY <1>4 DEF StopReporting, Accounted, PurgeAfterAll, SizeCounted
<1>5. CASE NotifyStopReporter
  BY <1>5 DEF NotifyStopReporter, Accounted, PurgeAfterAll, SizeCounted,
              InRequest, TooLarge
<1>6. CASE JoinReturns
  BY <1>6 DEF JoinReturns, Accounted, PurgeAfterAll, SizeCounted,
              InRequest, TooLarge
<1>7. CASE UpdaterStores
  BY <1>7 DEF UpdaterStores, reporterVars, Accounted, PurgeAfterAll,
              SizeCounted, InRequest, TooLarge
<1>8. CASE Purge
  BY <1>8 DEF Purge, Accounted, PurgeAfterAll, SizeCounted
<1>9. CASE UNCHANGED vars
  BY <1>9 DEF vars, reporterVars, Accounted, PurgeAfterAll, SizeCounted,
              InRequest, TooLarge
<1> QED
  BY <1>1, <1>2, <1>3, <1>4, <1>5, <1>6, <1>7, <1>8, <1>9

\* Collect: nothing of the new snapshot has been passed yet.
LEMMA CollectStep ==
  ASSUME ReporterInv, StoreTypeOK', Collect
  PROVE  ReporterInv'
<1>1. snapshot' \in [Resources -> Metadata \cup {None}]
  BY CopyHasType DEF Collect, ReporterInv, ReporterTypeOK
<1>2. ReporterTypeOK'
  BY <1>1, ReporterAssumption DEF Collect, ReporterInv, ReporterTypeOK, Reporting
<1>3. Accounted'
  BY DEF Collect, Accounted
<1>4. PurgeAfterAll' /\ SizeCounted'
  BY DEF Collect, PurgeAfterAll, SizeCounted
<1> QED
  BY <1>2, <1>3, <1>4 DEF ReporterInv

\* DropTooLarge: the entry passed over is too large.
LEMMA DropTooLargeStep ==
  ASSUME ReporterInv, StoreTypeOK', DropTooLarge
  PROVE  ReporterInv'
<1>1. ReporterTypeOK'
  BY DEF DropTooLarge, ReporterInv, ReporterTypeOK
<1>2. Accounted'
  BY DEF DropTooLarge, ReporterInv, Accounted, InRequest, TooLarge
<1>3. PurgeAfterAll' /\ SizeCounted'
  BY DEF DropTooLarge, ReporterInv, PurgeAfterAll, SizeCounted
<1> QED
  BY <1>1, <1>2, <1>3 DEF ReporterInv

\* AddEntry: the entry passed is in the request, which was not full.
LEMMA AddEntryStep ==
  ASSUME ReporterInv, StoreTypeOK', AddEntry
  PROVE  ReporterInv'
<1>1. PICK r \in todo :
        /\ ~TooLarge(snapshot[r])
        /\ ~Full(r)
        /\ todo' = todo \ {r}
        /\ entries' = Append(entries, r)
        /\ total_size' = total_size + Size(r)
  BY DEF AddEntry
<1>2. r \in Listed /\ entries \in Seq(Listed)
  BY DEF ReporterInv, ReporterTypeOK, Listed
<1>3. Size(r) \in Nat
  BY <1>2, SizeIsNat DEF ReporterInv
<1>4. /\ entries' \in Seq(Listed)
      /\ Len(entries') = Len(entries) + 1
      /\ entries'[Len(entries) + 1] = r
      /\ \A i \in 1..Len(entries) : entries'[i] = entries[i]
  BY <1>1, <1>2
<1>5. /\ rpc = "batch"
      /\ UNCHANGED <<rpc, timer_locked, snapshot, failures, ingested, dtor>>
  BY DEF AddEntry
<1>6. ReporterTypeOK'
  BY <1>1, <1>3, <1>4, <1>5 DEF ReporterInv, ReporterTypeOK, Listed
<1>7. Accounted'
  <2> SUFFICES ASSUME NEW s \in Resources, snapshot[s] # None,
                      s \notin todo', ~InRequest(s)'
               PROVE  ingested[s] = snapshot[s] \/ TooLarge(snapshot[s])
    BY <1>5 DEF Accounted, TooLarge
  <2>1. s # r
    BY <1>4, <1>2 DEF InRequest
  <2>2. ~InRequest(s)
    BY <1>2, <1>4 DEF InRequest
  <2> QED
    BY <1>1, <1>5, <2>1, <2>2 DEF ReporterInv, Accounted
<1>8. PurgeAfterAll'
  BY <1>5 DEF PurgeAfterAll
<1>9. SizeCounted'
  <2>1. entries' # <<>>
    BY <1>2, <1>4
  <2>2. total_size \in Nat /\ Len(entries) \in Nat
    BY <1>2 DEF ReporterInv, ReporterTypeOK
  <2>3. Len(entries) # LimitCount /\ total_size + Size(r) <= LimitBytes
    BY <1>1, <1>3, <2>2, ReporterAssumption DEF Full
  <2>4. LimitCount > 0 => Len(entries) <= LimitCount
    BY <1>5, <1>2, ReporterAssumption DEF ReporterInv, SizeCounted
  <2> QED
    BY <1>1, <1>4, <2>1, <2>2, <2>3, <2>4, ReporterAssumption DEF SizeCounted
<1> QED
  BY <1>6, <1>7, <1>8, <1>9 DEF ReporterInv

\* SendFull: the service took the request, the entry passed starts the next.
LEMMA SendFullStep ==
  ASSUME ReporterInv, StoreTypeOK', SendFull
  PROVE  ReporterInv'
<1>1. PICK r \in todo :
        /\ ~TooLarge(snapshot[r])
        /\ todo' = todo \ {r}
        /\ entries' = <<r>>
        /\ total_size' = EmptySize + Size(r)
  BY DEF SendFull
<1>2. r \in Listed
  BY DEF ReporterInv, ReporterTypeOK, Listed
<1>3. Size(r) \in Nat
  BY <1>2, SizeIsNat DEF ReporterInv
<1>4. /\ rpc = "batch"
      /\ ingested' = Taken
      /\ UNCHANGED <<rpc, timer_locked, snapshot, failures, dtor>>
  BY DEF SendFull
<1>5. ReporterTypeOK'
  <2>1. ingested' \in [Resources -> Metadata \cup {None}]
    BY <1>4, TakenHasType DEF ReporterInv
  <2>2. entries' \in Seq(Listed) /\ total_size' \in Nat
    BY <1>1, <1>2, <1>3, ReporterAssumption
  <2> QED
    BY <1>1, <1>4, <2>1, <2>2 DEF ReporterInv, ReporterTypeOK, Listed
<1>6. Accounted'
  <2> SUFFICES ASSUME NEW s \in Resources, snapshot[s] # None,
                      s \notin todo', ~InRequest(s)'
               PROVE  ingested'[s] = snapshot[s] \/ TooLarge(snapshot[s])
    BY <1>4 DEF Accounted, TooLarge
  <2>1. s # r
    BY <1>1 DEF InRequest
  <2>2. CASE InRequest(s)
    BY <1>4, <2>2 DEF Taken, InRequest
  <2>3. CASE ~InRequest(s)
    <3>1. ingested'[s] = ingested[s]
      BY <1>4, <2>3 DEF Taken, InRequest
    <3> QED
      BY <1>1, <1>4, <2>1, <2>3, <3>1 DEF ReporterInv, Accounted
  <2> QED
    BY <2>2, <2>3
<1>7. PurgeAfterAll'
  BY <1>4 DEF PurgeAfterAll
<1>8. SizeCounted'
  <2>1. Len(entries') = 1 /\ entries' # <<>>
    BY <1>1
  <2>2. EmptySize + Size(r) <= LimitBytes
    BY <1>1, <1>3, ReporterAssumption DEF TooLarge, Size
  <2> QED
    BY <1>1, <2>1, <2>2, ReporterAssumption DEF SizeCounted
<1> QED
  BY <1>5, <1>6, <1>7, <1>8 DEF ReporterInv

\* SendRest: the service took the last request; nothing is left.
LEMMA SendRestStep ==
  ASSUME ReporterInv, StoreTypeOK', SendRest
  PROVE  ReporterInv'
<1>1. /\ rpc = "batch" /\ rpc' = "purge"
      /\ todo = {} /\ entries' = <<>>
      /\ ingested' = Taken
      /\ UNCHANGED <<timer_locked, snapshot, todo, total_size, failures, dtor>>
  BY DEF SendRest
<1>2. ReporterTypeOK'
  BY <1>1, TakenHasType DEF ReporterInv, ReporterTypeOK, Reporting
<1>3. Accounted'
  <2> SUFFICES ASSUME NEW s \in Resources, snapshot[s] # None
               PROVE  ingested'[s] = snapshot[s] \/ TooLarge(snapshot[s])
    BY <1>1 DEF Accounted, TooLarge
  <2>1. CASE InRequest(s)
    BY <1>1, <2>1 DEF Taken, InRequest
  <2>2. CASE ~InRequest(s)
    <3>1. ingested'[s] = ingested[s]
      BY <1>1, <2>2 DEF Taken, InRequest
    <3> QED
      BY <1>1, <2>2, <3>1 DEF ReporterInv, Accounted
  <2> QED
    BY <2>1, <2>2
<1>4. PurgeAfterAll' /\ SizeCounted'
  BY <1>1 DEF PurgeAfterAll, SizeCounted
<1> QED
  BY <1>2, <1>3, <1>4 DEF ReporterInv

\* NothingToSend: the whole snapshot was passed and the request is empty.
LEMMA NothingToSendStep ==
  ASSUME ReporterInv, StoreTypeOK', NothingToSend
  PROVE  ReporterInv'
<1>1. ReporterTypeOK'
  BY DEF NothingToSend, ReporterInv, ReporterTypeOK, Reporting
<1>2. Accounted'
  BY DEF NothingToSend, ReporterInv, Accounted, InRequest, TooLarge
<1>3. PurgeAfterAll' /\ SizeCounted'
  BY DEF NothingToSend, PurgeAfterAll, SizeCounted
<1> QED
  BY <1>1, <1>2, <1>3 DEF ReporterInv

\* RequestFails: the report is abandoned and no purge follows.
LEMMA RequestFailsStep ==
  ASSUME ReporterInv, StoreTypeOK', RequestFails
  PROVE  ReporterInv'
<1>1. ingested' \in [Resources -> Metadata \cup {None}]
  BY TakenHasType DEF RequestFails, Fails, ReporterInv, ReporterTypeOK
<1>2. failures' \in 0..MaxFailures
  BY ReporterAssumption DEF RequestFails, Fails, ReporterInv, ReporterTypeOK
<1>3. ReporterTypeOK'
  BY <1>1, <1>2 DEF RequestFails, ReporterInv, ReporterTypeOK, Reporting
<1>4. Accounted' /\ PurgeAfterAll' /\ SizeCounted'
  BY DEF RequestFails, Accounted, PurgeAfterAll, SizeCounted
<1> QED
  BY <1>3, <1>4 DEF ReporterInv

\* The invariant holds initially and every step keeps it.
THEOREM ReporterInvariant == ReporterSpec => []ReporterInv
<1>1. ReporterInit /\ StoreInv => ReporterInv
  <2> SUFFICES ASSUME ReporterInit, StoreInv PROVE ReporterInv
    OBVIOUS
  <2>1. EmptySize \in Nat /\ 0 \in 0..MaxFailures
    BY ReporterAssumption
  <2>2. ReporterTypeOK
    <3>1. snapshot \in [Resources -> Metadata \cup {None}]
      BY DEF ReporterInit, Empty
    <3>2. ingested \in [Resources -> Metadata \cup {None}]
      BY DEF ReporterInit, Empty
    <3>3. /\ todo \subseteq {r \in Resources : snapshot[r] # None}
          /\ entries \in Seq({r \in Resources : snapshot[r] # None})
      BY DEF ReporterInit
    <3> QED
      BY <2>1, <3>1, <3>2, <3>3
         DEF ReporterInit, StoreInv, ReporterTypeOK, Reporting
  <2>3. Accounted /\ PurgeAfterAll /\ SizeCounted
    BY DEF ReporterInit, Accounted, PurgeAfterAll, SizeCounted
  <2> QED
    BY <2>2, <2>3 DEF ReporterInv
<1>2. ReporterInv /\ StoreInv' /\ [ReporterNext]_vars => ReporterInv'
  <2> SUFFICES ASSUME ReporterInv, StoreTypeOK', [ReporterNext]_vars
               PROVE  ReporterInv'
    BY DEF StoreInv
  <2> QED
    BY ControlSteps, CollectStep, DropTooLargeStep, AddEntryStep, SendFullStep,
       SendRestStep, NothingToSendStep, RequestFailsStep
       DEF ReporterNext, ReportMetadata, SendMetadata
<1>3. ReporterSpec => []StoreInv
  BY ReporterImplementsStore, StoreInvariant, PTL
<1> QED
  BY <1>1, <1>2, <1>3, PTL DEF ReporterSpec

\* The variables of the reporter thread (reporter.cc:66-93, 138-203) have
\* their types.
THEOREM ReporterTypeCorrect == ReporterSpec => []ReporterTypeOK
<1>1. ReporterInv => ReporterTypeOK
  BY DEF ReporterInv
<1> QED
  BY <1>1, ReporterInvariant, PTL

\* SendMetadata's requests keep within the limits, up to the commas.
THEOREM RequestsWithinLimits == ReporterSpec => []RequestWithinLimits
<1>1. ReporterInv => RequestWithinLimits
  <2> SUFFICES ASSUME ReporterInv, rpc = "batch", entries # <<>>
               PROVE  /\ total_size <= LimitBytes
                      /\ LimitCount > 0 =>
                           /\ Len(entries) <= LimitCount
                           /\ WireSize < LimitBytes + LimitCount
    BY DEF RequestWithinLimits
  <2>1. /\ total_size <= LimitBytes
        /\ LimitCount > 0 => Len(entries) <= LimitCount
    BY DEF ReporterInv, SizeCounted
  <2>2. total_size \in Nat /\ Len(entries) \in Nat
    BY DEF ReporterInv, ReporterTypeOK
  <2> QED
    BY <2>1, <2>2, ReporterAssumption DEF WireSize
<1> QED
  BY <1>1, ReporterInvariant, PTL

\* SendMetadata's loop loses no entry of the snapshot.
THEOREM NoEntryIsSkipped == ReporterSpec => []NoEntrySkipped
<1>1. ReporterInv => NoEntrySkipped
  BY DEF ReporterInv, Accounted, InRequest, NoEntrySkipped
<1> QED
  BY <1>1, ReporterInvariant, PTL

\* PurgeDeletedEntries, as ReportMetadata calls it, removes no entry of the
\* snapshot that the service has not taken.
THEOREM PurgedEntriesWereReported == ReporterSpec => PurgedWasReported
<1>1. ASSUME ReporterInv, [ReporterNext]_vars
      PROVE  [\A r \in Resources :
                metadata_map[r] # None /\ metadata_map'[r] = None
                  /\ metadata_map[r] = snapshot[r]
                  => ingested[r] = metadata_map[r]
                     \/ TooLarge(metadata_map[r])]_vars
  <2> SUFFICES ASSUME NEW r \in Resources,
                      metadata_map[r] # None, metadata_map'[r] = None,
                      metadata_map[r] = snapshot[r]
               PROVE  ingested[r] = metadata_map[r] \/ TooLarge(metadata_map[r])
    OBVIOUS
  <2>1. ~UNCHANGED metadata_map
    OBVIOUS
  <2>2. CASE UpdaterStores
    <3>1. PICK s \in Resources : \E e \in Incoming[s] : UpdateMetadata(s, e)
      BY <2>2 DEF UpdaterStores
    <3>2. PICK entry \in Incoming[s] : UpdateMetadata(s, entry)
      BY <3>1
    <3>3. entry # None
      BY ReporterAssumption, NoneAssumption DEF Metadata
    <3> QED
      BY <1>1, <2>1, <3>2, <3>3
         DEF UpdateMetadata, ReplaceEntry, storeVars, ReporterInv,
             ReporterTypeOK, StoreTypeOK
  <2>3. CASE Purge
    <3>1. rpc = "purge" /\ todo = {} /\ entries = <<>>
      BY <1>1, <2>3 DEF Purge, ReporterInv, PurgeAfterAll
    <3>2. ~InRequest(r)
      BY <3>1 DEF InRequest
    <3> QED
      BY <1>1, <3>1, <3>2 DEF ReporterInv, Accounted
  <2>4. ASSUME ~UpdaterStores, ~Purge
        PROVE  UNCHANGED metadata_map
    BY <1>1, <2>4
       DEF ReporterNext, ReportMetadata, SendMetadata, TimerInit, InitialWait,
           Collect, DropTooLarge, AddEntry, SendFull, SendRest, NothingToSend,
           RequestFails, PeriodElapsed, StopReporting, NotifyStopReporter,
           JoinReturns, vars, storeVars
  <2> QED
    BY <2>1, <2>2, <2>3, <2>4
<1> QED
  BY <1>1, ReporterInvariant, PTL DEF ReporterSpec, PurgedWasReported
================================================================================
