------------------------------- MODULE Reporter --------------------------------
(***************************************************************************)
(* The metadata reporter (reporter.h, reporter.cc): a thread that waits,   *)
(* copies the metadata map, sends it in requests bounded by count and by   *)
(* bytes, purges deleted entries after a successful report, and goes round *)
(* again after a period.  Updaters write to the store at any time, the     *)
(* service may reject a request or fail to answer, and the destructor      *)
(* cancels the timer and joins the thread.                                 *)
(*                                                                         *)
(* A request is a sequence of resources (their entries are those of the    *)
(* snapshot); only sizes of entries are kept.                              *)
(***************************************************************************)
EXTENDS MetadataStore, Sequences, Integers, FiniteSets

CONSTANTS
  Incoming,      \* entries that updaters may store, by resource
  Rejected,      \* payloads that the service never takes
  EntrySize,     \* bytes of the JSON form of an entry with a given payload
  EmptySize,     \* bytes of a request without entries
  LimitBytes,    \* MetadataIngestionRequestSizeLimitBytes
  LimitCount,    \* MetadataIngestionRequestSizeLimitCount
  Rank,          \* operator< of MonitoredResource, the order of std::map
  PurgeDeleted,  \* MetadataReporterPurgeDeleted
  MaxFailures    \* bound: requests that may fail in a behaviour

ASSUME ReporterAssumption ==
  /\ Incoming \in [Resources -> SUBSET Metadata]
  /\ Rejected \subseteq Payloads
  /\ EntrySize \in [Payloads -> Nat]
  /\ EmptySize \in Nat
  /\ LimitBytes \in Nat
  /\ LimitCount \in Nat
  /\ Rank \in [Resources -> Nat]
  /\ \A r, s \in Resources : Rank[r] = Rank[s] => r = s
  /\ PurgeDeleted \in BOOLEAN
  /\ MaxFailures \in Nat

VARIABLES
  rpc,           \* where the reporter thread stands
  timer_locked,  \* timer_
  snapshot,      \* the map given to SendMetadata
  todo,          \* resources of the snapshot the loop has not reached
  entries,       \* entries of the request being filled
  total_size,    \* total_size
  failures,      \* ghost: requests that failed so far
  ingested,      \* ghost: the last entry of each resource the service took
  dtor           \* where the destructor stands

reporterVars == <<rpc, timer_locked, snapshot, todo, entries, total_size,
                  failures, ingested, dtor>>
vars == <<storeVars, reporterVars>>

T == INSTANCE Timer WITH locked <- timer_locked

Empty == [r \in Resources |-> None]

\* The loop of ReportMetadata, after the initial wait.
Reporting == {"collect", "batch", "purge", "wait"}

ReporterInit ==
  /\ StoreInit
  /\ rpc = "start"
  /\ timer_locked = FALSE
  /\ snapshot = Empty
  /\ todo = {}
  /\ entries = <<>>
  /\ total_size = EmptySize
  /\ failures = 0
  /\ ingested = Empty
  /\ dtor = "alive"

--------------------------------------------------------------------------------
\* ReportMetadata up to its loop.

TimerInit ==
  /\ rpc = "start"
  /\ T!Init
  /\ rpc' = "initial_wait"
  /\ UNCHANGED <<storeVars, snapshot, todo, entries, total_size, failures,
                 ingested, dtor>>

\* The result of the first Wait is not looked at.
InitialWait ==
  /\ rpc = "initial_wait"
  /\ T!WaitTimedOut \/ T!WaitCancelled
  /\ rpc' = "collect"
  /\ UNCHANGED <<storeVars, snapshot, todo, entries, total_size, failures,
                 ingested, dtor>>

\* SendMetadata(store_->GetMetadataMap()) up to the loop over the map.  An
\* empty map returns at once.
Collect ==
  /\ rpc = "collect"
  /\ snapshot' = GetMetadataMap
  /\ todo' = {r \in Resources : GetMetadataMap[r] # None}
  /\ rpc' = IF todo' = {} THEN "purge" ELSE "batch"
  /\ entries' = <<>>
  /\ total_size' = EmptySize
  /\ UNCHANGED <<storeVars, timer_locked, failures, ingested, dtor>>

--------------------------------------------------------------------------------
\* The loop of SendMetadata.

Size(r) == EntrySize[snapshot[r].metadata]

\* The next element of the std::map being iterated.
IsNext(r) == r \in todo /\ \A s \in todo : Rank[r] <= Rank[s]

\* An entry that does not fit in a request of its own.
TooLarge(entry) == EmptySize + EntrySize[entry.metadata] > LimitBytes

\* A plausible bug: the size of the entry at hand is left out.
FullIgnoringEntry(r) == \/ Len(entries) = LimitCount
                        \/ total_size > LimitBytes

Full(r) == \/ Len(entries) = LimitCount
           \/ total_size + Size(r) > LimitBytes

\* The service answers a request with such an entry with 300 or more.
Refused == \E i \in 1..Len(entries) : snapshot[entries[i]].metadata \in Rejected

\* What the service has after taking the request.
Taken == [r \in Resources |->
            IF \E i \in 1..Len(entries) : entries[i] = r
            THEN snapshot[r] ELSE ingested[r]]

DropTooLarge ==
  /\ rpc = "batch"
  /\ \E r \in todo : IsNext(r) /\ TooLarge(snapshot[r]) /\ todo' = todo \ {r}
  /\ UNCHANGED <<storeVars, rpc, timer_locked, snapshot, entries, total_size,
                 failures, ingested, dtor>>

AddEntry ==
  /\ rpc = "batch"
  /\ \E r \in todo :
       /\ IsNext(r) /\ ~TooLarge(snapshot[r]) /\ ~Full(r)
       /\ todo' = todo \ {r}
       /\ entries' = Append(entries, r)
       /\ total_size' = total_size + Size(r)
  /\ UNCHANGED <<storeVars, rpc, timer_locked, snapshot, failures, ingested, dtor>>

\* A plausible bug: the flush swallows the entry at hand.
SendFullLosesEntry ==
  /\ rpc = "batch"
  /\ \E r \in todo :
       /\ IsNext(r) /\ ~TooLarge(snapshot[r]) /\ Full(r)
       /\ todo' = todo \ {r}
  /\ ~Refused
  /\ entries' = <<>>
  /\ total_size' = EmptySize
  /\ ingested' = Taken
  /\ UNCHANGED <<storeVars, rpc, timer_locked, snapshot, failures, dtor>>

\* A full request is sent, the vector is cleared, and the entry at hand starts
\* the next one.
SendFull ==
  /\ rpc = "batch"
  /\ \E r \in todo :
       /\ IsNext(r) /\ ~TooLarge(snapshot[r]) /\ Full(r)
       /\ todo' = todo \ {r}
       /\ entries' = <<r>>
       /\ total_size' = EmptySize + Size(r)
  /\ ~Refused
  /\ ingested' = Taken
  /\ UNCHANGED <<storeVars, rpc, timer_locked, snapshot, failures, dtor>>

\* After the loop a nonempty remainder is sent.
SendRest ==
  /\ rpc = "batch" /\ todo = {}
  /\ entries # <<>>
  /\ ~Refused
  /\ ingested' = Taken
  /\ entries' = <<>>
  /\ rpc' = "purge"
  /\ UNCHANGED <<storeVars, timer_locked, snapshot, todo, total_size, failures,
                 dtor>>

\* Every entry was dropped: there is nothing to send.
NothingToSend ==
  /\ rpc = "batch" /\ todo = {}
  /\ entries = <<>>
  /\ rpc' = "purge"
  /\ UNCHANGED <<storeVars, timer_locked, snapshot, todo, entries, total_size,
                 failures, ingested, dtor>>

\* SendMetadata is about to post a request.
AboutToSend == \/ todo = {} /\ entries # <<>>
               \/ \E r \in todo : IsNext(r) /\ ~TooLarge(snapshot[r]) /\ Full(r)

\* The connection fails, or the status is 300 or more.  When only the answer was
\* lost the service has taken the entries all the same.
Fails ==
  \/ /\ Refused
     /\ UNCHANGED <<failures, ingested>>
  \/ /\ ~Refused /\ failures < MaxFailures
     /\ failures' = failures + 1
     /\ ingested' \in {ingested, Taken}

\* A plausible bug: the purge runs although the report failed.
RequestFailsThenPurge ==
  /\ rpc = "batch"
  /\ AboutToSend
  /\ Fails
  /\ rpc' = "purge"
  /\ UNCHANGED <<storeVars, timer_locked, snapshot, todo, entries, total_size,
                 dtor>>

\* A plausible bug: the exception is not caught and the loop ends.
RequestFailsEndsLoop ==
  /\ rpc = "batch"
  /\ AboutToSend
  /\ Fails
  /\ rpc' = "done"
  /\ UNCHANGED <<storeVars, timer_locked, snapshot, todo, entries, total_size,
                 dtor>>

\* The exception leaves SendMetadata, whatever it has not sent yet, and skips
\* the purge.
RequestFails ==
  /\ rpc = "batch"
  /\ AboutToSend
  /\ Fails
  /\ rpc' = "wait"
  /\ UNCHANGED <<storeVars, timer_locked, snapshot, todo, entries, total_size,
                 dtor>>

--------------------------------------------------------------------------------
\* The rest of the loop of ReportMetadata.

Purge ==
  /\ rpc = "purge"
  /\ rpc' = "wait"
  /\ IF PurgeDeleted THEN PurgeDeletedEntries ELSE UNCHANGED storeVars
  /\ UNCHANGED <<timer_locked, snapshot, todo, entries, total_size, failures,
                 ingested, dtor>>

PeriodElapsed ==
  /\ rpc = "wait"
  /\ T!WaitTimedOut
  /\ rpc' = "collect"
  /\ UNCHANGED <<storeVars, snapshot, todo, entries, total_size, failures,
                 ingested, dtor>>

StopReporting ==
  /\ rpc = "wait"
  /\ T!WaitCancelled
  /\ rpc' = "done"
  /\ UNCHANGED <<storeVars, snapshot, todo, entries, total_size, failures,
                 ingested, dtor>>

\* ~MetadataReporter: NotifyStopReporter, then join.
NotifyStopReporter ==
  /\ dtor = "alive"
  /\ T!Cancel
  /\ dtor' = "joining"
  /\ UNCHANGED <<storeVars, rpc, snapshot, todo, entries, total_size, failures,
                 ingested>>

\* join() returned; ~TimerImpl cancels once more.
JoinReturns ==
  /\ dtor = "joining" /\ rpc = "done"
  /\ T!Cancel
  /\ dtor' = "destroyed"
  /\ UNCHANGED <<storeVars, rpc, snapshot, todo, entries, total_size, failures,
                 ingested>>

\* An updater stores an entry.
UpdaterStores ==
  /\ \E r \in Resources : \E entry \in Incoming[r] : UpdateMetadata(r, entry)
  /\ UNCHANGED reporterVars

SendMetadata == \/ DropTooLarge \/ AddEntry \/ SendFull \/ SendRest
                \/ NothingToSend \/ RequestFails
ReportMetadata == \/ TimerInit \/ InitialWait \/ Collect \/ SendMetadata
                  \/ Purge \/ PeriodElapsed \/ StopReporting

ReporterNext == \/ ReportMetadata \/ UpdaterStores
                \/ NotifyStopReporter \/ JoinReturns

\* The reporter thread and the joining thread run when they can; a wait ends
\* at its deadline and a request ends in an answer or an error.  Updaters and
\* the destructor owe nothing.
ReporterSpec == /\ ReporterInit /\ [][ReporterNext]_vars
                /\ WF_vars(ReportMetadata) /\ WF_vars(JoinReturns)

--------------------------------------------------------------------------------
ReporterTypeOK ==
  /\ StoreTypeOK
  /\ rpc \in Reporting \cup {"start", "initial_wait", "done"}
  /\ timer_locked \in BOOLEAN
  /\ snapshot \in [Resources -> Metadata \cup {None}]
  /\ todo \subseteq {r \in Resources : snapshot[r] # None}
  /\ entries \in Seq({r \in Resources : snapshot[r] # None})
  /\ total_size \in Nat
  /\ failures \in 0..MaxFailures
  /\ ingested \in [Resources -> Metadata \cup {None}]
  /\ dtor \in {"alive", "joining", "destroyed"}

\* Bytes of the request on the wire: the JSON generator puts a comma between
\* entries, which total_size does not count.
WireSize == total_size + (IF entries = <<>> THEN 0 ELSE Len(entries) - 1)

\* The request being filled keeps within both limits as SendMetadata counts
\* them, and on the wire it exceeds the byte limit by less than the count
\* limit.  A count limit of 0 is never met again after the first entry and
\* limits nothing.
RequestWithinLimits ==
  rpc = "batch" /\ entries # <<>> =>
    /\ total_size <= LimitBytes
    /\ LimitCount > 0 => /\ Len(entries) <= LimitCount
                         /\ WireSize < LimitBytes + LimitCount

\* Every entry of the snapshot that the loop has passed was taken by the
\* service, waits in the request being filled, or is too large to send.
NoEntrySkipped ==
  \A r \in Resources :
    /\ rpc \in {"batch", "purge"}
    /\ snapshot[r] # None
    /\ r \notin todo
    /\ ~ \E i \in 1..Len(entries) : entries[i] = r
    => ingested[r] = snapshot[r] \/ TooLarge(snapshot[r])

\* The purge removes a deleted entry it has seen in the snapshot only after the
\* service took it (or if it can never be sent); a failed report purges nothing.
PurgedWasReported ==
  [][\A r \in Resources :
       metadata_map[r] # None /\ metadata_map'[r] = None
         /\ metadata_map[r] = snapshot[r]
         => ingested[r] = metadata_map[r] \/ TooLarge(metadata_map[r])]_vars

\* Entries of the store that the loop meets after r and up to s.
Between(r, s) == {x \in Resources : /\ metadata_map[x] # None
                                   /\ ~TooLarge(metadata_map[x])
                                   /\ Rank[r] < Rank[x] /\ Rank[x] <= Rank[s]}

\* The store holds an entry that the service rejects, and the loop meets it
\* before r or so soon after r that one request may hold both.
RejectedNear(r) ==
  \E s \in Resources : /\ metadata_map[s] # None
                       /\ metadata_map[s].metadata \in Rejected
                       /\ Cardinality(Between(r, s)) < LimitCount

\* An entry that stays in the store is reported in the end, whatever fails a
\* finite number of times before, unless it is too large, the reporter is
\* stopped, or an entry that the service rejects every time aborts the reports
\* before they come to it: such an entry does no harm to those before it.
EntriesAreReported ==
  \A r \in Resources : \A entry \in Incoming[r] :
    <>[](metadata_map[r] = entry /\ dtor = "alive")
      => \/ TooLarge(entry)
         \/ <>[](ingested[r] = entry)
         \/ []<>RejectedNear(r)

\* A stop that arrives in the reporting loop ends the thread.  (One that comes
\* before TimerInit or ends the initial wait is lost.)
LoopStopIsHonoured == (rpc \in Reporting /\ ~timer_locked) ~> rpc = "done"
================================================================================
