-------------------------------- MODULE Readers --------------------------------
(***************************************************************************)
(* The polling updaters with the readers they call: InstanceReader         *)
(* (instance.cc), DockerReader (docker.cc) and KubernetesReader with       *)
(* watching switched off (kubernetes.cc).  Start validates the             *)
(* configuration with a bounded number of retries; a query lists objects,  *)
(* turns them into results one by one and skips what fails, while the      *)
(* objects come and go.                                                    *)
(*                                                                         *)
(* The docker daemon and the Kubernetes master are external.  "docker_ids" *)
(* is the docker reader built without ENABLE_DOCKER_METADATA.              *)
(***************************************************************************)
EXTENDS PollingUpdater

CONSTANTS
  Kinds,       \* readers to consider
  Lists,       \* the lists a query asks for, in order, by reader
  Yields,      \* the resources an object becomes, in order
  Host,        \* the resource of the instance
  RetryLimit,  \* kDockerValidationRetryLimit, kKubernetesValidationRetryLimit
  MaxChanges   \* bound: changes of the world

Objects == DOMAIN Yields

ASSUME ReaderAssumption ==
  /\ Kinds \subseteq {"instance", "docker", "docker_ids", "kubernetes"}
  /\ Lists \in [Kinds -> Seq(SUBSET Objects)]
  /\ \A objects \in SUBSET Objects : objects # None
  /\ \A o \in Objects : Yields[o] \in Seq(Resources)
  /\ \A o \in Objects : \A k \in DOMAIN Yields[o] : IdsOf[Yields[o][k]] # {}
  /\ Host \in Resources
  /\ Objects \subseteq Payloads
  /\ RetryLimit \in Nat \ {0}
  /\ MaxChanges \in Nat

VARIABLES
  reader,      \* which reader the updater calls
  world,       \* external: the state of every object
  changes,     \* changes of the world so far
  validation,  \* the validation query Start is at
  attempts,    \* failed attempts of this query
  list,        \* the list the query is at
  pending,     \* what is left of this list, None before it is fetched
  collected,   \* collected_at of this list
  built,       \* result of MetadataQuery so far
  lasting,     \* ghost: objects of this round, unchanged and not failed so far
  cut_off      \* ghost: nodes of this round that were behind one that failed

readerVars == <<reader, world, changes, validation, attempts, list, pending,
                collected, built, lasting, cut_off>>
queryVars == <<list, pending, collected, built, lasting, cut_off>>
allVars == <<vars, readerVars>>

Docker == {"docker", "docker_ids"}
Existing(objects) == {o \in objects : world[o] # "absent"}
ListObjects == UNION {Lists[reader][l] : l \in DOMAIN Lists[reader]}

ReaderInit ==
  /\ UpdaterInit
  /\ reader \in Kinds
  /\ world = [o \in Objects |-> "absent"]
  /\ changes = 0
  /\ validation = 1
  /\ attempts = 0
  /\ list = 1
  /\ pending = None
  /\ collected = 0
  /\ built = <<>>
  /\ lasting = {}
  /\ cut_off = {}

--------------------------------------------------------------------------------
\* Objects come and go: a container dies before it is removed, and no two
\* objects have an id in common at the same time.
ObjectIds(o) == UNION {IdsOf[Yields[o][k]] : k \in DOMAIN Yields[o]}

WorldChanges(o, state) ==
  /\ changes < MaxChanges
  /\ changes' = changes + 1
  /\ world' = [world EXCEPT ![o] = state]
  /\ lasting' = lasting \ {o}
  /\ UNCHANGED <<vars, reader, validation, attempts, list, pending, collected,
                 built, cut_off>>

Appears(o) ==
  /\ world[o] = "absent"
  /\ \A p \in Existing(Objects) : ObjectIds(o) \cap ObjectIds(p) = {}
  /\ WorldChanges(o, "active")

Dies(o) == reader \in Docker /\ world[o] = "active" /\ WorldChanges(o, "dead")

Disappears(o) == world[o] # "absent" /\ WorldChanges(o, "absent")

--------------------------------------------------------------------------------
\* ValidateDynamicConfiguration, called by Start: one query for docker, one for
\* nodes and one for pods of Kubernetes, each under util::Retry.

Validations ==
  CASE reader = "instance" -> 0
    [] reader \in Docker -> 1
    [] reader = "kubernetes" -> 2

Validating == upc = "new" /\ dtor = "alive" /\ period > 0 /\ validation <= Validations

ValidationSucceeds ==
  /\ Validating
  /\ validation' = validation + 1
  /\ attempts' = 0
  /\ UNCHANGED <<vars, reader, world, changes, queryVars>>

\* A QueryException before the last attempt: sleep and try again.
ValidationRetried ==
  /\ Validating
  /\ attempts < RetryLimit - 1
  /\ attempts' = attempts + 1
  /\ UNCHANGED <<vars, reader, world, changes, validation, queryVars>>

\* A NonRetriableError, a QueryException of the last attempt, or an answer that
\* is not JSON, which no catch clause expects.
ValidationFails ==
  /\ Validating
  /\ DynamicValidationFails
  /\ UNCHANGED readerVars

\* After its queries Kubernetes asks for the current node, which may be empty.
NoCurrentNode ==
  /\ reader = "kubernetes" /\ validation > Validations
  /\ DynamicValidationFails
  /\ UNCHANGED readerVars

Validated ==
  /\ validation > Validations
  /\ StartUpdater
  /\ UNCHANGED readerVars

--------------------------------------------------------------------------------
\* MetadataQuery.

\* The entry for an object: a container is deleted when it is Dead, Kubernetes
\* objects that are listed never are.
Entry(o) ==
  IF reader = "docker_ids" THEN IGNORED
  ELSE [is_deleted |-> world[o] = "dead", collected_at |-> collected,
        metadata |-> o, ignore |-> FALSE]

Results(o) == [k \in DOMAIN Yields[o] |->
                 [resource |-> Yields[o][k], metadata |-> Entry(o)]]

\* InstanceReader: one result, or InstanceResource throws out_of_range.
InstanceQuery ==
  /\ reader = "instance"
  /\ \/ QueryReturns(<<[resource |-> Host, metadata |-> IGNORED]>>)
     \/ QueryThrows
  /\ UNCHANGED readerVars

AtList == /\ upc = "query" /\ reader # "instance"
          /\ list <= Len(Lists[reader]) /\ pending = None
AtObject == upc = "query" /\ pending # None

ListFetched ==
  /\ AtList
  /\ pending' = Existing(Lists[reader][list])
  /\ \E now \in Times : collected' = now
  /\ lasting' = lasting \cup pending'
  /\ UNCHANGED <<vars, reader, world, changes, validation, attempts, list, built,
                 cut_off>>

\* QueryException, or the list is not JSON: its objects are left out.
ListFails ==
  /\ AtList
  /\ list' = list + 1
  /\ UNCHANGED <<vars, reader, world, changes, validation, attempts, pending,
                 collected, built, lasting, cut_off>>

\* The container is inspected (the pod or node was in the list) and a result
\* is made for each of its resources.
ObjectBuilt(o) ==
  /\ AtObject /\ o \in pending
  /\ reader \in Docker => world[o] # "absent"
  /\ built' = built \o Results(o)
  /\ pending' = pending \ {o}
  /\ UNCHANGED <<vars, reader, world, changes, validation, attempts, list,
                 collected, lasting, cut_off>>

\* A plausible bug: one container that cannot be inspected ends the loop.
ObjectSkippedEndsLoop(o) ==
  /\ AtObject /\ o \in pending
  /\ ~(reader = "kubernetes" /\ list = 1)
  /\ pending' = {}
  /\ lasting' = lasting \ {o}
  /\ UNCHANGED <<vars, reader, world, changes, validation, attempts, list,
                 collected, built, cut_off>>

\* A json::Exception: the container is gone or its inspection failed, or the
\* object is not as expected.  The loops over containers and pods go on.
ObjectSkipped(o) ==
  /\ AtObject /\ o \in pending
  /\ ~(reader = "kubernetes" /\ list = 1)
  /\ pending' = pending \ {o}
  /\ lasting' = lasting \ {o}
  /\ UNCHANGED <<vars, reader, world, changes, validation, attempts, list,
                 collected, built, cut_off>>

\* In the loop over nodes nothing catches it: it ends the loop, and the nodes
\* that are still to come are left out of the round.
NodeFails(o) ==
  /\ AtObject /\ o \in pending
  /\ reader = "kubernetes" /\ list = 1
  /\ pending' = {}
  /\ lasting' = lasting \ {o}
  /\ cut_off' = cut_off \cup (pending \ {o})
  /\ UNCHANGED <<vars, reader, world, changes, validation, attempts, list,
                 collected, built>>

\* GetContainerMetadata calls InstanceResource; its out_of_range is not in the
\* exception specification.
NoInstance(o) ==
  /\ AtObject /\ o \in pending
  /\ reader \in Docker /\ world[o] # "absent"
  /\ QueryThrows
  /\ UNCHANGED readerVars

\* docker closed the connection within the headers of its answer to a list or
\* an inspection (LocalConnection): the broken_promise is not a system_error and
\* meets QueryDocker's exception specification.
BrokenResponse ==
  /\ reader \in Docker
  /\ AtList \/ (AtObject /\ pending # {})
  /\ QueryThrows
  /\ UNCHANGED readerVars

\* KindPath does not know the kind of an owner of the pod (OwnerLookup): the
\* std::string meets GetOwner's exception specification.
UnknownOwnerKind(o) ==
  /\ AtObject /\ o \in pending
  /\ reader = "kubernetes" /\ list # 1
  /\ QueryThrows
  /\ UNCHANGED readerVars

ListDone ==
  /\ AtObject /\ pending = {}
  /\ list' = list + 1
  /\ pending' = None
  /\ UNCHANGED <<vars, reader, world, changes, validation, attempts, collected,
                 built, lasting, cut_off>>

\* A plausible bug: a query without results ends the thread.
QueryDoneStopsWhenEmpty ==
  /\ reader # "instance"
  /\ list > Len(Lists[reader]) /\ pending = None
  /\ upc = "query"
  /\ results' = built
  /\ next' = 1
  /\ upc' = IF built = <<>> THEN "done" ELSE "update_resource"
  /\ list' = 1
  /\ built' = <<>>
  /\ UNCHANGED <<storeVars, period, timer_locked, stopping, dtor, reader, world,
                 changes, validation, attempts, pending, collected, lasting,
                 cut_off>>

QueryDone ==
  /\ reader # "instance"
  /\ list > Len(Lists[reader]) /\ pending = None
  /\ QueryReturns(built)
  /\ list' = 1
  /\ built' = <<>>
  /\ UNCHANGED <<reader, world, changes, validation, attempts, pending,
                 collected, lasting, cut_off>>

\* The next round starts without knowledge of the one before.
NextRound ==
  /\ PeriodElapsed
  /\ lasting' = {}
  /\ cut_off' = {}
  /\ UNCHANGED <<reader, world, changes, validation, attempts, list, pending,
                 collected, built>>

--------------------------------------------------------------------------------
MetadataQuery ==
  \/ InstanceQuery \/ ListFetched \/ ListFails \/ BrokenResponse \/ ListDone
  \/ QueryDone
  \/ \E o \in Objects : \/ ObjectBuilt(o) \/ ObjectSkipped(o) \/ NodeFails(o)
                        \/ NoInstance(o) \/ UnknownOwnerKind(o)

\* The polling thread outside its query.
OwnSteps ==
  \/ NextRound
  \/ (UpdateResourceCallback \/ UpdateMetadataCallback \/ StopPolling)
       /\ UNCHANGED readerVars

Thread == MetadataQuery \/ OwnSteps

ValidateDynamicConfiguration ==
  ValidationSucceeds \/ ValidationRetried \/ ValidationFails \/ NoCurrentNode

Others ==
  /\ \/ StaticValidationFails \/ NotStarted \/ NotifyStopUpdater
     \/ JoinThread \/ JoinReturns \/ ReporterPurges
  /\ UNCHANGED readerVars

ReaderNext ==
  /\ ~Terminated
  /\ \/ ValidateDynamicConfiguration
     \/ Validated
     \/ Thread
     \/ Others
     \/ \E o \in ListObjects : Appears(o) \/ Dies(o) \/ Disappears(o)

\* The fairness of PollingUpdater: the requests of a query have no timeout
\* (docker.cc:204, kubernetes.cc:635), so nothing is owed of it.
ReaderSpec == ReaderInit /\ [][ReaderNext]_allVars /\ WF_allVars(OwnSteps)

--------------------------------------------------------------------------------
\* The types of the variables.  Between two rounds nothing of a query is left,
\* and a validation makes no more than RetryLimit attempts (util.h).
ReaderTypeOK ==
  /\ UpdaterTypeOK
  /\ reader \in Kinds
  /\ world \in [Objects -> {"absent", "active", "dead"}]
  /\ changes \in 0..MaxChanges
  /\ validation \in 1..3
  /\ attempts \in 0..(RetryLimit - 1)
  /\ list \in 1..(Len(Lists[reader]) + 1)
  /\ pending = None \/ pending \in SUBSET Objects
  /\ collected \in Times
  /\ built \in Seq(ResourceMetadata)
  /\ lasting \in SUBSET Objects
  /\ cut_off \in SUBSET Objects
  /\ upc \notin {"query", "terminated"} => list = 1 /\ pending = None /\ built = <<>>

\* When the thread goes to sleep, whatever failed or changed in the round, an
\* object that did neither since it was listed is in the store: all its ids
\* resolve and every resource it became has an entry with the right deletion
\* mark, unless the reader stores no metadata or the entry was purged.  The loop
\* over nodes (kubernetes.cc:549-553) does not keep this: a node that fails takes
\* the nodes behind it out of the round, and these are excluded here.
RoundIsComplete ==
  upc = "wait" =>
    \A o \in lasting \ cut_off : \A k \in DOMAIN Yields[o] :
      LET r == Yields[o][k]
          entry == metadata_map[r]
      IN /\ \A id \in IdsOf[r] : resource_map[id] # None
         /\ \/ reader = "docker_ids"
            \/ entry # None /\ entry.is_deleted = (world[o] = "dead")
            \/ world[o] = "dead" /\ entry = None
================================================================================
