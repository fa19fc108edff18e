------------------------------ MODULE PodMetadata ------------------------------
(***************************************************************************)
(* What the pod and node watch threads of the Kubernetes updater           *)
(* (kubernetes.cc) store: an event on a pod becomes one result for each of *)
(* its containers and one for the pod, an event on a node becomes one      *)
(* result, and each thread writes its results one by one while the other   *)
(* thread writes and the reporter purges.                                  *)
(*                                                                         *)
(* A monitored resource is a tuple of its type and its labels that vary in *)
(* a cluster; a local id is a tuple as well.  The body of an entry is the  *)
(* event it came from and the controller found for the pod (OwnerLookup).  *)
(***************************************************************************)
EXTENDS MetadataStore, Sequences

CONSTANTS
  PodEvents,    \* events on pods
  NodeEvents,   \* events on nodes
  Controllers,  \* top-level controllers a search may find
  DockerId,     \* container id in the status of a container, by event
  MaxEvents     \* bound: events handled

Events == PodEvents \cup NodeEvents

\* The fields of an event that the results depend on; the containers of a pod
\* are in the order of its spec, and has_status are those with a status.
ASSUME PodAssumption ==
  /\ \A e \in PodEvents :
       /\ e.kind = "pod"
       /\ e.is_deleted \in BOOLEAN
       /\ e.containers \in Seq(DOMAIN DockerId[e.uid])
       /\ e.has_status \subseteq DOMAIN DockerId[e.uid]
  /\ \A e \in NodeEvents : e.kind = "node" /\ e.is_deleted \in BOOLEAN
  /\ [event: Events, controller: Controllers \cup {None}] \subseteq Payloads
  /\ MaxEvents \in Nat
  /\ 0..MaxEvents \subseteq Times

Watches == {"pods", "nodes"}

VARIABLES
  handled,  \* events handled so far, read as the clock
  wpc,      \* where the callback of each watch thread stands
  results,  \* its result_vector
  next      \* the result it is at

podVars == <<handled, wpc, results, next>>
vars == <<storeVars, podVars>>

PodInit ==
  /\ StoreInit
  /\ handled = 0
  /\ wpc = [w \in Watches |-> "idle"]
  /\ results = [w \in Watches |-> <<>>]
  /\ next = [w \in Watches |-> 1]

--------------------------------------------------------------------------------
\* From events to results.

Body(e, controller) == [event |-> e, controller |-> controller]

Entry(e, controller) ==
  [is_deleted |-> e.is_deleted, collected_at |-> handled,
   metadata |-> Body(e, controller), ignore |-> FALSE]

Result(ids, resource, entry) ==
  [ids |-> ids, resource |-> resource, metadata |-> entry]

PodResource(e) == <<"k8s_pod", e.pod>>
ContainerResource(e, c) == <<"k8s_container", e.pod, c>>
NodeResource(e) == <<"k8s_node", e.node>>

PodIds(e) == {<<"k8s_pod", e.uid>>, <<"k8s_pod", e.pod>>}

\* A plausible bug: the pod is left out of the ids of its containers.
ContainerIdsWithoutPod(e, c) ==
  {<<"k8s_container", c>>, <<"k8s_container", e.pod, c>>}

\* By pod uid, by pod name and, once it has a status, by docker id.
ContainerIds(e, c) ==
  {<<"k8s_container", e.uid, c>>, <<"k8s_container", e.pod, c>>}
    \cup (IF c \in e.has_status
          THEN {<<"k8s_container", DockerId[e.uid][c]>>} ELSE {})

GetPodMetadata(e, controller) ==
  Result(PodIds(e), PodResource(e), Entry(e, controller))

\* A plausible bug: containers are never marked deleted.
GetContainerMetadataActive(e, c, controller) ==
  Result(ContainerIds(e, c), ContainerResource(e, c),
         [Entry(e, controller) EXCEPT !.is_deleted = FALSE])

GetContainerMetadata(e, c, controller) ==
  Result(ContainerIds(e, c), ContainerResource(e, c), Entry(e, controller))

\* The containers in the order of the spec, then the pod.
GetPodAndContainerMetadata(e, controller) ==
  Append([i \in 1..Len(e.containers) |->
            GetContainerMetadata(e, e.containers[i], controller)],
         GetPodMetadata(e, controller))

NodeIds(e) == {<<"k8s_node", e.node>>}

GetNodeMetadata(e) == Result(NodeIds(e), NodeResource(e), Entry(e, None))

\* The ids and the resources above are ids and resources of the store.
ASSUME NamingAssumption ==
  /\ \A e \in PodEvents :
       /\ PodResource(e) \in Resources
       /\ TypeOf[PodResource(e)] = "k8s_pod"
       /\ PodIds(e) \subseteq Ids
       /\ \A i \in 1..Len(e.containers) :
            LET c == e.containers[i]
            IN /\ ContainerResource(e, c) \in Resources
               /\ TypeOf[ContainerResource(e, c)] = "k8s_container"
               /\ ContainerIds(e, c) \subseteq Ids
  /\ \A e \in NodeEvents :
       /\ NodeResource(e) \in Resources
       /\ TypeOf[NodeResource(e)] = "k8s_node"
       /\ NodeIds(e) \subseteq Ids

\* What Kubernetes and docker promise of names: a uid belongs to one pod and is
\* no pod's name, and a docker id belongs to one container of one pod.
ASSUME KubernetesAssumption ==
  \A e, f \in PodEvents :
    /\ e.uid = f.uid => e.pod = f.pod
    /\ e.uid # f.pod
    /\ \A c \in DOMAIN DockerId[e.uid], d \in DOMAIN DockerId[f.uid] :
         DockerId[e.uid][c] = DockerId[f.uid][d] => e.uid = f.uid /\ c = d

--------------------------------------------------------------------------------
\* The callbacks.  Events come in any order; one whose handling throws a
\* json::Exception is logged and leaves no trace.

Begin(w, vector) ==
  /\ handled < MaxEvents
  /\ handled' = handled + 1
  /\ wpc[w] = "idle"
  /\ wpc' = [wpc EXCEPT ![w] = "update_resource"]
  /\ results' = [results EXCEPT ![w] = vector]
  /\ next' = [next EXCEPT ![w] = 1]
  /\ UNCHANGED storeVars

\* ComputePodAssociations has looked for the top-level controller, in vain if
\* the controller is None.
PodCallback(e, controller) ==
  Begin("pods", GetPodAndContainerMetadata(e, controller))

NodeCallback(e) == Begin("nodes", <<GetNodeMetadata(e)>>)

\* MetadataCallback: each result under the two locks of the store in turn.
UpdateResourceCallback(w) ==
  /\ wpc[w] = "update_resource"
  /\ LET result == results[w][next[w]]
     IN UpdateResource(result.ids, result.resource)
  /\ wpc' = [wpc EXCEPT ![w] = "update_metadata"]
  /\ UNCHANGED <<handled, results, next>>

UpdateMetadataCallback(w) ==
  /\ wpc[w] = "update_metadata"
  /\ LET result == results[w][next[w]]
     IN UpdateMetadata(result.resource, result.metadata)
  /\ next' = [next EXCEPT ![w] = @ + 1]
  /\ wpc' = [wpc EXCEPT ![w] = IF next[w] < Len(results[w])
                               THEN "update_resource" ELSE "idle"]
  /\ UNCHANGED <<handled, results>>

MetadataCallback(w) == UpdateResourceCallback(w) \/ UpdateMetadataCallback(w)

ReporterPurges == PurgeDeletedEntries /\ UNCHANGED podVars

PodNext ==
  \/ \E e \in PodEvents, c \in Controllers \cup {None} : PodCallback(e, c)
  \/ \E e \in NodeEvents : NodeCallback(e)
  \/ \E w \in Watches : MetadataCallback(w)
  \/ ReporterPurges

PodSpec == PodInit /\ [][PodNext]_vars

--------------------------------------------------------------------------------
\* The types of the variables; the loop over the results stays inside the vector.
PodTypeOK ==
  /\ StoreTypeOK
  /\ handled \in 0..MaxEvents
  /\ wpc \in [Watches -> {"idle", "update_resource", "update_metadata"}]
  /\ results \in [Watches -> Seq([ids: SUBSET Ids, resource: Resources,
                                  metadata: Metadata])]
  /\ next \in [Watches -> Nat]
  /\ \A w \in Watches : wpc[w] # "idle" => next[w] \in 1..Len(results[w])

\* When the pod thread is at rest, a pod in the store and the containers of the
\* event it was stored for agree: each container is there with the same body
\* and the same deletion mark, unless it was purged as deleted.  The results
\* are stored one by one, and the reporter may purge between any two of them.
PodAndContainersAgree ==
  wpc["pods"] = "idle" =>
    \A r \in Resources :
      metadata_map[r] # None /\ TypeOf[r] = "k8s_pod" =>
        LET pod == metadata_map[r]
            e == pod.metadata.event
        IN \A i \in 1..Len(e.containers) :
             LET stored == metadata_map[ContainerResource(e, e.containers[i])]
             IN stored = pod \/ (pod.is_deleted /\ stored = None)

\* The local ids of a stored resource.
StoredIds(r) ==
  LET e == metadata_map[r].metadata.event
  IN CASE TypeOf[r] = "k8s_pod" -> PodIds(e)
       [] TypeOf[r] = "k8s_container" -> ContainerIds(e, r[3])
       [] OTHER -> NodeIds(e)

\* Every local id of a stored resource resolves to that resource, whatever
\* pods come and go under the same name: Kubernetes ids, unlike the container
\* names of docker, never change hands.
IdsResolveExactly ==
  \A r \in Resources :
    metadata_map[r] # None => \A id \in StoredIds(r) : resource_map[id] = r
================================================================================
