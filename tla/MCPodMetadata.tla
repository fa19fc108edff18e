----------------------------- MODULE MCPodMetadata -----------------------------
\* A pod with two containers that is created, started, deleted and created anew
\* under its name with a new uid; another pod with a container of the same
\* name; and one node.
EXTENDS PodMetadata, TLC

CONSTANTS p1, p2, u1, u2, u3, a, b, d1, d2, d3, d4, n1, rs, empty

Pod(pod, uid, containers, has_status, is_deleted) ==
  [kind |-> "pod", pod |-> pod, uid |-> uid, containers |-> containers,
   has_status |-> has_status, is_deleted |-> is_deleted]

MCPodEvents == {Pod(p1, u1, <<a, b>>, {}, FALSE),
                Pod(p1, u1, <<a, b>>, {a, b}, TRUE),
                Pod(p1, u2, <<a>>, {a}, FALSE),
                Pod(p2, u3, <<a>>, {a}, FALSE)}
MCNodeEvents == {[kind |-> "node", node |-> n1, is_deleted |-> FALSE]}
MCControllers == {rs}
MCDockerId == u1 :> (a :> d1 @@ b :> d2) @@ u2 :> (a :> d3) @@ u3 :> (a :> d4)

MCResources == {<<"k8s_pod", p1>>, <<"k8s_pod", p2>>, <<"k8s_node", n1>>}
  \cup {<<"k8s_container", p, c>> : p \in {p1, p2}, c \in {a, b}}
MCTypes == {"k8s_pod", "k8s_container", "k8s_node"}
MCTypeOf == [r \in MCResources |-> r[1]]
\* The last set are ids that no resource should have.
MCIds == UNION {PodIds(e) \cup UNION {ContainerIds(e, e.containers[i]) :
                                        i \in 1..Len(e.containers)}
                  : e \in MCPodEvents}
           \cup UNION {NodeIds(e) : e \in MCNodeEvents}
           \cup {<<"k8s_container", c>> : c \in {a, b}}
MCTimes == 0..3
MCPayloads == [event: MCPodEvents \cup MCNodeEvents,
               controller: MCControllers \cup {None}] \cup {empty}
================================================================================
