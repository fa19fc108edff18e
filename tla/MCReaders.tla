------------------------------- MODULE MCReaders -------------------------------
\* The instance; three docker containers, two of which share a name over time;
\* two nodes and a pod of one container.
EXTENDS Readers, TLC

CONSTANTS ra, rb, rd, rm, rn, rp, rc, ri, a, b, d, m, n, p, empty

MCIds == {"a", "b", "d", "name", "node1", "node2", "pod", "container", "instance"}
MCResources == {ra, rb, rd, rm, rn, rp, rc, ri}
MCTypes == {"docker_container", "k8s_node", "k8s_pod", "k8s_container",
            "gce_instance"}
MCTypeOf == ra :> "docker_container" @@ rb :> "docker_container"
            @@ rd :> "docker_container"
            @@ rm :> "k8s_node" @@ rn :> "k8s_node" @@ rp :> "k8s_pod" @@ rc :> "k8s_container"
            @@ ri :> "gce_instance"
MCIdsOf == ra :> {"a", "name"} @@ rb :> {"b", "name"} @@ rd :> {"d"}
           @@ rm :> {"node1"} @@ rn :> {"node2"}
           @@ rp :> {"pod"} @@ rc :> {"container"} @@ ri :> {"instance"}
MCTimes == {0}
MCPayloads == {a, b, d, m, n, p, empty}
MCPeriods == -1..1
MCKinds == {"instance", "docker", "docker_ids", "kubernetes"}
MCLists == [k \in MCKinds |->
              CASE k = "instance" -> <<>>
                [] k = "kubernetes" -> <<{m, n}, {p}>>
                [] OTHER -> <<{a, b, d}>>]
MCYields == a :> <<ra>> @@ b :> <<rb>> @@ d :> <<rd>>
            @@ m :> <<rm>> @@ n :> <<rn>> @@ p :> <<rc, rp>>

\* What the readers may return.
MCEntry(o, dead) == [is_deleted |-> dead, collected_at |-> 0, metadata |-> o,
                     ignore |-> FALSE]
MCResult(r, e) == [resource |-> r, metadata |-> e]
MCContainerResults ==
  UNION {{MCResult(MCYields[o][1], e) :
            e \in {IGNORED, MCEntry(o, TRUE), MCEntry(o, FALSE)}} : o \in {a, b, d}}
MCPodResults == <<MCResult(rc, MCEntry(p, FALSE)), MCResult(rp, MCEntry(p, FALSE))>>
MCNodeResults == {MCResult(rm, MCEntry(m, FALSE)), MCResult(rn, MCEntry(n, FALSE))}
UpToTwo(S) == {<<>>} \cup {<<x>> : x \in S} \cup {<<x, y>> : x \in S, y \in S}
MCResultVectors ==
  {<<MCResult(ri, IGNORED)>>}
  \cup {v \o w : v \in UpToTwo(MCNodeResults), w \in {<<>>, MCPodResults}}
  \cup UpToTwo(MCContainerResults)
================================================================================
