----------------------------- MODULE MCOwnerLookup -----------------------------
\* A replica set, a deployment of the same API version and a node, which has no
\* namespace, as owners of a pod; they can be deleted and created anew under
\* their old names.
EXTENDS OwnerLookup, TLC

CONSTANTS rs, dep, host, ReplicaSet, Deployment, Node, apps, core, u1, u2, u3, pod1

MCKinds == {ReplicaSet, Deployment, Node}
MCVersions == {apps, core}
MCVersionOf == ReplicaSet :> apps @@ Deployment :> apps @@ Node :> core
MCNamespaced == {ReplicaSet, Deployment}
MCRank == ReplicaSet :> 1 @@ Deployment :> 2 @@ Node :> 2
MCPaths == {rs, dep, host}
MCKindOf == rs :> ReplicaSet @@ dep :> Deployment @@ host :> Node
MCUids == {u1, u2, u3}
MCPodUids == {pod1}
================================================================================
