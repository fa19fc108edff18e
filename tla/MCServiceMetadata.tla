--------------------------- MODULE MCServiceMetadata ---------------------------
\* One cluster, a small set of services, two bodies per object.
EXTENDS ServiceMetadata, TLC

CONSTANTS cluster, s1, s2, k8s_cluster, empty, o1, o2

MCServices == {s1, s2}
MCOneService == {s1}
MCObjects == {o1, o2}
MCTypeOf == cluster :> k8s_cluster
MCPayloads == ServiceLists \cup {empty}
================================================================================
