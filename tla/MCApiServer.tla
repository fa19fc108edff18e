------------------------------ MODULE MCApiServer ------------------------------
\* Two handler threads, one id that two resources may claim, one type of data
\* that may or may not be collected, entries that arrive late, are deleted or
\* ignored, and a clock that outruns the maximum age.
EXTENDS ApiServer, TLC

CONSTANTS t1, t2, u1, i1, r1, r2, k8s_pod, empty, pod_thread

MCThreads == {t1, t2}
MCUpdaters == {u1}
MCIds == {i1}
MCResources == {r1, r2}
MCTypes == {k8s_pod}
MCTypeOf == [r \in MCResources |-> k8s_pod]
MCTimes == 0..2
MCPayloads == {empty}
MCEntry(deleted, time) == [is_deleted |-> deleted, collected_at |-> time,
                           metadata |-> empty, ignore |-> FALSE]
MCIncoming == {[resource |-> r1, metadata |-> MCEntry(FALSE, 0)],
               [resource |-> r1, metadata |-> MCEntry(FALSE, 2)],
               [resource |-> r1, metadata |-> MCEntry(TRUE, 2)],
               [resource |-> r2, metadata |-> IGNORED]}
MCComponents == {pod_thread}
================================================================================
