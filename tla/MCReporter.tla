------------------------------ MODULE MCReporter -------------------------------
\* Three resources of one type; requests hold two entries and twelve bytes
\* besides the frame.  A small and a medium entry fill a request exactly, a
\* medium one and one that the service rejects do not fit together, three small
\* ones are split by their number alone, and a large one does not fit at all.
\* Entries that fit and that do not fit are deleted.
EXTENDS Reporter, TLC

CONSTANTS r1, r2, r3, k8s_pod, empty, small, medium, large, rejected

MCResources == {r1, r2, r3}
MCTypes == {k8s_pod}
MCTypeOf == [r \in Resources |-> k8s_pod]
MCTimes == {0}
MCPayloads == {empty, small, medium, large, rejected}
MCEntrySize == empty :> 2 @@ small :> 4 @@ medium :> 8 @@ large :> 13 @@ rejected :> 8
MCRank == r1 :> 1 @@ r2 :> 2 @@ r3 :> 3

Entry(payload, is_deleted) ==
  [is_deleted |-> is_deleted, collected_at |-> 0, metadata |-> payload,
   ignore |-> FALSE]

MCIncoming == r1 :> {Entry(small, FALSE)}
           @@ r2 :> {Entry(medium, FALSE), Entry(small, TRUE), Entry(rejected, FALSE)}
           @@ r3 :> {Entry(small, FALSE), Entry(large, TRUE), Entry(rejected, FALSE)}
================================================================================
