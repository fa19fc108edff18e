---------------------------- MODULE MCAuthorization ----------------------------
\* The reporter and two readers of the location and of the zone, which is
\* configured; tokens that live shorter and longer than the slack; credentials
\* that are complete, lack the key, or do not exist.
EXTENDS Authorization, TLC

CONSTANTS reporter, reader1, reader2, project_id, location, zone, v1, v2

MCThreads == {reporter, reader1, reader2}
MCNames == {project_id, location, zone}
MCValues == {v1, v2}
MCConfigValue == [n \in {zone} |-> v1]
MCNoCredentials == [email |-> FALSE, key |-> FALSE, project |-> None]
MCCredentials == {MCNoCredentials,
                  [email |-> TRUE, key |-> FALSE, project |-> None],
                  [email |-> TRUE, key |-> TRUE, project |-> v1]}
MCLifetimes == {1, 3}
\* Nothing tells the readers apart.
ReaderSymmetry == Permutations({reader1, reader2})
================================================================================
