--------------------------- MODULE MCKubernetesWatch ---------------------------
\* Every choice of timers and of logging, the pods' watch or another, with and
\* without a limit on the iterations; the second failure in a row is one too many.
EXTENDS KubernetesWatch

MCConfigs == [retries: {0, 4}, max_failures: {1}, timers: SUBSET AllTimers,
              verbose: BOOLEAN, pods: BOOLEAN]
================================================================================
