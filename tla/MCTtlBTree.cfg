\* Two clients, three keys and the empty key, slices of up to two items,
\* a one-second ttl and a purge limit of two: enough for a purge to stop
\* early, for a batch to repeat a key, and for a Delete to run between a
\* purge's two phases.
CONSTANTS
    Keys = {1, 2, 3}
    EmptyKey = 0
    Clients = {c1, c2}
    TTL = 1
    MaxToDelete = 2
    MaxBatch = 2
    MaxTime = 2
SPECIFICATION Spec

PROPERTIES ReturnsMatchSize PurgeCollectsFirstExpired
\* The clock stops at the horizon and clients need not call: every state
\* where all are idle at MaxTime is a legitimate end of the run.
CHECK_DEADLOCK FALSE
