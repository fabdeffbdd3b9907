\* GC enabled, at most two value-log files to reclaim.
CONSTANTS
    GCEnabled = TRUE
    MaxGarbage = 2
SPECIFICATION Spec
PROPERTY MonitoringStopsAfterClose
\* The program may close the store, cancel ctx and have every goroutine
\* return: nothing is left to run.
CHECK_DEADLOCK FALSE
