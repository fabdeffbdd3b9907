\* The store as the tests construct it (threshold 0.3, batchSize at least
\* the number of keys) with non-nil values.
CONSTANTS
    v1 = v1
    v2 = v2
    Nil = Nil
    NoEntry = NoEntry
    Keys <- MCKeys
    Vals <- MCVals
    ThresholdNum = 3
    ThresholdDen = 10
    BatchSize = 3
    MaxSlots = 5
    MaxPending = 3
SPECIFICATION FairSpec
INVARIANTS
    TypeOK
    SlotAccounting
    ScheduledWhenOver
PROPERTIES
    OverThresholdReclaimed
    ImplementsAppendLogKV
