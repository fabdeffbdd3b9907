\* batchSize = 2 below the three live keys: CompactIncremental stops
\* its scan early and still replaces the whole store.
CONSTANTS
    v1 = v1
    v2 = v2
    Nil = Nil
    NoEntry = NoEntry
    Keys <- MCKeys
    ThresholdNum = 3
    ThresholdDen = 10
    MaxSlots = 5
    MaxPending = 3
    Vals <- MCVals
    BatchSize = 2
SPECIFICATION Spec
PROPERTIES
    ImplementsAppendLogKV
