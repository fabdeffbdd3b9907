\* A caller stores a nil value with Add; batchSize covers every key.
CONSTANTS
    v1 = v1
    v2 = v2
    Nil = Nil
    NoEntry = NoEntry
    Keys <- MCKeys
    ThresholdNum = 3
    ThresholdDen = 10
    MaxSlots = 5
    MaxPending = 3
    Vals <- MCValsWithNil
    BatchSize = 0
SPECIFICATION Spec
PROPERTIES
    ImplementsAppendLogKV
