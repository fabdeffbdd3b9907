\* Deletes while a compaction goroutine is already waiting.
CONSTANTS
    v1 = v1
    v2 = v2
    Nil = Nil
    NoEntry = NoEntry
    Keys <- MCKeys
    ThresholdNum = 3
    ThresholdDen = 10
    MaxSlots = 5
    MaxPending = 3
    Vals <- MCVals
    BatchSize = 0
SPECIFICATION Spec
INVARIANT
    AtMostOneCompactionPending
