\* The manager with its defaults (5 retries, 5ms base, 150ms cap); durations
\* in milliseconds, time.Duration scaled to 16 bits.
CONSTANTS
    OptMaxRetries = 0
    OptBaseBackoff = 0
    OptMaxBackoff = 0
    DefaultBaseBackoff = 5
    DefaultMaxBackoff = 150
    Width = 16
SPECIFICATION Spec
INVARIANTS
    TypeOK
    NoTransactionLeak
    ConflictOnlyAfterAllRetries
PROPERTIES
    CallReturns
    ImplementsTxContract
