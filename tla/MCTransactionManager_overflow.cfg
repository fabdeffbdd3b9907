\* TxManagerOptions{MaxRetries: 14}: the shift and the multiplication by
\* the base wrap around before the cap is applied.
CONSTANTS
    OptMaxRetries = 14
    OptBaseBackoff = 0
    OptMaxBackoff = 0
    DefaultBaseBackoff = 5
    DefaultMaxBackoff = 150
    Width = 16
SPECIFICATION Spec
INVARIANT
    BackoffAsDocumented
