\* Three keys, two values and nil: every order of first adds, and repeated
\* adds of present keys.
CONSTANTS
    Keys = {k1, k2, k3}
    Vals = {v1, v2, Nil}
    NoEntry = NoEntry
SPECIFICATION Spec
INVARIANTS SlotsOwned
PROPERTIES ImplementsAppendLogKV
