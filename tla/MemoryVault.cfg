\* The in-process vault: expiry, LRU cap, restart, and its contract.
CONSTANTS
    CallId = {c1, c2, c3}
    Entry = {e1, e2}
    NoEntry = NoEntry
    TtlS = 1
    MaxEntries = 2
    MaxTime = 3
SPECIFICATION Spec
INVARIANTS StoreSound Retained
PROPERTIES SweepComplete ImplementsVault
