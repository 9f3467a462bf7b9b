SPECIFICATION Spec
CONSTANTS
    Events = {e1, e2}
    Handlers = {h1, h2}
    None = None
    Period = 1
    MaxTime = 1
    MaxFaults = 1
    MaxOverrides = 1
SYMMETRY Symmetry
INVARIANTS
    TypeOK
    SyncOwed
    PremiumMatchesStore
    AccessAgrees
CHECK_DEADLOCK FALSE
