SPECIFICATION FairSpec
CONSTANTS
    Receipts = {r1, r2}
    Handlers = {h1, h2}
    None = None
    Limit = 1
    Window = 2
    MaxTime = 3
INVARIANTS
    TypeOK
    CountedWithinLimit
    HandedHasObject
PROPERTY ConfirmsFinish
CHECK_DEADLOCK FALSE
