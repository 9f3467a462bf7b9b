SPECIFICATION Spec
CONSTANTS
    Receipts = {r1, r2}
    Handlers = {h1, h2}
    None = None
    Limit = 1
    Window = 2
    MaxTime = 2
SYMMETRY Symmetry
INVARIANT FreeScansWithinLimit
CHECK_DEADLOCK FALSE
