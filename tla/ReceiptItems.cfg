SPECIFICATION Spec
CONSTANTS
    Receipts = {r1}
    Workers = {w1, w2}
    Handlers = {h1}
    None = None
    MaxRetries = 2
    MaxFaults = 0
INVARIANTS
    CompletedHasItems
CHECK_DEADLOCK FALSE
