SPECIFICATION FairSpec
CONSTANTS
    Receipts = {r1}
    Workers = {w1, w2}
    Handlers = {h1}
    None = None
    MaxRetries = 2
    MaxFaults = 1
PROPERTIES
    EveryUploadSettles
CHECK_DEADLOCK FALSE
