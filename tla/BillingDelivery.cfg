SPECIFICATION FairSpec
CONSTANTS
    Events = {e1, e2}
    Handlers = {h1, h2}
    None = None
    Period = 1
    MaxTime = 0
    MaxFaults = 1
    MaxOverrides = 0
PROPERTY EventsAreAcknowledged
CHECK_DEADLOCK FALSE
