SPECIFICATION Spec
CONSTANTS
    Events = {e1, e2}
    Handlers = {h1, h2}
    None = None
    Period = 1
    MaxTime = 1
    MaxFaults = 0
    MaxOverrides = 0
SYMMETRY Symmetry
INVARIANT SubscriptionIsCurrent
CHECK_DEADLOCK FALSE
