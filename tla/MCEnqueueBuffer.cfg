SPECIFICATION Spec
CONSTANTS
    Items = {s1, s2}
    None = None
    Producers = {caller, responder}
    Cap = 2
    MaxQueued = 6
INVARIANTS TypeOK
PROPERTIES IsFifo EnqueueReturns Delivered Stops
CHECK_DEADLOCK FALSE
