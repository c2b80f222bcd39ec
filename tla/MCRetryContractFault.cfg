SPECIFICATION Spec
CONSTANTS
    Attempts = {a1, a2}
    Keys = {k1}
    Bodies = {good}
    Refusable = {}
    Malformed = {}
    PoolSize = 2
    Frail = {a1}
    None = None
INVARIANT CancelledIsNotAFault
CHECK_DEADLOCK FALSE
