SPECIFICATION FairSpec
CONSTANTS
    Attempts = {a1, a2}
    Keys = {k1, unfit}
    Bodies = {good, bad}
    Refusable = {bad}
    Malformed = {unfit}
    PoolSize = 1
    Frail = {a1, a2}
    None = None
PROPERTY EverythingIsLetGo
CHECK_DEADLOCK FALSE
