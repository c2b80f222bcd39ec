SPECIFICATION Spec
CONSTANTS
    Attempts = {a1, a2, a3}
    Keys = {k1}
    Bodies = {good, bad}
    Refusable = {bad}
    Malformed = {}
    PoolSize = 2
    Frail = {a1}
    None = None
SYMMETRY Symmetry
INVARIANTS
    IInv
    OneEntryPerKey
    CreatedIsHeld
    RefusedIsNeverWritten
    ReplayFindsTheRow
PROPERTY KeepsThePromise
CHECK_DEADLOCK FALSE
