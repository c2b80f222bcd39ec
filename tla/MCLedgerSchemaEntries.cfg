SPECIFICATION Spec
CONSTANTS
    Sessions = {s1, s2}
    Txns = {t1}
    Keys = {}
    Hashes = {h1}
    Batches <- MCBatches
    Asks <- MCAsks
    Depth = 1
    MaxLegs = 4
    NoTxn = NoTxn
    NoKey = NoKey
SYMMETRY Symmetry
INVARIANTS
    IInv
    BookBalances
    NoCheckOutlivesItsTransaction
CHECK_DEADLOCK FALSE
