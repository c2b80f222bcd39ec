SPECIFICATION Spec
CONSTANTS
    Sessions = {s1, s2}
    Txns = {t1}
    Keys = {k1}
    Hashes = {h1, h2}
    Batches <- MCBatches
    Asks <- MCAsks
    Depth = 1
    MaxLegs = 2
    NoTxn = NoTxn
    NoKey = NoKey
SYMMETRY Symmetry
INVARIANTS
    KeysNameTransactions
    HonestWorkPasses
PROPERTY KeyRecordsAreFinal
CHECK_DEADLOCK FALSE
