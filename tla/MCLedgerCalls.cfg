SPECIFICATION CallsSpec
CONSTANTS
    Sessions = {s1, s2}
    Txns = {t1}
    Keys = {k1}
    Hashes = {whole, lame}
    whole = whole
    lame = lame
    Batches <- MCBatches
    Asks <- MCAsks
    LegsOf <- MCLegsOf
    Depth = 3
    MaxLegs = 2
    NoTxn = NoTxn
    NoKey = NoKey
SYMMETRY Symmetry
INVARIANTS
    RefusedCallsLeaveNoTrace
    RefusedOnceLeavesTheTransactionUsable
    NothingLeftForCommit
    AnsweredCallsStand
    ChecksAreHandedBackDeferred
PROPERTY CallsKeepTheSchema
CHECK_DEADLOCK FALSE
