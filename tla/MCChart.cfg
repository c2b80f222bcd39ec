SPECIFICATION FairSpec
CONSTANTS
    Codes = {1, 2, 3}
    Groups = {g1, g2}
    Openers = {o1, o2, o3}
    Unfit = {}
    Walkers = {w1}
    Sizes = {1}
    Starts = {0, 1}
    All = All
    None = None
INVARIANTS
    IInv
    OneOpenerPerCode
    NoAccountAnsweredTwice
    WalkMissesNothing
PROPERTY EveryWalkEnds
CHECK_DEADLOCK FALSE
