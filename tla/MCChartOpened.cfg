SPECIFICATION Spec
CONSTANTS
    Codes = {1, 2, 3}
    Groups = {g1}
    Openers = {o1, o2, o3}
    Unfit = {}
    Walkers = {w1}
    Sizes = {1}
    Starts = {0}
    All = All
    None = None
INVARIANT OpenedDuringAWalkIsAnswered
CHECK_DEADLOCK FALSE
