SPECIFICATION Spec
CONSTANTS
    Nibbles = {0, 1}
    NoValue = NoValue
    None = None
    Keys <- MCKeys
    Asked <- MCAsked
    Versions = {0, 1}
    Changesets <- MCChangesets
    UNDO_WINDOW = 1
    MaxHeight = 3
INVARIANTS
    StoreInv
    RootIsCanonical
    ProofsVerify
    RepliesAreTrue
    GarbageIsLogged
CHECK_DEADLOCK FALSE
CONSTRAINT Bounded
