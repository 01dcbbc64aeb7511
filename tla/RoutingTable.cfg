SPECIFICATION FairSpec
CONSTANTS
    Ids <- MCIds
    LocalId <- Local
    Forged <- MCForged
    Answers <- MCAnswers
    Targets <- MCTargets
    Tasks = {t1}
    Lookup = lookup
    K = 2
    ALPHA = 2
    NBUCKETS = 3
INVARIANTS
    TableInv
    EvictionSound
    LookupFindsNearest
PROPERTIES
    LookupEnds
    ImplementsKnownPeers
CHECK_DEADLOCK FALSE
