SPECIFICATION Spec
CONSTANTS
    Keys <- MCKeys
    Architect <- MCArchitect
    Absent = Absent
    NoKey = NoKey
    Partner <- MCPartner
    Rx <- MCRx
    Curvature <- MCCurvature
    Tax <- MCTax
    Decay <- MCDecay
    THERMAL_CAPACITY = 3
    MINING_REWARD_AMOUNT = 1
    GenesisMass = 5
    MaxMass = 7
    MaxNonce = 3
    MaxBatch = 3
    MaxBlocks = 2
INVARIANTS
    PVMInv
PROPERTIES
    NonceSpentOnce
    EveryReactionCounted
CHECK_DEADLOCK FALSE
