SPECIFICATION Spec
CONSTANTS
    Cmds = {1, 2}
    Amounts = {0, 2, 5, 7}
    Setups <- MCSetups
    Masses = {0, 6}
    PROTOCOL_MIN_FEE = 1
    DebugMass = 2
    Reward = 1
    Deposit = 3
    Capacity = 1
    MaxU64 = 7
    MaxHeight = 2
INVARIANTS
    
    SignedIsCovered
    RefusedIsNotPaid
PROPERTIES
    CommandsEnd
CHECK_DEADLOCK FALSE
