SPECIFICATION Spec
CONSTANTS
    Keys <- MCKeys
    Architect <- MCArchitect
    Values <- MCValues
    Absent = Absent
    GenesisValue = 0
    Reactions = {0}
    Reward = Reward
    Sender <- MCSender
    Execute <- MCExecute
    PvmErr = PvmErr
    Density <- MCDensity
    NoHash = NoHash
    UnknownHash = UnknownHash
    ZeroRoot = ZeroRoot
    WrongRoot = WrongRoot
    None = None
    Payloads <- MCPayloads
    Energies = {0, 2}
    MaxHeight = 3
    FINALITY_DEPTH = 1
    UNDO_WINDOW = 1
INVARIANT LatestExists
CHECK_DEADLOCK FALSE
