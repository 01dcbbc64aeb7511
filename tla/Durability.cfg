SPECIFICATION DSpec
CONSTANTS
    Keys <- MCKeys
    Architect <- MCArchitect
    Values <- MCValues
    Absent = Absent
    GenesisValue = 0
    Reactions = {0}
    Reward = Reward
    Sender <- MCSender
    Execute <- MCExecute
    PvmErr = PvmErr
    Density <- MCShortDensity
    NoHash = NoHash
    UnknownHash = UnknownHash
    ZeroRoot = ZeroRoot
    WrongRoot = WrongRoot
    None = None
    Payloads <- MCPayloads
    Energies = {0, 2}
    MaxHeight = 2
    MaxRestarts = 1
    FINALITY_DEPTH = 1
    UNDO_WINDOW = 1
INVARIANTS
    DurableInv
    AckedCrystalsSurvive
PROPERTIES
    CtrlCKeepsState
CHECK_DEADLOCK FALSE
CONSTRAINT BeforeAFailure
