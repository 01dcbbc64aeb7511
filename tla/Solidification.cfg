SPECIFICATION Spec
CONSTANTS
    Keys <- MCKeys
    Architect <- MCArchitect
    Values <- MCValues
    Absent = Absent
    GenesisValue = 0
    Reactions = {0}
    Reward = Reward
    Sender <- MCSender
    Execute <- MCExecute
    PvmErr = PvmErr
    Density <- MCDensity
    NoHash = NoHash
    UnknownHash = UnknownHash
    ZeroRoot = ZeroRoot
    WrongRoot = WrongRoot
    None = None
    Payloads <- MCPayloads
    Energies = {0, 2}
    MaxHeight = 4
    FINALITY_DEPTH = 1
    UNDO_WINDOW = 2
INVARIANTS
    UndoRestoresHistory
    TipConsistent
    RootCommitsToAtoms
    MemoryMatchesDisk
    IndexMatchesTip
PROPERTIES
    DeepCrystalsImmutable
CHECK_DEADLOCK FALSE
CONSTRAINT AfterFailure
