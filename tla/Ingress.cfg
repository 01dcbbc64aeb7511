SPECIFICATION Spec
CONSTANTS
    Blocks <- MCBlocks
    Reactions <- MCReactions
    Crystals <- MCCrystals
    Envelopes <- MCEnvelopes
    Architects <- MCArchitects
    Chunked <- MCChunked
    Direct <- MCDirect
    Slots = {t1, t2}
    Miner = miner
    APP_MAX_MESSAGE = 3
    Capacity = 2
    MaxCopies = 1
    MaxFrames = 3
INVARIANTS
    IngressInv
    TimelyDelivery
PROPERTIES
    ExpiredStreamsGo
    TasksEnd
    PooledIsSpread
CHECK_DEADLOCK FALSE
