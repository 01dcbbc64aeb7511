SPECIFICATION MempoolSpec
CONSTANTS
    Rx <- MCRx
    Sectors = 3
    Sector <- MCSector
    Energy <- MCEnergy
    ArchitectSector = 0
    Capacity = 2
    Limit = 2
    MaxClock = 3
INVARIANTS
    MempoolInv
PROPERTIES
    DrainTakesBest
CHECK_DEADLOCK FALSE
