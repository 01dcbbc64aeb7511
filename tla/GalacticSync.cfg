SPECIFICATION Spec
CONSTANTS
    Nodes <- MCNodes
    Miners <- MCNodes
    Founder <- MCFounder
    Seeds <- FounderDials
    Entropies = {0, 1}
    SYNC_SLACK = 1
    MaxHeight = 3
    MaxMined = 2
INVARIANTS
    SyncInv
PROPERTIES
    CatchesUp
    GossipQuiesces
CHECK_DEADLOCK FALSE
