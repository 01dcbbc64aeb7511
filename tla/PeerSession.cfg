SPECIFICATION Spec
CONSTANTS
    c1 = c1
    c2 = c2
    Conns = {c1, c2}
    Addr <- MCAddr
    Peers <- MCPeers
    HeadBytesKept = {TRUE, FALSE}
    MaxStreams = 2
    Permits = 1
INVARIANTS
    SessionInv
    OrderlyPeerKept
PROPERTIES
    DesyncCloses
    SilentAfterError
CHECK_DEADLOCK FALSE
