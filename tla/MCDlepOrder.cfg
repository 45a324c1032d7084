\* A layer-2 change while the radio waits for PEER_INITIALIZATION.
CONSTANTS
    n1 = n1
    d1 = d1
    Neigh = {n1}
    Dest = {d1}
    Via <- MCVia
    SendNeighbors = TRUE
    SendProxied = FALSE
    RadioHeartbeat = 1
    RouterHeartbeat = 1
    AllocMayFail = FALSE
    MaxQueue = 3
    NoAddr = NoAddr
SPECIFICATION Spec
INVARIANT
    SignalOrderRespected
