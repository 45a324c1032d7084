\* Neighbors that appear in and leave the layer-2 database during a session.
CONSTANTS
    n1 = n1
    d1 = d1
    Neigh = {n1}
    Dest = {d1}
    Via <- MCVia
    SendNeighbors = TRUE
    SendProxied = FALSE
    RadioHeartbeat = 1
    RouterHeartbeat = 1
    AllocMayFail = FALSE
    MaxQueue = 3
    NoAddr = NoAddr
SPECIFICATION Spec
PROPERTY
    RouterViewFollowsRadio
