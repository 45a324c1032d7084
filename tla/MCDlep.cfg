\* One neighbor and one proxied destination, both send flags set,
\* equal heartbeat intervals, allocation failures possible.
CONSTANTS
    n1 = n1
    d1 = d1
    Neigh = {n1}
    Dest = {d1}
    Via <- MCVia
    SendNeighbors = TRUE
    SendProxied = TRUE
    RadioHeartbeat = 1
    RouterHeartbeat = 1
    AllocMayFail = TRUE
    MaxQueue = 3
    NoAddr = NoAddr
SPECIFICATION Spec
INVARIANTS
    TypeOK
    AckedKnownToRouter
    RouterViewAnnounced
    ChangedOnlyWhileUpSent
PROPERTIES
    DiscoveryEstablishesSession
    HandshakeCompletes
