\* One console, two log sources of one severity (BaseMask logs s1), one
\* neighbor and the net of one interface with one key, two values; calloc
\* may fail.
CONSTANTS
    n1 = n1
    k1 = k1
    v1 = v1
    v2 = v2
    Neighs = {n1}
    Keys = {k1}
    NetLoopKeys = {k1}
    Vals = {v1, v2}
    Net = Net
    NoVal = NoVal
    Current = Current
    Old = Old
    Foreign = Foreign
    NoOrigin = NoOrigin
    c1 = c1
    s1 = s1
    s2 = s2
    warn = warn
    Consoles = {c1}
    LogSources = {s1, s2}
    Severities = {warn}
    BaseMask <- MCBaseMask
    UnknownWord = UnknownWord
    MaxWords = 2
    AllocMayFail = TRUE

SPECIFICATION Spec

INVARIANT TypeOK
INVARIANT ConfigInForce
INVARIANT NoDataAfterCleanup
INVARIANT LiveConsoleState
PROPERTY ImplementsAbstract
