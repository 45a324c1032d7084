\* Two extension types for one domain slot (the second configure is refused), one metric and one MPR plugin;
\* one neighbor with two links; metric 1 besides RFC7181_METRIC_MAX (3) and
\* RFC7181_METRIC_INFINITE (4); willingness NEVER (0) and 7.
CONSTANTS
    e1 = e1
    e2 = e2
    m1 = m1
    p1 = p1
    n1 = n1
    l1 = l1
    l2 = l2
    Exts = {e1, e2}
    MaxDomains = 1
    Metrics = {m1}
    Mprs = {p1}
    MetricOrder <- MCMetricOrder
    MprOrder <- MCMprOrder
    NoMetric = NoMetric
    EveryoneMpr = EveryoneMpr
    AnyName = AnyName
    NoName = NoName
    EmptyName = EmptyName
    Flooding = Flooding
    Neighbors = {n1}
    Links = {l1, l2}
    LinkNeigh <- MCLinkNeigh
    MetricMax = 3
    MetricInfinite = 4
    MetricInputs = {1}
    PluginMprStart = FALSE
    PluginMprsStart = FALSE
    Willingness = {0, 7}
    NoLink = NoLink
    NoTlv = NoTlv

SPECIFICATION Spec
SYMMETRY MCSymmetry
VIEW MCView

INVARIANT TypeOK
INVARIANT RefcountsMatchUsers
INVARIANT EnabledIffUsed
INVARIANT NeighborMetricIsBest
