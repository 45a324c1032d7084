CONSTANTS
    e1 = e1
    e2 = e2
    e3 = e3
    m1 = m1
    m2 = m2
    p1 = p1
    p2 = p2
    Exts = {e1, e2, e3}
    MaxDomains = 2
    Metrics = {m1}
    Mprs = {}
    MetricOrder <- MCMetricOrder
    MprOrder <- MCNoMprs
    NoMetric = NoMetric
    EveryoneMpr = EveryoneMpr
    AnyName = AnyName
    NoName = NoName
    EmptyName = EmptyName
    Flooding = Flooding

SPECIFICATION Spec

INVARIANT NoDanglingHandler
