SPECIFICATION AnalyticsLiveSpec
CONSTANTS
    h1 = h1
    h2 = h2
    h3 = h3
    h4 = h4
    Latencies = {1, 2, 9}
    RateUnit = 12
    StaticMax <- MCStaticMax
    StddevThreshold = 1
    Window = 3
    BaselineMin = 3
    RecentLen = 1
    Handlers = {h1, h2, h3, h4}
    Point <- MCPoint
    Dims <- OneDim
    Size = 3
    ResolveAfter = 2
    MaxHistory = 1
    MaxTime = 2
INVARIANTS
    AnalyticsTypeOK
    PointsCounted
    AcknowledgedWasSeen
PROPERTIES
    ResolvedAfterQuiet
    AnomalyAlerted
