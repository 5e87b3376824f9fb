SPECIFICATION FairSpec
CONSTANTS
    r1 = r1
    r2 = r2
    v1 = v1
    v2 = v2
    v3 = v3
    Requests = {r1, r2}
    MaxRows = 2
    Window = 2
    ShadowWindow = 2
    RunReports <- SomeReports
    Viewers = {v1, v2, v3}
    CacheSeconds = 2
    MaxTime = 4
    Workloads <- SomeWorkloads
INVARIANT MonitoringTypeOK
INVARIANT SnapshotAligned
INVARIANT CountedOnce
INVARIANT GaugesCoherent
INVARIANT ServedIsRecent
PROPERTY PredictionsAnswered
CHECK_DEADLOCK FALSE
