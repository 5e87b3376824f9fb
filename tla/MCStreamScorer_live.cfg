SPECIFICATION FairSpec
CONSTANTS
    Partitions = {p1}
    Scorers = {s1, s2}
    NoScorer = NoScorer
    BatchSize = 2
    MaxLog = 2
    FaultKinds <- RereadFaults
    MaxFaults = 2
PROPERTY ImplementsContract
PROPERTY EventuallyAcked
CHECK_DEADLOCK FALSE
