SPECIFICATION Spec
CONSTANTS
    Partitions = {p1}
    Scorers = {s1}
    NoScorer = NoScorer
    BatchSize = 2
    MaxLog = 4
    FaultKinds <- StableResults
    MaxFaults = 3
INVARIANT TypeOK
INVARIANT AckedSettled
INVARIANT IInv
INVARIANT NewestScoreLast
CHECK_DEADLOCK FALSE
