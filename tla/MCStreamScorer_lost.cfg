SPECIFICATION Spec
CONSTANTS
    Partitions = {p1}
    Scorers = {s1}
    NoScorer = NoScorer
    BatchSize = 1
    MaxLog = 2
    FaultKinds <- AllFaults
    MaxFaults = 1
SYMMETRY Symmetry
INVARIANT AckedHasResult
CHECK_DEADLOCK FALSE
