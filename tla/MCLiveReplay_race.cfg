SPECIFICATION Spec
CONSTANTS
    Handlers = {h1}
    NoHandler = NoHandler
    NumMonths = 1
    MaxRuns = 1
    FaultKinds <- NoFaults
    MaxFaults = 0
PROPERTY DoneIsNotUndone
