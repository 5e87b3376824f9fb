SPECIFICATION Spec
CONSTANTS
    Handlers = {h1, h2}
    NoHandler = NoHandler
    NumMonths = 2
    MaxRuns = 2
    FaultKinds <- RunFaults
    MaxFaults = 2
SYMMETRY Symmetry
INVARIANT SingleRun
INVARIANT ServedPassedGate
INVARIANT ServingBacked
INVARIANT LoadedIsCurrent
PROPERTY ForgottenUntilStarted
