SPECIFICATION FairSpec
CONSTANTS
    Handlers = {h1}
    NoHandler = NoHandler
    NumMonths = 2
    MaxRuns = 2
    FaultKinds <- AllFaults
    MaxFaults = 1
INVARIANT TypeOK
INVARIANT StateCoherent
PROPERTY BusyEnds
PROPERTY PromotedIsServed
