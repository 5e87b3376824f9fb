SPECIFICATION Spec
CONSTANTS
    Scale = 12
    Scores = {3, 4, 7, 11}
    MaxRows = 4
    TuneGrid = {4, 6, 8}
    CostGrid = {2, 4, 6, 8, 10}
    DECISION_THRESHOLD = 6
    CostModels <- SomeCosts
    Capacities <- SomeCapacities
    None = None
INVARIANT ThresholdsAreSound
INVARIANT BudgetRespected
