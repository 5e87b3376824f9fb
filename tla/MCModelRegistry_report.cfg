SPECIFICATION RegistrySpec
CONSTANTS
    Trainers = {t1, t2}
    Margin = 1
    MaxScore = 1
    MaxModels = 3
    FaultKinds <- AllOutages
    MaxFaults = 1
SYMMETRY Symmetry
PROPERTY ReportTruthful
CHECK_DEADLOCK FALSE
