SPECIFICATION FairServing
CONSTANTS
    Trainers = {t1}
    Margin = 1
    MaxScore = 2
    MaxModels = 2
    FaultKinds <- ServingAndAnswers
    MaxFaults = 2
    Servers = {s1}
    Sources = {"auto", "registry"}
INVARIANT ServingTypeOK
INVARIANT ServedWasChampion
INVARIANT ArtifactsInOrder
PROPERTY ChampionBeaten
PROPERTY ImplementsPromotion
PROPERTY Recovers
CHECK_DEADLOCK FALSE
