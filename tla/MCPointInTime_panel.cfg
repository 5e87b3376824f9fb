SPECIFICATION Spec
CONSTANTS
    N = 2
    LastDay = 8
    RenewalDays = 6
    RetryDays = 2
    OBSERVATION_WINDOW_DAYS = 2
    PREDICTION_HORIZON_DAYS = 2
    BillingDays = 1
    TicketDays = 3
    StepDays = 2
    MAX_TRAINING_SUBSCRIBERS = 1
    MinSubscribers = 1
    MaxEvents <- FewEvents
    Midnights <- SomeMidnights
INVARIANT PointInTimeTypeOK
INVARIANT RowsAreTrue
INVARIANT ChurnCountedOnce
PROPERTY NoLookAhead
CHECK_DEADLOCK FALSE
