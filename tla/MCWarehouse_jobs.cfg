SPECIFICATION FairSpec
CONSTANTS
    MaxLoads = 2
    MaxFaults = 2
    Retries = 2
    SliceSize = 2
INVARIANT WarehouseTypeOK
INVARIANT OneLoad
INVARIANT BadRowsAccountedFor
INVARIANT CopyIsFaithful
PROPERTY LoadedWhole
PROPERTY JobsEnd
