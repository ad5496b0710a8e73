SPECIFICATION FairSpec
CONSTANTS
    MaxEpochs = 3
    BatchSize = 2
    Capacity = 3
    Growth <- SomeGrowth
    ClearOnSample = TRUE
    SaveInterval = 2
    EnableOffload = TRUE
    Fallible <- Worker
INVARIANTS
    TypeOK
    Exclusive
    ResidentWhileUsed
PROPERTIES
    ImplementsPipeline
    RunEnds
CHECK_DEADLOCK FALSE
