SPECIFICATION FairSpec
CONSTANTS
    MaxEpochs = 2
    BatchSize = 2
    Capacity = 2
    Growth <- SomeGrowth
    ClearOnSample = TRUE
    SaveInterval = 0
    EnableOffload = FALSE
    Fallible <- NoWorker
PROPERTY RunsEveryEpoch
