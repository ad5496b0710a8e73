SPECIFICATION DPSpec
CONSTANTS
    Parts = 4
    Clusters <- SmallClusters
    Requests <- AllRequests
    Strategies <- AllStrategies
    Setups <- SetupsOf
INVARIANTS
    DPTypeOK
    RaisesOnlyIfUneven
    PlacedAsPlanned
    SplitEvenly
PROPERTY
    TrainingEnds
CHECK_DEADLOCK FALSE
