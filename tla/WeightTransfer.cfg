SPECIFICATION FairSpec
CONSTANTS
    Placements <- Clusters
    Strategies <- AllStrategies
    MaxSyncs = 2
INVARIANTS
    GroupsFit
    AllHoldCurrent
PROPERTY
    SyncEnds
CHECK_DEADLOCK FALSE
