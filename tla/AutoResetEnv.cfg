SPECIFICATION WorkerSpec
CONSTANTS
    NumEnvs = 2
    RolloutLen = 2
    States <- TwoTasks
    Configs <- AllConfigs
    MaxRollouts = 2
INVARIANTS WorkerTypeOK StatsTrue TaskMatches
CHECK_DEADLOCK FALSE
