SPECIFICATION FairSpec
CONSTANTS
    e1 = e1
    e2 = e2
    a = a
    b = b
    Envs = {e1, e2}
    SubEnvs <- Twins
    EnvOrder <- Both
    NumShards = 2
    Unit = "transition"
    Configs <- AllConfigs
    MaxSteps = 2
    BatchSize = 3
    MaxResets = 2
    MaxSamples = 1
INVARIANTS TypeOK EpisodesWhole SampledOnce
PROPERTY EpochsComplete
CHECK_DEADLOCK FALSE
