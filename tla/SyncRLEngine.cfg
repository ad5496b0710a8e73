SPECIFICATION Spec
CONSTANTS
    EvalPolicies = {p1, p2}
    Configs <- AllConfigs
    MaxEpochs = 2
INVARIANTS TypeOK EpochUsesItsOwn UsedIsResident
CHECK_DEADLOCK FALSE
