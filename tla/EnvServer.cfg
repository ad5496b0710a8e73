SPECIFICATION FairSpec
CONSTANTS
    Clients = {c1, c2}
    MaxEnvs = 4
    TotalSteps = 1
    Runs = 2
INVARIANTS
    TypeOK
    AnswersLastReturn
PROPERTY
    NobodyWaitsForEver
CHECK_DEADLOCK FALSE
