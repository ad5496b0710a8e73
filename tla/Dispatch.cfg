SPECIFICATION FairSpec
CONSTANTS
    n1 = n1
    n2 = n2
    Elsewhere = Elsewhere
    Policies <- ThreePolicies
    Nodes = {n1, n2}
    PoliciesOn <- OnTwoNodes
    Batch <- FourRequests
    Threads = {t1, t2}
    MaxPending = 2
    Modes <- AllModes
    Batches = 2
INVARIANTS
    TypeOK
    SpreadAndBounded
PROPERTY
    BatchHandedOut
CHECK_DEADLOCK FALSE
