SPECIFICATION FairAsyncSpec
CONSTANTS
    Request = {r1, r2}
    Fallible = {r2}
INVARIANTS
    AsyncTypeOK
    UpdaterInStep
PROPERTY
    AllGetTheirTurn
