SPECIFICATION EvalFairSpec
CONSTANTS
    Roller = {rollout}
    Sender = sync
    Updater = updater
    Waited <- FirstVersion
    MaxVersion = 3
    Fallible = {"rollout", "load"}
INVARIANTS
    EvalTypeOK
    GateNeverLost
PROPERTIES
    FreshWhenDone
    EveryoneServed
CHECK_DEADLOCK FALSE
