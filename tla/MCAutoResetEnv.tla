--------------------------- MODULE MCAutoResetEnv ---------------------------
(* Two simulators, two tasks with one and two trials; the settings of the examples *)
(* (examples/*/conf/env) and the other ways to reward, restart and chunk.          *)
EXTENDS AutoResetEnv

TwoTasks == {[task |-> "lift", trial |-> 1], [task |-> "push", trial |-> 1]}

Maniskill(i, r, l) ==
    [backend |-> "maniskill", autoReset |-> TRUE, ignore |-> i, rel |-> r, fixed |-> FALSE,
     eval |-> FALSE, evaluate |-> TRUE, limit |-> l, chunk |-> 1]

Libero2(a, i, r, f, v, l) ==
    [backend |-> "libero", autoReset |-> a, ignore |-> i, rel |-> r, fixed |-> f,
     eval |-> v, evaluate |-> FALSE, limit |-> l, chunk |-> 2]

AllConfigs ==
    {Maniskill(i, r, l) : i \in BOOLEAN, r \in BOOLEAN, l \in {2, 3}}
        \cup {Libero2(a, i, TRUE, f, FALSE, 3) : a \in BOOLEAN, i \in BOOLEAN, f \in BOOLEAN}
        \cup {Libero2(a, TRUE, r, TRUE, TRUE, 4) : a \in BOOLEAN, r \in BOOLEAN}
=============================================================================
