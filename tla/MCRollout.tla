----------------------------- MODULE MCRollout -----------------------------
(* Two environments in a shard each, with two sub-environments each. *)
EXTENDS Rollout

CONSTANTS e1, e2, a, b

Twins == [e \in {e1, e2} |-> {a, b}]
Both == <<e1, e2>>

Config(l, x, n, r) == [loop |-> l, auto |-> x, epochs |-> n, rollout_epoch |-> r]
AllConfigs == {Config("sync", FALSE, 2, 2), Config("sync", TRUE, 1, 1), Config("rsl", FALSE, 2, 1),
               Config("async", FALSE, 1, 1)}
=============================================================================
