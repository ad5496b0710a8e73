---------------------------- MODULE Environments ----------------------------
(***************************************************************************)
(* What an environment returns (types/env_ret.py), as far as the rollout   *)
(* tells returns apart: the environment, the number of its resets so far   *)
(* and of its steps since the last one, and the sub-environments that      *)
(* ended (last_terminated or last_truncated) in that step.  Observation    *)
(* and reward are left out.                                                *)
(***************************************************************************)
EXTENDS Integers, FiniteSets

CONSTANTS
    Envs,           \* ids of the environments of a group
    SubEnvs         \* the sub-environments of each of them (num_envs)

ASSUME EnvsAssumption == Envs # {} /\ IsFiniteSet(Envs)
ASSUME SubEnvsAssumption == \A e \in Envs : SubEnvs[e] # {} /\ IsFiniteSet(SubEnvs[e])

Returns ==
    [env : Envs, resets : Nat, steps : Nat, ended : SUBSET UNION {SubEnvs[e] : e \in Envs}]

ReturnOf(e, at, ended) == [env |-> e, resets |-> at.resets, steps |-> at.steps, ended |-> ended]

\* Where an environment is after a reset or a step.
After(kind, at) ==
    IF kind = "reset" THEN [resets |-> at.resets + 1, steps |-> 0]
    ELSE [resets |-> at.resets, steps |-> at.steps + 1]
=============================================================================
