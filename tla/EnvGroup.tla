------------------------------ MODULE EnvGroup ------------------------------
(***************************************************************************)
(* EnvGroup of env/env_group.py over environments that are Ray actors:     *)
(* synchronous and asynchronous stepping, the step counter of the          *)
(* auto_reset context and the truncation flags it yields.                  *)
(***************************************************************************)
EXTENDS Environments

CONSTANT
    MaxSteps        \* max_episode_steps of the auto_reset context

ASSUME MaxStepsAssumption == MaxSteps \in Nat \ {0}

VARIABLES
    counter,        \* step_counter._id_to_step
    task,           \* what the actor was asked to do and has not done: "none", "step", "reset"
    result,         \* returns that are ready and not collected: a set of at most one each
    position        \* history: the [resets, steps] of each environment's last return

envVars == <<counter, task, result, position>>

EnvInit ==
    /\ counter = [e \in Envs |-> -1]
    /\ task = [e \in Envs |-> "none"]
    /\ result = [e \in Envs |-> {}]
    /\ position = [e \in Envs |-> [resets |-> 0, steps |-> 0]]

\* Mutant: no environment ever reaches its maximum.
ReachedNever(e) == FALSE

\* is_reached_max_steps.
Reached(e) == counter[e] = MaxSteps

\* reset and step return futures, on which the calls that use them wait in order:
\* the environments are taken to answer at once, in a function from environments.
ResetAll(inAutoReset) ==
    /\ position' = [e \in Envs |-> After("reset", position[e])]
    /\ counter' = IF inAutoReset THEN [e \in Envs |-> 0] ELSE counter
    /\ UNCHANGED <<task, result>>

ResetReturns == [e \in Envs |-> ReturnOf(e, After("reset", position[e]), {})]

\* step inside auto_reset: an environment at its maximum is reset instead, and the
\* counter of every environment advances.
StepAll ==
    /\ position' = [e \in Envs |-> After(IF Reached(e) THEN "reset" ELSE "step", position[e])]
    /\ counter' = [e \in Envs |-> IF Reached(e) THEN 0 ELSE counter[e] + 1]
    /\ UNCHANGED <<task, result>>

\* Every way step can return, if ends[e] are the ways the step of e may end some of
\* its sub-environments.
StepReturns(ends) ==
    LET steps(e) == IF Reached(e) THEN {ReturnOf(e, After("reset", position[e]), {})}
                    ELSE {ReturnOf(e, After("step", position[e]), ended) : ended \in ends[e]}
    IN  {f \in [Envs -> UNION {steps(e) : e \in Envs}] : \A e \in Envs : f[e] \in steps(e)}

\* Mutant: only one environment of the batch is given its task.
StepAsyncOne(batch, inAutoReset) ==
    /\ task' = [task EXCEPT ![CHOOSE e \in batch : TRUE] = "step"]
    /\ UNCHANGED <<counter, result, position>>

\* step_async: a task for each environment of the batch.
StepAsync(batch, inAutoReset) ==
    LET due(e) == inAutoReset /\ Reached(e)
    IN  /\ task' = [e \in Envs |-> IF e \notin batch THEN task[e]
                                   ELSE IF due(e) THEN "reset" ELSE "step"]
        /\ counter' = [e \in Envs |-> IF e \in batch /\ due(e) THEN -1 ELSE counter[e]]
        /\ UNCHANGED <<result, position>>

\* The actor of e finishes its task.
Finish(e, ended) ==
    /\ task[e] # "none"
    /\ task[e] = "reset" => ended = {}
    /\ position' = [position EXCEPT ![e] = After(task[e], @)]
    /\ result' = [result EXCEPT ![e] = {ReturnOf(e, After(task[e], position[e]), ended)}]
    /\ task' = [task EXCEPT ![e] = "none"]
    /\ UNCHANGED counter

Ready == {e \in Envs : result[e] # {}}

\* collect_async waits for one return and takes all that are ready by then.
CollectAsync(inAutoReset) ==
    /\ Ready # {}
    /\ counter' = [e \in Envs |-> IF inAutoReset /\ e \in Ready THEN counter[e] + 1 ELSE counter[e]]
    /\ result' = [e \in Envs |-> {}]
    /\ UNCHANGED <<task, position>>

Collected == [e \in Ready |-> CHOOSE r \in result[e] : TRUE]

\* get_truncations of the environments in the batch, after the counters advanced.
TruncationsOf(batch) == {e \in batch : counter'[e] = MaxSteps}
=============================================================================
