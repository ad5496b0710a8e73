---------------------------- MODULE AutoResetEnv ----------------------------
(***************************************************************************)
(* One environment worker that drives a batch of simulators and starts     *)
(* them anew by itself: ManiskillEnv (env/maniskill_env.py) and LiberoEnv  *)
(* (env/libero_env.py, env/utils/venv.py), with the episode statistics of  *)
(* BaseEnv, under the calls that rollout() and evaluate() of SyncRLEngine  *)
(* make through EnvGroup: reset, steps, get_env_stats with finish_rollout, *)
(* and the settings of evaluate_cfg in between.                            *)
(*                                                                         *)
(* What a simulator does in a step is one bit: 1 is success, which ends    *)
(* the episode and is worth a reward of 1.  A reset state is a pair of a   *)
(* task and a trial of it.                                                 *)
(***************************************************************************)
EXTENDS Integers, Sequences, SequencesExt, FiniteSetsExt

CONSTANTS
    NumEnvs,        \* num_envs: simulators of the worker
    RolloutLen,     \* max_rollout_steps: calls of step in a rollout
    States,         \* reset states, [task, trial]
    Configs,        \* see Settings
    MaxRollouts     \* bound: rollouts and evaluations

\* evaluate: the value evaluate_cfg gives ignore_terminations, the one override of
\* ManiskillEnv that matters here; limit: max_episode_steps; chunk: num_action_chunks.
Settings ==
    [backend : {"maniskill", "libero"}, autoReset : BOOLEAN, ignore : BOOLEAN, rel : BOOLEAN,
     fixed : BOOLEAN, eval : BOOLEAN, evaluate : BOOLEAN, limit : Nat \ {0}, chunk : Nat \ {0}]

ASSUME AutoResetAssumption ==
    /\ {NumEnvs, RolloutLen, MaxRollouts} \subseteq Nat \ {0}
    /\ Configs \subseteq Settings
    /\ \A c \in Configs : c.backend = "maniskill" => c.chunk = 1

SubEnvs == 1..NumEnvs

VARIABLES
    config,
    pc,             \* the next call of the engine
    left,           \* steps left in the rollout
    rollouts,       \* rollouts and evaluations made
    ignore,         \* self.ignore_terminations
    backup,         \* _evaluate_cfg_backup_stack
    elapsed,        \* elapsed_steps of each simulator
    prev,           \* prev_step_reward
    success,        \* success_once
    returns,
    isStart,        \* libero: is_start
    resetIds,       \* libero: reset_state_ids
    ids,            \* libero: task_ids and trial_ids
    simulator,      \* libero: the task each subprocess was built for and its initial state
    descriptions,   \* libero: task_descriptions
    records,        \* _episode_env_infos, each record with the truth about its episode
    truth,          \* history: the episode of each simulator as the engine saw it
    stale           \* history: reset() interrupted an episode and left its metrics

engineVars == <<config, pc, left, rollouts>>
settingVars == <<ignore, backup>>
metricVars == <<elapsed, prev, success, returns>>
taskVars == <<isStart, resetIds, ids, simulator, descriptions>>
statVars == <<records, truth, stale>>
workerVars == <<engineVars, settingVars, metricVars, taskVars, statVars>>

Libero == config.backend = "libero"
All(v) == [e \in SubEnvs |-> v]
NewEpisode == [sum |-> 0, len |-> 0, won |-> FALSE, recorded |-> 0]

\* The simulators are built for the first reset states.
WorkerInit ==
    /\ config \in Configs
    /\ pc = "begin" /\ left = 0 /\ rollouts = 0
    /\ ignore = config.ignore /\ backup = <<>>
    /\ elapsed = All(0) /\ prev = All(0) /\ success = All(FALSE) /\ returns = All(0)
    /\ isStart = TRUE
    /\ resetIds \in [SubEnvs -> States]
    /\ ids = resetIds
    /\ simulator = [e \in SubEnvs |-> [task |-> ids[e].task, state |-> ids[e]]]
    /\ descriptions = [e \in SubEnvs |-> ids[e].task]
    /\ records = {} /\ truth = All(NewEpisode) /\ stale = All(FALSE)

-----------------------------------------------------------------------------
\* Resetting some of the simulators, envIdx, in ascending order.

Indices(envs) ==
    CHOOSE s \in [1..Cardinality(envs) -> envs] : \A i, j \in DOMAIN s : i < j => s[i] < s[j]

\* reset_state_ids for a reset of envIdx: the fixed ones, or one drawn for each.
Drawn(envIdx, fixed) ==
    IF fixed THEN {[j \in DOMAIN envIdx |-> resetIds'[envIdx[j]]]}
    ELSE [DOMAIN envIdx -> States]

\* Mutant: the tasks are compared after the new ones were noted.
ReconfigureAfterNoting(envIdx, stateIds) ==
    LET place(e) == CHOOSE j \in DOMAIN envIdx : envIdx[j] = e
        new == [e \in SubEnvs |-> IF e \in Range(envIdx) THEN stateIds[place(e)] ELSE ids[e]]
    IN  /\ ids' = new
        /\ simulator' = [e \in SubEnvs |->
               [simulator[e] EXCEPT !.state = IF e \in Range(envIdx) THEN new[e] ELSE @]]
        /\ UNCHANGED descriptions

\* LiberoEnv._reconfigure: a subprocess is built anew for another task, then every one
\* of envIdx is put into its initial state.
Reconfigure(envIdx, stateIds) ==
    LET place(e) == CHOOSE j \in DOMAIN envIdx : envIdx[j] = e
        new == [e \in SubEnvs |-> IF e \in Range(envIdx) THEN stateIds[place(e)] ELSE ids[e]]
        rebuilt == {e \in SubEnvs : new[e].task # ids[e].task}
        built(e, old) == IF e \in rebuilt THEN new[e].task ELSE old
    IN  /\ ids' = new
        /\ simulator' = [e \in SubEnvs |->
               [task |-> built(e, simulator[e].task),
                state |-> IF e \in Range(envIdx) THEN new[e] ELSE simulator[e].state]]
        /\ descriptions' = [e \in SubEnvs |-> built(e, descriptions[e])]

\* LiberoEnv.reset; ManiSkill's own reset keeps track of its tasks.
Restart(envs, fixed) ==
    IF Libero /\ envs # {}
    THEN \E stateIds \in Drawn(Indices(envs), fixed) : Reconfigure(Indices(envs), stateIds)
    ELSE UNCHANGED <<ids, simulator, descriptions>>

-----------------------------------------------------------------------------
\* The calls of the engine.

\* evaluate() starts with apply_evaluate_cfg, which LiberoEnv does not implement.
Begin ==
    /\ pc = "begin" /\ rollouts < MaxRollouts
    /\ \/ UNCHANGED settingVars
       \/ /\ ~Libero
          /\ backup' = Append(backup, ignore) /\ ignore' = config.evaluate
    /\ pc' = "reset" /\ rollouts' = rollouts + 1
    /\ UNCHANGED <<config, left, metricVars, taskVars, statVars>>

\* LiberoEnv uses the fixed reset states in its first reset only; ManiskillEnv.reset
\* leaves success_once and returns as they are.
Reset ==
    /\ pc = "reset" /\ pc' = "step" /\ left' = RolloutLen
    /\ UNCHANGED resetIds
    /\ Restart(SubEnvs, config.fixed /\ isStart) /\ isStart' = FALSE
    /\ elapsed' = All(0) /\ prev' = All(0)
    /\ IF Libero
       THEN success' = All(FALSE) /\ returns' = All(0) /\ UNCHANGED stale
       ELSE /\ stale' = [e \in SubEnvs |-> stale[e] \/ success[e] \/ returns[e] # 0]
            /\ UNCHANGED <<success, returns>>
    /\ truth' = All(NewEpisode)
    /\ UNCHANGED <<config, rollouts, settingVars, records>>

\* The metrics after one step of every simulator (_calc_step_reward, _record_metrics),
\* and which episodes were over in this or an earlier step of the chunk.
Advance(m, outcome) ==
    LET reward == [e \in SubEnvs |-> outcome[e] - IF config.rel THEN m.prev[e] ELSE 0]
        len == [e \in SubEnvs |-> m.elapsed[e] + 1]
    IN  [elapsed |-> len,
         prev |-> outcome,
         success |-> [e \in SubEnvs |-> m.success[e] \/ outcome[e] = 1],
         returns |-> [e \in SubEnvs |-> m.returns[e] + reward[e]],
         rewards |-> [e \in SubEnvs |-> m.rewards[e] + reward[e]],
         last |-> reward,
         terminated |-> {e \in SubEnvs : e \in m.terminated \/ (outcome[e] = 1 /\ ~ignore)},
         truncated |-> {e \in SubEnvs : len[e] >= config.limit}]

Metrics ==
    [elapsed |-> elapsed, prev |-> prev, success |-> success, returns |-> returns,
     rewards |-> All(0), last |-> All(0), terminated |-> {}, truncated |-> {}]

\* Mutant: what is recorded of an episode that ended is taken after its restart.
RecordedTooLate(m, e) == [return |-> 0, len |-> m.elapsed[e], success |-> FALSE]

\* episode_info of an episode.
Recorded(m, e) == [return |-> m.returns[e], len |-> m.elapsed[e], success |-> m.success[e]]

\* prev_step_reward is the tensor that was returned as the step's rewards, unless they
\* are relative: restarting an episode zeroes both.  LiberoEnv has copied the rewards.
Delivered(m, restarted) ==
    [e \in SubEnvs |->
        IF e \in restarted /\ ~Libero /\ ~config.rel THEN m.rewards[e] - m.last[e] ELSE m.rewards[e]]

\* What the engine has seen of the episodes after the step.
Seen(m, delivered, outcomes) ==
    [e \in SubEnvs |->
        [sum |-> truth[e].sum + delivered[e], len |-> truth[e].len + Len(outcomes),
         won |-> truth[e].won \/ \E i \in DOMAIN outcomes : outcomes[i][e] = 1,
         recorded |-> truth[e].recorded]]

\* update_reset_state_ids, in an evaluation environment whenever episodes end.
UpdateResetIds(due) ==
    IF Libero /\ due THEN resetIds' \in [SubEnvs -> States] ELSE UNCHANGED resetIds

\* ManiskillEnv.step, LiberoEnv._step with chunk_step, and _handle_auto_reset for the
\* episodes that ended.  Without auto_reset LiberoEnv records what is truncated, and
\* ManiskillEnv nothing.
StepChunk ==
    /\ pc = "step" /\ left > 0 /\ left' = left - 1
    /\ \E outcomes \in [1..config.chunk -> [SubEnvs -> {0, 1}]] :
         LET m == FoldLeft(Advance, Metrics, outcomes)
             ended == m.terminated \cup m.truncated
             restarted == IF config.autoReset THEN ended ELSE {}
             reported == IF config.autoReset THEN ended ELSE IF Libero THEN m.truncated ELSE {}
             seen == Seen(m, Delivered(m, restarted), outcomes)
             Again(f, zero) == [e \in SubEnvs |-> IF e \in restarted THEN zero ELSE f[e]]
         IN  /\ elapsed' = Again(m.elapsed, 0) /\ prev' = Again(m.prev, 0)
             /\ success' = Again(m.success, FALSE) /\ returns' = Again(m.returns, 0)
             /\ records' = records \cup
                    {[claim |-> Recorded(m, e), truth |-> seen[e], stale |-> stale[e]] : e \in reported}
             /\ truth' = [e \in SubEnvs |->
                    IF e \in restarted THEN NewEpisode
                    ELSE IF e \in reported THEN [seen[e] EXCEPT !.recorded = @ + 1] ELSE seen[e]]
             /\ stale' = Again(stale, FALSE)
             /\ UpdateResetIds(config.eval /\ restarted # {})
             /\ Restart(restarted, config.fixed)
    /\ UNCHANGED <<config, pc, rollouts, settingVars, isStart>>

\* The rollout is over: another one (rollout_epoch), or the statistics.
EndRollout ==
    /\ pc = "step" /\ left = 0 /\ pc' \in {"reset", "stats"}
    /\ pc' = "reset" => rollouts < MaxRollouts /\ backup = <<>>
    /\ rollouts' = IF pc' = "reset" THEN rollouts + 1 ELSE rollouts
    /\ UNCHANGED <<config, left, settingVars, metricVars, taskVars, statVars>>

\* Mutant: the settings of the evaluation stay.
StatsWithoutRestore ==
    /\ pc = "stats" /\ pc' = "begin"
    /\ records' = {}
    /\ UpdateResetIds(~config.eval \/ ~config.autoReset)
    /\ UNCHANGED <<config, left, rollouts, settingVars, metricVars, isStart, ids, simulator,
                   descriptions, truth, stale>>

\* get_env_stats(reset=True), finish_rollout and restore_evaluate_cfg.
Stats ==
    /\ pc = "stats" /\ pc' = "begin"
    /\ records' = {}
    /\ UpdateResetIds(~config.eval \/ ~config.autoReset)
    /\ IF backup = <<>> THEN UNCHANGED settingVars
       ELSE ignore' = Last(backup) /\ backup' = Front(backup)
    /\ UNCHANGED <<config, left, rollouts, metricVars, isStart, ids, simulator, descriptions, truth, stale>>

WorkerNext == Begin \/ Reset \/ StepChunk \/ EndRollout \/ Stats

WorkerSpec == WorkerInit /\ [][WorkerNext]_workerVars

-----------------------------------------------------------------------------
\* Properties

\* The types of the variables; outside an evaluation the settings are the trained ones.
WorkerTypeOK ==
    /\ config \in Configs
    /\ pc \in {"begin", "reset", "step", "stats"}
    /\ left \in 0..RolloutLen /\ rollouts \in 0..MaxRollouts
    /\ ignore \in BOOLEAN /\ Len(backup) <= 1
    /\ pc = "begin" => ignore = config.ignore /\ backup = <<>>
    /\ elapsed \in [SubEnvs -> Nat] /\ prev \in [SubEnvs -> {0, 1}]
    /\ success \in [SubEnvs -> BOOLEAN] /\ returns \in [SubEnvs -> Int]
    /\ isStart \in BOOLEAN /\ resetIds \in [SubEnvs -> States] /\ ids \in [SubEnvs -> States]
    /\ \A e \in SubEnvs : simulator[e].state \in States
    /\ stale \in [SubEnvs -> BOOLEAN]

\* Known: ManiskillEnv hands out absolute rewards that restarting an episode zeroes.
RewardsLost == ~Libero /\ ~config.rel /\ config.autoReset

\* The statistics are about the episodes that the engine saw.  A recorded return is the
\* sum of the rewards that were handed out in that very episode, its length the number
\* of steps, its success whether a step succeeded, through chunks that go on after the
\* end, restarts of some simulators and changes of settings; except for an episode of
\* ManiskillEnv that follows one interrupted by reset(), whose return and success it
\* inherits.  And LiberoEnv without auto_reset, which goes on with an episode of full
\* length, records it once, unless the rollout has calls of step left for it.
StatsTrue ==
    /\ \A r \in records :
           ~r.stale /\ ~RewardsLost =>
               r.claim = [return |-> r.truth.sum, len |-> r.truth.len, success |-> r.truth.won]
    /\ \A e \in SubEnvs :
           truth[e].len >= config.limit /\ Libero =>
               IF (RolloutLen - 1) * config.chunk < config.limit
               THEN truth[e].recorded = 1 ELSE truth[e].recorded > 0

\* What the policy is told to do is what is simulated: task_descriptions, task_ids and
\* the subprocess of every simulator are of one task, and its initial state is one of
\* that task, whichever simulators are restarted with or without another task.
TaskMatches ==
    Libero => \A e \in SubEnvs :
        /\ simulator[e].task = ids[e].task /\ descriptions[e] = ids[e].task
        /\ simulator[e].state = ids[e]
=============================================================================
