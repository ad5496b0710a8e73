---------------------------- MODULE SyncRLEngine ----------------------------
(***************************************************************************)
(* The life of a SyncRLEngine or RSLRLEngine (engine/): __init__ with the  *)
(* warm-up or the first sync and the verification that follows, the epochs *)
(* of run(), evaluation and checkpoints, with offloading, beside the       *)
(* threads of the evaluation policies that load what a sync left in their  *)
(* weight buffers (policy/base_policy.py).                                 *)
(*                                                                         *)
(* Parameters and weights are numbers: 0 are the random ones an evaluation *)
(* policy starts with, 1 those of the train policies, and every training   *)
(* step and every re-initialisation makes the next.  How a rollout fills   *)
(* the data buffer is Rollout's subject, how weights travel is             *)
(* WeightTransfer's, and the gate in front of a policy is EvalPolicy's.    *)
(***************************************************************************)
EXTENDS Integers, FiniteSets

CONSTANTS
    EvalPolicies,
    Configs,        \* settings an engine is run with, see Settings
    MaxEpochs       \* train.max_epochs

\* strategy: weight_buffer.buffer_strategy; copies: what a sync puts into a buffer is a
\* copy (remote policies, CPUWeightBuffer) and not the trainer's own tensors; offload:
\* cluster.enable_offload; warm: SyncRLEngine.warm_up (DEBUG); replay: a ReplayBuffer
\* instead of a RolloutBuffer; evalEvery, saveEvery: train.eval_interval (0: none) and
\* train.save_interval.
Settings ==
    [strategy : {"None", "buffer"}, copies : BOOLEAN, offload : BOOLEAN, warm : BOOLEAN,
     replay : BOOLEAN, evalEvery : Nat, saveEvery : Nat \ {0}]

ASSUME SyncEngineAssumption ==
    /\ EvalPolicies # {} /\ IsFiniteSet(EvalPolicies)
    /\ Configs \subseteq Settings
    /\ MaxEpochs \in Nat \ {0}

VARIABLES
    config,
    pc,         \* the statement of the engine
    epoch,      \* 0 in __init__, then self.epoch + 1
    pending,    \* policies the current statement has still to call
    version,    \* of the parameters of the train policies
    resident,   \* what is on its device: "param", "optimizer", "eval", "env"
    rows,       \* epochs whose rollouts the data buffer holds, 0 is the warm-up
    dataset,    \* epochs whose rollouts the train policies' data set was made of
    saved,      \* what the last checkpoint holds
    model,      \* weights each evaluation policy infers with
    buffer,     \* weights in its weight buffer
    held,       \* the state dict its update thread took from there
    mixed,      \* that state dict or the model changed under the load
    thread,     \* its update thread
    signal, done,   \* its events
    timedOut    \* a wait for an update has timed out

trainVars == <<version, resident, saved>>
dataVars == <<rows, dataset>>
updateVars == <<held, thread>>
eventVars == <<signal, done>>
vars == <<config, pc, epoch, pending, trainVars, dataVars, model, buffer, mixed, updateVars,
          eventVars, timedOut>>

Garbage == -1   \* freed, or torn by a training step or by a move to another device
Cleared == -2   \* an empty buffer
Alias == -3     \* the trainer's own tensors

Goto(from, to) == pc = from /\ pc' = to
Call(from, to) == Goto(from, to) /\ pending' = EvalPolicies

\* What somebody who reads the parameters gets.
Parameters == IF "param" \in resident /\ pc # "training" THEN version ELSE Garbage

Init ==
    /\ config \in Configs
    /\ pc = IF config.warm THEN "warm_rollout" ELSE "send"
    /\ epoch = 0 /\ pending = EvalPolicies
    /\ version = 1
    /\ resident = IF config.offload THEN {"eval", "env"} ELSE {"param", "optimizer", "eval", "env"}
    /\ rows = {} /\ dataset = {} /\ saved = 0
    /\ model = [p \in EvalPolicies |-> 0]
    /\ buffer = [p \in EvalPolicies |-> Cleared]
    /\ held = [p \in EvalPolicies |-> Cleared]
    /\ mixed = [p \in EvalPolicies |-> FALSE]
    /\ thread = [p \in EvalPolicies |-> "await"]
    /\ signal = [p \in EvalPolicies |-> FALSE]
    /\ done = [p \in EvalPolicies |-> TRUE]
    /\ timedOut = FALSE

-----------------------------------------------------------------------------
\* Offloading.

OnDevice(what) == resident' = IF config.offload THEN resident \cup what ELSE resident
OffDevice(what) == resident' = IF config.offload THEN resident \ what ELSE resident

\* A load that is under way while the tensors it reads or writes change.
Disturb(how) == mixed' = [p \in EvalPolicies |-> mixed[p] \/ (thread[p] = "loading" /\ how[p])]
ReadsAlias == [p \in EvalPolicies |-> held[p] = Alias]
ModelMoves == [p \in EvalPolicies |-> config.offload]

\* _pre_rollout_hook, _pre_evaluate_hook: no gate is in front of the model's move.
ReloadEval(from, to) ==
    /\ Goto(from, to)
    /\ OnDevice({"eval", "env"}) /\ Disturb(ModelMoves)
    /\ UNCHANGED <<config, epoch, pending, version, saved, dataVars, model, buffer, updateVars, eventVars, timedOut>>

OffloadEval(from, to) ==
    /\ Goto(from, to)
    /\ OffDevice({"eval", "env"}) /\ Disturb(ModelMoves)
    /\ UNCHANGED <<config, epoch, pending, version, saved, dataVars, model, buffer, updateVars, eventVars, timedOut>>

-----------------------------------------------------------------------------
\* Rollouts, data sets and training.

WarmRollout ==
    /\ Goto("warm_rollout", "warm_offload")
    /\ rows' = {0}
    /\ UNCHANGED <<config, epoch, pending, trainVars, dataset, model, buffer, mixed, updateVars, eventVars, timedOut>>

Rollout ==
    /\ Goto("rollout", "post_rollout")
    /\ rows' = rows \cup {epoch}
    /\ UNCHANGED <<config, epoch, pending, trainVars, dataset, model, buffer, mixed, updateVars, eventVars, timedOut>>

Evaluate ==
    /\ Goto("evaluate", "post_evaluate")
    /\ UNCHANGED <<config, epoch, pending, trainVars, dataVars, model, buffer, mixed, updateVars, eventVars, timedOut>>

\* A RolloutBuffer is cleared by the sample, a ReplayBuffer is not.
UpdateDataset ==
    /\ Goto("update_dataset", "pre_train")
    /\ dataset' = rows
    /\ rows' = IF config.replay THEN rows ELSE {}
    /\ UNCHANGED <<config, epoch, pending, trainVars, model, buffer, mixed, updateVars, eventVars, timedOut>>

PreTrain ==
    /\ Goto("pre_train", "train")
    /\ OnDevice({"param", "optimizer"})
    /\ UNCHANGED <<config, epoch, pending, version, saved, dataVars, model, buffer, mixed, updateVars, eventVars, timedOut>>

BeginTrain ==
    /\ Goto("train", "training")
    /\ Disturb(ReadsAlias)
    /\ UNCHANGED <<config, epoch, pending, trainVars, dataVars, model, buffer, updateVars, eventVars, timedOut>>

EndTrain ==
    /\ Goto("training", IF epoch = 0 THEN "reset" ELSE "checkpoint")
    /\ version' = version + 1
    /\ UNCHANGED <<config, epoch, pending, resident, saved, dataVars, model, buffer, mixed, updateVars, eventVars, timedOut>>

\* Mutant: the data buffer is not cleared.
ResetKeepsRows ==
    /\ Goto("reset", "pre_sync")
    /\ version' = version + 1 /\ dataset' = {}
    /\ OnDevice({"param", "optimizer"})
    /\ UNCHANGED <<config, epoch, pending, saved, rows, model, buffer, mixed, updateVars, eventVars, timedOut>>

\* The end of the warm-up: the data are dropped, the train policies start anew.
ResetTrainingState ==
    /\ Goto("reset", "pre_sync")
    /\ rows' = {} /\ dataset' = {}
    /\ version' = version + 1
    /\ OnDevice({"param", "optimizer"})
    /\ UNCHANGED <<config, epoch, pending, saved, model, buffer, mixed, updateVars, eventVars, timedOut>>

SaveDue == config.evalEvery > 0 /\ (epoch - 1) % config.saveEvery = 0

\* Mutant: the parameters are saved where they are.
SaveAsIs ==
    /\ saved' = IF pc = "save_last" \/ SaveDue THEN Parameters ELSE saved
    /\ Goto("checkpoint", "pre_sync") \/ Goto("save_last", "done")
    /\ UNCHANGED <<config, epoch, pending, version, resident, dataVars, model, buffer, mixed, updateVars, eventVars, timedOut>>

\* save_checkpoint brings back parameters that are offloaded, and offloads them again.
Save ==
    /\ saved' = IF pc = "save_last" \/ SaveDue THEN version ELSE saved
    /\ Goto("checkpoint", "pre_sync") \/ Goto("save_last", "done")
    /\ UNCHANGED <<config, epoch, pending, version, resident, dataVars, model, buffer, mixed, updateVars, eventVars, timedOut>>

-----------------------------------------------------------------------------
\* sync_weights.

\* Mutant: the parameters leave the device together with the optimizer.
PreSyncOffloadsAll ==
    /\ Call("pre_sync", "send")
    /\ OffDevice({"optimizer", "param"})
    /\ UNCHANGED <<config, epoch, version, saved, dataVars, model, buffer, mixed, updateVars, eventVars, timedOut>>

PreSync ==
    /\ Call("pre_sync", "send")
    /\ OffDevice({"optimizer"})
    /\ UNCHANGED <<config, epoch, version, saved, dataVars, model, buffer, mixed, updateVars, eventVars, timedOut>>

\* Strategy "None": the evaluation policy loads at once what it is sent.
SendIpc(p) ==
    /\ pc = "send" /\ p \in pending /\ config.strategy = "None"
    /\ model' = [model EXCEPT ![p] = Parameters]
    /\ pending' = pending \ {p}
    /\ UNCHANGED <<config, pc, epoch, trainVars, dataVars, buffer, mixed, updateVars, eventVars, timedOut>>

ClearBuffer(p) ==
    /\ pc = "send" /\ p \in pending /\ config.strategy = "buffer" /\ buffer[p] # Cleared
    /\ buffer' = [buffer EXCEPT ![p] = Cleared]
    /\ UNCHANGED <<config, pc, epoch, pending, trainVars, dataVars, model, mixed, updateVars, eventVars, timedOut>>

\* Mutant: remote policies, too, get the trainer's tensors.
FillWithAlias(p) ==
    /\ pc = "send" /\ p \in pending /\ config.strategy = "buffer" /\ buffer[p] = Cleared
    /\ buffer' = [buffer EXCEPT ![p] = Alias]
    /\ pending' = pending \ {p}
    /\ UNCHANGED <<config, pc, epoch, trainVars, dataVars, model, mixed, updateVars, eventVars, timedOut>>

FillBuffer(p) ==
    /\ pc = "send" /\ p \in pending /\ config.strategy = "buffer" /\ buffer[p] = Cleared
    /\ buffer' = [buffer EXCEPT ![p] = IF config.copies THEN Parameters ELSE Alias]
    /\ pending' = pending \ {p}
    /\ UNCHANGED <<config, pc, epoch, trainVars, dataVars, model, mixed, updateVars, eventVars, timedOut>>

\* The first sync has no hooks; after the warm-up there are both.
Hooked == epoch > 0 \/ config.warm
Synced == IF Hooked THEN "post_sync" ELSE "verify"

Sent ==
    /\ pending = {}
    /\ Call("send", IF config.strategy = "None" THEN Synced ELSE "notify")
    /\ UNCHANGED <<config, epoch, trainVars, dataVars, model, buffer, mixed, updateVars, eventVars, timedOut>>

\* notify_update_weights of each policy; sync_weights waits for no update.
Notify(p) ==
    /\ pc = "notify" /\ p \in pending
    /\ done' = [done EXCEPT ![p] = FALSE] /\ signal' = [signal EXCEPT ![p] = TRUE]
    /\ pending' = pending \ {p}
    /\ UNCHANGED <<config, pc, epoch, trainVars, dataVars, model, buffer, mixed, updateVars, timedOut>>

Notified ==
    /\ pending = {} /\ Call("notify", Synced)
    /\ UNCHANGED <<config, epoch, trainVars, dataVars, model, buffer, mixed, updateVars, eventVars, timedOut>>

EvalDue == config.evalEvery > 0 /\ (epoch - 1) % config.evalEvery = 0

\* The evaluations on "train" and "test", and those of the last epoch and after it,
\* are one.
PostSync ==
    /\ Goto("post_sync", IF epoch = 0 THEN "verify"
                         ELSE IF epoch = MaxEpochs \/ EvalDue THEN "pre_evaluate" ELSE "next")
    /\ OffDevice({"param"}) /\ Disturb([p \in EvalPolicies |-> config.offload /\ held[p] = Alias])
    /\ UNCHANGED <<config, epoch, pending, version, saved, dataVars, model, buffer, updateVars, eventVars, timedOut>>

\* verify_eval_weight_consistency waits for each policy's update, with a timeout, then
\* logs mismatches.
Wait(p) ==
    /\ pc = "verify" /\ p \in pending
    /\ timedOut' = (timedOut \/ (config.strategy = "buffer" /\ ~done[p]))
    /\ pending' = pending \ {p}
    /\ UNCHANGED <<config, pc, epoch, trainVars, dataVars, model, buffer, mixed, updateVars, eventVars>>

Verified ==
    /\ pending = {} /\ Goto("verify", "next")
    /\ UNCHANGED <<config, epoch, pending, trainVars, dataVars, model, buffer, mixed, updateVars, eventVars, timedOut>>

NextEpoch ==
    /\ pc = "next" /\ epoch < MaxEpochs /\ pc' = "pre_rollout"
    /\ epoch' = epoch + 1
    /\ UNCHANGED <<config, pending, trainVars, dataVars, model, buffer, mixed, updateVars, eventVars, timedOut>>

-----------------------------------------------------------------------------
\* The update thread of a policy.

\* get_state_dict asserts that the buffer is ready; the exception is logged.
BeginUpdate(p) ==
    /\ thread[p] = "await" /\ signal[p]
    /\ thread' = [thread EXCEPT ![p] = IF buffer[p] = Cleared THEN "finish" ELSE "loading"]
    /\ held' = [held EXCEPT ![p] = buffer[p]]
    /\ mixed' = [mixed EXCEPT ![p] = FALSE]
    /\ UNCHANGED <<config, pc, epoch, pending, trainVars, dataVars, model, buffer, eventVars, timedOut>>

EndLoad(p) ==
    LET content == IF held[p] = Alias THEN Parameters ELSE held[p]
    IN  /\ thread[p] = "loading"
        /\ thread' = [thread EXCEPT ![p] = "finish"]
        /\ \E w \in {content} \cup (IF mixed[p] THEN {Garbage} ELSE {}) :
               model' = [model EXCEPT ![p] = w]
        /\ UNCHANGED <<config, pc, epoch, pending, trainVars, dataVars, buffer, mixed, held, eventVars, timedOut>>

\* A notification that came during the load is erased with the one it answers.
FinishUpdate(p) ==
    /\ thread[p] = "finish"
    /\ thread' = [thread EXCEPT ![p] = "await"]
    /\ signal' = [signal EXCEPT ![p] = FALSE] /\ done' = [done EXCEPT ![p] = TRUE]
    /\ UNCHANGED <<config, pc, epoch, pending, trainVars, dataVars, model, buffer, mixed, held, timedOut>>

-----------------------------------------------------------------------------
AfterPostEvaluate == IF epoch = MaxEpochs THEN "save_last" ELSE "next"

Next ==
    \/ WarmRollout \/ OffloadEval("warm_offload", "update_dataset")
    \/ ReloadEval("pre_rollout", "rollout") \/ Rollout \/ OffloadEval("post_rollout", "update_dataset")
    \/ UpdateDataset \/ PreTrain \/ BeginTrain \/ EndTrain \/ ResetTrainingState
    \/ Save \/ PreSync \/ Sent \/ Notified \/ PostSync \/ Verified \/ NextEpoch
    \/ ReloadEval("pre_evaluate", "evaluate") \/ Evaluate
    \/ OffloadEval("post_evaluate", AfterPostEvaluate)
    \/ \E p \in EvalPolicies :
           \/ SendIpc(p) \/ ClearBuffer(p) \/ FillBuffer(p) \/ Notify(p) \/ Wait(p)
           \/ BeginUpdate(p) \/ EndLoad(p) \/ FinishUpdate(p)

Spec == Init /\ [][Next]_vars

-----------------------------------------------------------------------------
\* Properties

Content == {Garbage} \cup 0..(MaxEpochs + 3)
Statements ==
    {"warm_rollout", "warm_offload", "rollout", "post_rollout", "evaluate", "post_evaluate",
     "update_dataset", "pre_train", "train", "training", "reset", "checkpoint", "pre_sync",
     "send", "notify", "post_sync", "verify", "next", "pre_rollout", "pre_evaluate",
     "save_last", "done"}

\* The types of the variables, and that the run is over after max_epochs: its last
\* checkpoint holds the parameters of the last training step.
TypeOK ==
    /\ config \in Configs /\ pc \in Statements
    /\ epoch \in 0..MaxEpochs /\ version \in 1..(MaxEpochs + 3)
    /\ pending \subseteq EvalPolicies
    /\ resident \subseteq {"param", "optimizer", "eval", "env"}
    /\ rows \subseteq 0..MaxEpochs /\ dataset \subseteq 0..MaxEpochs
    /\ saved \in 0..version /\ (pc = "done" => saved = version)
    /\ model \in [EvalPolicies -> Content]
    /\ buffer \in [EvalPolicies -> Content \cup {Cleared, Alias}]
    /\ held \in [EvalPolicies -> Content \cup {Cleared, Alias}]
    /\ mixed \in [EvalPolicies -> BOOLEAN]
    /\ thread \in [EvalPolicies -> {"await", "loading", "finish"}]
    /\ signal \in [EvalPolicies -> BOOLEAN] /\ done \in [EvalPolicies -> BOOLEAN]
    /\ timedOut \in BOOLEAN

\* The parameters that training starts from.
First == IF config.warm THEN 3 ELSE 1

\* With offloading and without a warm-up, the first sync sends parameters that __init__
\* has offloaded before ("may have bug when params is offload to cpu").
SentOffloaded == config.offload /\ ~config.warm /\ epoch = 1 /\ pc = "rollout"

\* An update may read tensors that training changes or the offload frees, may load into
\* a model that is moved, or may not have been waited for.
Unprotected == ~config.copies \/ config.offload \/ timedOut

\* Rollouts and evaluations use the weights of one training step, all of them.  With
\* strategy "None" these are the newest, so an evaluation measures what was trained.
\* With a buffer they may be older, since nothing waits for the update, but are never the
\* random ones that a policy, or a train policy before the warm-up, was built with.
RolloutsUseWhole ==
    pc \in {"rollout", "evaluate"} =>
        \A p \in EvalPolicies :
            IF config.strategy = "None" THEN model[p] = version \/ SentOffloaded
            ELSE model[p] \in First..version \/ Unprotected

\* With offloading, whatever the engine uses is on its device, through warm-up, epochs,
\* evaluations and checkpoints (the hooks of base_engine.py come in pairs that do not
\* nest: parameters return before training and leave after the sync).
UsedIsResident ==
    /\ pc \in {"warm_rollout", "rollout", "evaluate"} => {"eval", "env"} \subseteq resident
    /\ pc = "training" => {"param", "optimizer"} \subseteq resident
    /\ pc = "send" /\ Hooked => "param" \in resident
    /\ config.offload /\ pc \in {"rollout", "evaluate"} => resident = {"eval", "env"}

\* A training step learns from the rollout of its own epoch, with a ReplayBuffer also
\* from earlier ones, and never from the warm-up, which ran on other parameters.
TrainsOnOwnRollouts ==
    pc = "training" /\ epoch > 0 =>
        dataset = IF config.replay THEN 1..epoch ELSE {epoch}

\* The on-policy promise of an epoch: what is rolled out with is the outcome of a training
\* step, and what is trained on is the outcome of that epoch's rollout.
EpochUsesItsOwn == RolloutsUseWhole /\ TrainsOnOwnRollouts
=============================================================================
