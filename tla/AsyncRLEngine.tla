--------------------------- MODULE AsyncRLEngine ---------------------------
(***************************************************************************)
(* The asynchronous training engine (engine/async_rl_engine.py with the    *)
(* hooks of engine/base_engine.py): the main thread that runs run(), and   *)
(* the four worker threads it starts.  pc[t] is the statement thread t is  *)
(* about to execute; a statement that touches an event, the buffer or the  *)
(* train policy is a step of its own, so that every interleaving of the    *)
(* threads is a behaviour.                                                 *)
(*                                                                         *)
(* The initial state is the one the constructor leaves: the buffer empty,  *)
(* the train model on its device and version 0 of its weights pushed.      *)
(***************************************************************************)
EXTENDS Integers, AsyncCoordinator

CONSTANTS
    MaxEpochs,      \* config.train.max_epochs
    BatchSize,      \* config.train.batch_size
    Capacity,       \* rows the buffer holds
    Growth,         \* numbers of rows one rollout iteration can add
    ClearOnSample,  \* TRUE: RolloutBuffer, FALSE: ReplayBuffer
    SaveInterval,   \* config.train.save_interval
    EnableOffload,  \* config.cluster.enable_offload
    Fallible        \* the workers whose library calls may raise

Worker == {"rollout", "update", "train", "sync"}

Thread == Worker \cup {"main"}

ASSUME EngineAssumption ==
    /\ MaxEpochs \in Nat
    /\ BatchSize \in Nat
    /\ Capacity \in Nat
    /\ Growth \subseteq Nat
    /\ ClearOnSample \in BOOLEAN
    /\ SaveInterval \in Nat
    /\ EnableOffload \in BOOLEAN
    /\ Fallible \subseteq Worker

VARIABLES
    pc,         \* the statement each thread is about to execute
    rows,       \* buffer.size()
    trained,    \* training steps completed, the version of the train weights
    datasets,   \* data sets handed to the train policy
    pushed,     \* version of the weights last sent to the eval policies
    resident,   \* what is on its device: "param", "optimizer", "eval"
    failed      \* workers that ended with an exception

state == <<rows, trained, datasets, pushed, resident>>
vars == <<signalled, pc, state, failed>>

Goto(t, from, to) == pc[t] = from /\ pc' = [pc EXCEPT ![t] = to]

\* "while self.coordinator.is_running()" and "if not ... : break".
Test(t, at, running, stopped) ==
    /\ Goto(t, at, IF IsRunning THEN running ELSE stopped)
    /\ UNCHANGED <<signalled, state, failed>>

\* Mutant: a wait_for_*() that forgets to clear its event.
WaitForNoClear(t, e, at, clear, next) ==
    \/ Goto(t, at, clear) /\ Wait(e) /\ UNCHANGED <<state, failed>>
    \/ Goto(t, clear, next) /\ UNCHANGED <<signalled, state, failed>>

\* The two statements of wait_for_*(): wait, then clear.
WaitFor(t, e, at, clear, next) ==
    \/ Goto(t, at, clear) /\ Wait(e) /\ UNCHANGED <<state, failed>>
    \/ Goto(t, clear, next) /\ Clear(e) /\ UNCHANGED <<state, failed>>

Notify(t, e, at, next) == Goto(t, at, next) /\ Set(e) /\ UNCHANGED <<state, failed>>

\* The hooks of base_engine.py move parts of the models only with offloading on.
Reload(t, at, parts, next) ==
    /\ Goto(t, at, next)
    /\ resident' = IF EnableOffload THEN resident \cup parts ELSE resident
    /\ UNCHANGED <<signalled, rows, trained, datasets, pushed, failed>>

Offload(t, at, parts, next) ==
    /\ Goto(t, at, next)
    /\ resident' = IF EnableOffload THEN resident \ parts ELSE resident
    /\ UNCHANGED <<signalled, rows, trained, datasets, pushed, failed>>

-----------------------------------------------------------------------------
(***************************************************************************)
(* run(): start the workers in order, join them, save epoch_last.          *)
(***************************************************************************)
Earlier == [rollout |-> {}, update |-> {"rollout"},
            train |-> {"rollout", "update"},
            sync |-> {"rollout", "update", "train"}]

Entry == [rollout |-> "pre", update |-> "check", train |-> "start1",
          sync |-> "check"]

StartWorker(t) ==
    /\ pc["main"] = "start"
    /\ pc[t] = "new"
    /\ \A u \in Earlier[t] : pc[u] # "new"
    /\ pc' = [pc EXCEPT ![t] = Entry[t],
                        !["main"] = IF t = "sync" THEN "join" ELSE "start"]
    /\ UNCHANGED <<signalled, state, failed>>

\* Thread.join() returns whether the worker ended normally or by an exception.
Join ==
    /\ \A t \in Worker : pc[t] = "ended"
    /\ Goto("main", "join", "save")
    /\ UNCHANGED <<signalled, state, failed>>

\* save_checkpoint reloads an offloaded model and offloads it again.
SaveLast ==
    /\ Goto("main", "save", "ended")
    /\ UNCHANGED <<signalled, state, failed>>

Main == Join \/ SaveLast \/ \E t \in Worker : StartWorker(t)

-----------------------------------------------------------------------------
(***************************************************************************)
(* _rollout(): the hooks around rollout(), whose loop adds rows.           *)
(***************************************************************************)
\* Mutant: a buffer that outgrows its capacity.
RolloutStepUnbounded(n) ==
    /\ Goto("rollout", "collect", "check")
    /\ rows' = rows + n
    /\ UNCHANGED <<signalled, trained, datasets, pushed, resident, failed>>

RolloutStep(n) ==
    /\ Goto("rollout", "collect", "check")
    /\ rows' = IF rows + n > Capacity THEN Capacity ELSE rows + n
    /\ UNCHANGED <<signalled, trained, datasets, pushed, resident, failed>>

Rollout ==
    \/ Reload("rollout", "pre", {"eval"}, "check")
    \/ Test("rollout", "check", "collect", "post")
    \/ \E n \in Growth : RolloutStep(n)
    \/ Offload("rollout", "post", {"eval"}, "ended")

-----------------------------------------------------------------------------
(***************************************************************************)
(* _update_dataset_loop() and the _pre_update_dataset_hook it goes through.*)
(***************************************************************************)
Enough == rows >= BatchSize

\* buffer.size() before the polling loop, and inside it.
MeasureBuffer(at) ==
    /\ Goto("update", at, IF Enough THEN "sample" ELSE "poll")
    /\ UNCHANGED <<signalled, state, failed>>

\* buffer.sample() raises a ValueError when it holds less than a batch.
Sample ==
    /\ Enough
    /\ Goto("update", "sample", IF ClearOnSample THEN "discard" ELSE "load")
    /\ UNCHANGED <<signalled, state, failed>>

\* RolloutBuffer.sample ends with self.clear().
ClearBuffer ==
    /\ Goto("update", "discard", "load")
    /\ rows' = 0
    /\ UNCHANGED <<signalled, trained, datasets, pushed, resident, failed>>

SampleFails ==
    /\ ~Enough
    /\ Goto("update", "sample", "ended")
    /\ failed' = failed \cup {"update"}
    /\ UNCHANGED <<signalled, state>>

LoadDataset ==
    /\ Goto("update", "load", "notify")
    /\ datasets' = datasets + 1
    /\ UNCHANGED <<signalled, rows, trained, pushed, resident, failed>>

Update ==
    \/ Test("update", "check", "wait", "ended")
    \/ WaitFor("update", "ready_for_update_dataset", "wait", "clear", "gate")
    \/ Test("update", "gate", "measure", "ended")
    \/ MeasureBuffer("measure")
    \/ Test("update", "poll", "remeasure", "sample")
    \/ MeasureBuffer("remeasure")
    \/ Sample
    \/ SampleFails
    \/ ClearBuffer
    \/ LoadDataset
    \/ Notify("update", "dataset_ready", "notify", "check")

-----------------------------------------------------------------------------
(***************************************************************************)
(* _train_loop(): the coordinator's start() statement by statement, the    *)
(* epochs, and stop() in the "finally" clause.                             *)
(***************************************************************************)
Statement(at, next, op) == Goto("train", at, next) /\ op /\ UNCHANGED <<state, failed>>

CoordinatorStart ==
    \/ Statement("start1", "start2", Clear("done"))
    \/ Statement("start2", "start3", Set("ready_for_update_dataset"))
    \/ Statement("start3", "start4", Clear("ready_for_sync_weights"))
    \/ Statement("start4", "start5", Set("weights_updated"))
    \/ Statement("start5", "next", Clear("dataset_ready"))

\* Mutant: stop() leaves the sync thread waiting.
CoordinatorStopNoSync ==
    \/ Statement("stop1", "stop2", Set("done"))
    \/ Statement("stop2", "stop4", Set("ready_for_update_dataset"))
    \/ Statement("stop4", "stop5", Set("weights_updated"))
    \/ Statement("stop5", "ended", Set("dataset_ready"))

CoordinatorStop ==
    \/ Statement("stop1", "stop2", Set("done"))
    \/ Statement("stop2", "stop3", Set("ready_for_update_dataset"))
    \/ Statement("stop3", "stop4", Set("ready_for_sync_weights"))
    \/ Statement("stop4", "stop5", Set("weights_updated"))
    \/ Statement("stop5", "ended", Set("dataset_ready"))

\* self.epoch takes the values 0, 1, ...: it is "trained" throughout.
NextEpoch ==
    /\ Goto("train", "next", IF trained < MaxEpochs THEN "wait_data" ELSE "stop1")
    /\ UNCHANGED <<signalled, state, failed>>

SaveDue(epoch) == SaveInterval > 0 /\ epoch % SaveInterval = 0

Train ==
    /\ Goto("train", "train", IF SaveDue(trained) THEN "save" ELSE "notify1")
    /\ trained' = trained + 1
    /\ UNCHANGED <<signalled, rows, datasets, pushed, resident, failed>>

SaveCheckpoint ==
    /\ Goto("train", "save", "notify1")
    /\ UNCHANGED <<signalled, state, failed>>

\* Mutant: the loop does not wait for the weights to be pushed.
WaitForWeightsSkipped ==
    Goto("train", "wait_weights", "reload") /\ UNCHANGED <<signalled, state, failed>>

WaitForWeights ==
    WaitFor("train", "weights_updated", "wait_weights", "clear_weights", "reload")

NotifyTrainStepDone ==
    \/ Notify("train", "ready_for_update_dataset", "notify1", "notify2")
    \/ Notify("train", "ready_for_sync_weights", "notify2", "next")

TrainLoop ==
    \/ CoordinatorStart
    \/ NextEpoch
    \/ WaitFor("train", "dataset_ready", "wait_data", "clear_data", "wait_weights")
    \/ WaitForWeights
    \/ Reload("train", "reload", {"param", "optimizer"}, "train")
    \/ Train
    \/ SaveCheckpoint
    \/ NotifyTrainStepDone
    \/ CoordinatorStop

-----------------------------------------------------------------------------
(***************************************************************************)
(* _sync_weights_loop(): the hooks around policy_group.sync_weights().     *)
(***************************************************************************)
SendWeights ==
    /\ Goto("sync", "send", "offload_param")
    /\ pushed' = trained
    /\ UNCHANGED <<signalled, rows, trained, datasets, resident, failed>>

\* Mutant: the train thread is woken before the weights are offloaded.
SyncAndNotifyEarly ==
    \/ Offload("sync", "offload_optimizer", {"optimizer"}, "send")
    \/ SendWeights
    \/ Notify("sync", "weights_updated", "offload_param", "notify")
    \/ Offload("sync", "notify", {"param"}, "check")

SyncAndNotify ==
    \/ Offload("sync", "offload_optimizer", {"optimizer"}, "send")
    \/ SendWeights
    \/ Offload("sync", "offload_param", {"param"}, "notify")
    \/ Notify("sync", "weights_updated", "notify", "check")

SyncWeightsLoop ==
    \/ Test("sync", "check", "wait", "ended")
    \/ WaitFor("sync", "ready_for_sync_weights", "wait", "clear", "gate")
    \/ Test("sync", "gate", "offload_optimizer", "ended")
    \/ SyncAndNotify

-----------------------------------------------------------------------------
\* Statements that call into the environments, the buffer or the policies.
LibraryCall == [rollout |-> {"pre", "collect", "post"}, update |-> {"load"},
                train |-> {"reload", "train", "save"},
                sync |-> {"offload_optimizer", "send", "offload_param"}]

\* An exception ends the worker; only the train thread has a "finally".
Raise(t) ==
    /\ t \in Fallible
    /\ pc[t] \in LibraryCall[t]
    /\ pc' = [pc EXCEPT ![t] = IF t = "train" THEN "stop1" ELSE "ended"]
    /\ failed' = failed \cup {t}
    /\ UNCHANGED <<signalled, state>>

Init ==
    /\ CoordinatorInit
    /\ pc = [t \in Thread |-> IF t = "main" THEN "start" ELSE "new"]
    /\ rows = 0
    /\ trained = 0
    /\ datasets = 0
    /\ pushed = 0
    /\ resident = {"param", "optimizer", "eval"}
    /\ failed = {}

\* The run is over; every thread has ended.
Finished == pc["main"] = "ended" /\ UNCHANGED vars

Next ==
    \/ Main
    \/ Rollout
    \/ Update
    \/ TrainLoop
    \/ SyncWeightsLoop
    \/ \E t \in Worker : Raise(t)
    \/ Finished

Spec == Init /\ [][Next]_vars

(***************************************************************************)
(* The interpreter runs every thread that is not blocked; the environments *)
(* finish episodes, so iterations that add rows keep coming.               *)
(***************************************************************************)
Fairness ==
    /\ WF_vars(Main)
    /\ WF_vars(Rollout)
    /\ WF_vars(Update)
    /\ WF_vars(TrainLoop)
    /\ WF_vars(SyncWeightsLoop)
    /\ SF_vars(\E n \in Growth \ {0} : RolloutStep(n))

FairSpec == Spec /\ Fairness

-----------------------------------------------------------------------------
MainLabel == {"start", "join", "save", "ended"}

RolloutLabel == {"new", "pre", "check", "collect", "post", "ended"}

UpdateLabel == {"new", "check", "wait", "clear", "gate", "measure", "poll", "remeasure",
                "sample", "discard", "load", "notify", "ended"}

TrainLabel == {"new", "start1", "start2", "start3", "start4", "start5", "next",
               "wait_data", "clear_data", "wait_weights", "clear_weights", "reload",
               "train", "save", "notify1", "notify2",
               "stop1", "stop2", "stop3", "stop4", "stop5", "ended"}

SyncLabel == {"new", "check", "wait", "clear", "gate", "offload_optimizer", "send",
              "offload_param", "notify", "ended"}

Label == MainLabel \cup RolloutLabel \cup UpdateLabel \cup TrainLabel \cup SyncLabel

\* Every variable stays in its range; the buffer never exceeds its capacity.
TypeOK ==
    /\ signalled \subseteq Event
    /\ pc \in [Thread -> Label]
    /\ pc["main"] \in MainLabel
    /\ pc["rollout"] \in RolloutLabel
    /\ pc["update"] \in UpdateLabel
    /\ pc["train"] \in TrainLabel
    /\ pc["sync"] \in SyncLabel
    /\ rows \in 0..Capacity
    /\ trained \in 0..MaxEpochs
    /\ datasets \in Nat
    /\ pushed \in Nat
    /\ resident \subseteq {"param", "optimizer", "eval"}
    /\ failed \subseteq Worker

(***************************************************************************)
(* While a training step or its checkpoint is under way, no thread loads a *)
(* data set into the train policy and none offloads or sends its weights,  *)
(* although nothing but the four events keeps the threads apart.           *)
(***************************************************************************)
Exclusive ==
    pc["train"] \in {"train", "save"} =>
        /\ pc["update"] # "load"
        /\ pc["sync"] \notin {"offload_optimizer", "send", "offload_param"}

(***************************************************************************)
(* With offloading on, what a thread uses is on its device while it uses   *)
(* it: parameters and optimizer for a training step, parameters for a      *)
(* send, the eval model for a rollout.                                     *)
(***************************************************************************)
ResidentWhileUsed ==
    /\ pc["train"] = "train" => {"param", "optimizer"} \subseteq resident
    /\ pc["sync"] = "send" => "param" \in resident
    /\ pc["rollout"] = "collect" => "eval" \in resident

(***************************************************************************)
(* The threads implement the training pipeline: every step consumes a data *)
(* set of its own and starts with its predecessor's weights pushed.        *)
(***************************************************************************)
Pipeline == INSTANCE TrainingPipeline
    WITH training <- IF pc["train"] = "train" THEN "running" ELSE "idle"

ImplementsPipeline == Pipeline!PipelineSpec

(***************************************************************************)
(* start() runs in the train thread while the update thread is already     *)
(* waiting: the data set made between its second and its last statement is *)
(* announced on an event start() then clears, and nobody announces it      *)
(* again.                                                                  *)
(***************************************************************************)
DatasetLost ==
    /\ trained = 0
    /\ pc["train"] = "wait_data" /\ "dataset_ready" \notin signalled
    /\ pc["update"] = "wait" /\ "ready_for_update_dataset" \notin signalled

\* Unless that first announcement is lost or a worker raises, all epochs are
\* trained and the run ends: no other interleaving of waits, clears and
\* notifications hangs.
EndsUnlessDatasetLost ==
    \/ <>(pc["main"] = "ended" /\ trained = MaxEpochs)
    \/ <>[]DatasetLost
    \/ <>(failed # {})

\* Once the train thread leaves its loop, by the last epoch or by an
\* exception, no worker stays behind on an event and run() returns.
StopReachesEveryWorker == pc["train"] = "stop1" ~> pc["main"] = "ended"

\* The run ends, with all epochs trained or with everyone told to stop.
RunEnds == EndsUnlessDatasetLost /\ StopReachesEveryWorker

-----------------------------------------------------------------------------
(***************************************************************************)
(* What comments say, and the code does not do.                            *)
(***************************************************************************)
\* train(): "Runs the training loop for the configured number of epochs".
RunsEveryEpoch == <>(trained = MaxEpochs)

\* run() has a handler for an "Exception in worker threads": the run does
\* not go on, nor end as if nothing had happened, once a worker has raised.
WorkerExceptionReachesRun == failed # {} => pc["main"] # "save"
=============================================================================
