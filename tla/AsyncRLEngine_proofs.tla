----------------------- MODULE AsyncRLEngine_proofs -----------------------
(***************************************************************************)
(* Proofs about AsyncRLEngine, for every number of epochs, batch size,     *)
(* capacity and set of workers that may fail.                              *)
(*                                                                         *)
(* The argument follows two tokens.  The data token is at the event        *)
(* ready_for_update_dataset, with the update thread, at dataset_ready, or  *)
(* with the train thread; the weights token is at ready_for_sync_weights,  *)
(* with the sync thread, at weights_updated, or with the train thread.     *)
(* While the engine runs each is in one place at most, and its place tells *)
(* how far "datasets" and "pushed" are from "trained".  stop() sets every  *)
(* event and so multiplies the tokens, but only after "done", which the    *)
(* threads test between taking a token and acting on it.                   *)
(***************************************************************************)
EXTENDS AsyncRLEngine, TLAPS

Up(e) == e \in signalled

HoldsData == {"wait_weights", "clear_weights", "reload", "train", "save", "notify1"}

HoldsWeights == {"reload", "train", "save", "notify1", "notify2"}

UpdateBusy == {"measure", "poll", "remeasure", "sample", "discard", "load"}

SyncBusy == {"offload_optimizer", "send", "offload_param", "notify"}

Quiet == {"new", "check", "wait", "ended"}

BeforeUpdate == {"new", "start1", "start2"}

BeforeSync == BeforeUpdate \cup {"start3", "start4"}

\* "done" is set by the first statement of stop() and never cleared again.
DoneInv ==
    Up("done") <=> pc["train"] \in {"stop2", "stop3", "stop4", "stop5", "ended"}

EpochInv ==
    pc["train"] \in {"wait_data", "clear_data", "wait_weights", "clear_weights",
                     "reload", "train"} => trained < MaxEpochs

\* The data token.
DataInv ==
    /\ pc["train"] \in BeforeUpdate =>
           /\ pc["update"] \in Quiet
           /\ ~Up("ready_for_update_dataset") /\ ~Up("dataset_ready")
           /\ datasets = trained
    /\ pc["train"] \in HoldsData =>
           /\ pc["update"] \in Quiet
           /\ ~Up("ready_for_update_dataset") /\ ~Up("dataset_ready")
           /\ datasets = (IF pc["train"] \in {"save", "notify1"}
                          THEN trained ELSE trained + 1)
    /\ Up("ready_for_update_dataset") /\ IsRunning =>
           /\ pc["update"] \in Quiet \cup {"clear"}
           /\ ~Up("dataset_ready")
           /\ datasets = trained
    /\ pc["update"] = "clear" => Up("ready_for_update_dataset")
    /\ pc["update"] = "gate" /\ IsRunning =>
           /\ ~Up("ready_for_update_dataset") /\ ~Up("dataset_ready")
           /\ datasets = trained
    /\ pc["update"] \in UpdateBusy => datasets = trained
    /\ pc["update"] = "notify" => datasets = trained + 1
    /\ pc["update"] \in UpdateBusy \cup {"notify"} /\ IsRunning =>
           ~Up("ready_for_update_dataset") /\ ~Up("dataset_ready")
    /\ Up("dataset_ready") /\ IsRunning => datasets = trained + 1
    /\ pc["train"] = "clear_data" => Up("dataset_ready")

\* The weights token.
WeightsInv ==
    /\ pc["train"] \in BeforeSync \cup {"start5"} =>
           pc["sync"] \in Quiet /\ pushed = trained
    /\ pc["train"] \in BeforeSync => ~Up("weights_updated")
    /\ pc["train"] \in BeforeSync \cup {"start5"} => ~Up("ready_for_sync_weights")
    /\ pc["train"] \in HoldsWeights =>
           /\ pc["sync"] \in Quiet
           /\ ~Up("ready_for_sync_weights") /\ ~Up("weights_updated")
           /\ pushed = (IF pc["train"] \in {"reload", "train"}
                        THEN trained ELSE trained - 1)
    /\ Up("ready_for_sync_weights") /\ IsRunning =>
           /\ pc["sync"] \in Quiet \cup {"clear"}
           /\ ~Up("weights_updated")
           /\ pushed = trained - 1
    /\ pc["sync"] = "clear" => Up("ready_for_sync_weights")
    /\ pc["sync"] = "gate" /\ IsRunning =>
           /\ ~Up("ready_for_sync_weights") /\ ~Up("weights_updated")
           /\ pushed = trained - 1
    /\ pc["sync"] \in {"offload_optimizer", "send"} => pushed = trained - 1
    /\ pc["sync"] \in {"offload_param", "notify"} => pushed = trained
    /\ pc["sync"] \in SyncBusy /\ IsRunning =>
           ~Up("ready_for_sync_weights") /\ ~Up("weights_updated")
    /\ Up("weights_updated") /\ IsRunning => pushed = trained
    /\ pc["train"] = "clear_weights" => Up("weights_updated")

\* Where the parts of the models are.
ResidentInv ==
    /\ ~EnableOffload => resident = {"param", "optimizer", "eval"}
    /\ pc["rollout"] # "ended" => "eval" \in resident
    /\ pc["train"] = "train" => "optimizer" \in resident
    /\ pc["train"] \in HoldsWeights \ {"reload"} => "param" \in resident
    /\ Up("ready_for_sync_weights") /\ IsRunning => "param" \in resident
    /\ pc["sync"] = "gate" /\ IsRunning => "param" \in resident
    /\ pc["sync"] \in {"offload_optimizer", "send"} => "param" \in resident

IInv ==
    /\ TypeOK
    /\ DoneInv
    /\ EpochInv
    /\ DataInv
    /\ WeightsInv
    /\ ResidentInv

-----------------------------------------------------------------------------
LEMMA InitHolds == Init => IInv
  BY EngineAssumption
  DEF Init, CoordinatorInit, IInv, TypeOK, Label, MainLabel, RolloutLabel,
      UpdateLabel, TrainLabel, SyncLabel, Thread, Worker, Event, DoneInv,
      EpochInv, DataInv, WeightsInv, ResidentInv, Up, IsRunning, HoldsData,
      HoldsWeights, UpdateBusy, SyncBusy, Quiet, BeforeUpdate, BeforeSync

LEMMA Moves ==
    ASSUME pc \in [Thread -> Label], NEW t \in Thread, NEW from, NEW to \in Label,
           Goto(t, from, to)
    PROVE  /\ pc[t] = from /\ pc'[t] = to
           /\ pc' \in [Thread -> Label]
           /\ \A u \in Thread : u # t => pc'[u] = pc[u]
  BY DEF Goto

LEMMA MainMoves ==
    ASSUME IInv, NEW from, NEW to \in MainLabel, Goto("main", from, to)
    PROVE  /\ pc["main"] = from /\ pc'["main"] = to
           /\ pc' \in [Thread -> Label]
           /\ pc'["rollout"] = pc["rollout"]
           /\ pc'["update"] = pc["update"]
           /\ pc'["train"] = pc["train"]
           /\ pc'["sync"] = pc["sync"]
  BY Moves DEF IInv, TypeOK, Label, Thread, Worker

LEMMA RolloutMoves ==
    ASSUME IInv, NEW from, NEW to \in RolloutLabel, Goto("rollout", from, to)
    PROVE  /\ pc["rollout"] = from /\ pc'["rollout"] = to
           /\ pc' \in [Thread -> Label]
           /\ pc'["main"] = pc["main"]
           /\ pc'["update"] = pc["update"]
           /\ pc'["train"] = pc["train"]
           /\ pc'["sync"] = pc["sync"]
  BY Moves DEF IInv, TypeOK, Label, Thread, Worker

LEMMA UpdateMoves ==
    ASSUME IInv, NEW from, NEW to \in UpdateLabel, Goto("update", from, to)
    PROVE  /\ pc["update"] = from /\ pc'["update"] = to
           /\ pc' \in [Thread -> Label]
           /\ pc'["main"] = pc["main"]
           /\ pc'["rollout"] = pc["rollout"]
           /\ pc'["train"] = pc["train"]
           /\ pc'["sync"] = pc["sync"]
  BY Moves DEF IInv, TypeOK, Label, Thread, Worker

LEMMA TrainMoves ==
    ASSUME IInv, NEW from, NEW to \in TrainLabel, Goto("train", from, to)
    PROVE  /\ pc["train"] = from /\ pc'["train"] = to
           /\ pc' \in [Thread -> Label]
           /\ pc'["main"] = pc["main"]
           /\ pc'["rollout"] = pc["rollout"]
           /\ pc'["update"] = pc["update"]
           /\ pc'["sync"] = pc["sync"]
  BY Moves DEF IInv, TypeOK, Label, Thread, Worker

LEMMA SyncMoves ==
    ASSUME IInv, NEW from, NEW to \in SyncLabel, Goto("sync", from, to)
    PROVE  /\ pc["sync"] = from /\ pc'["sync"] = to
           /\ pc' \in [Thread -> Label]
           /\ pc'["main"] = pc["main"]
           /\ pc'["rollout"] = pc["rollout"]
           /\ pc'["update"] = pc["update"]
           /\ pc'["train"] = pc["train"]
  BY Moves DEF IInv, TypeOK, Label, Thread, Worker

USE EngineAssumption
DEF Thread, Worker, Event, Up, IsRunning, HoldsData, HoldsWeights, UpdateBusy,
    SyncBusy, Quiet, BeforeUpdate, BeforeSync, state, vars

\* A step of the main thread.
LEMMA MainPreserves == IInv /\ Main => IInv'
<1> SUFFICES ASSUME IInv, Main PROVE IInv'
  OBVIOUS
<1>1. CASE Join
  BY <1>1, MainMoves
  DEF IInv, TypeOK, DoneInv, EpochInv, DataInv, WeightsInv, ResidentInv,
      MainLabel, Join
<1>2. CASE SaveLast
  BY <1>2, MainMoves
  DEF IInv, TypeOK, DoneInv, EpochInv, DataInv, WeightsInv, ResidentInv,
      MainLabel, SaveLast
<1>3. ASSUME NEW t \in Worker, StartWorker(t) PROVE IInv'
  BY <1>3, MainMoves
  DEF IInv, TypeOK, DoneInv, EpochInv, DataInv, WeightsInv, ResidentInv,
      MainLabel, Label, RolloutLabel, UpdateLabel, TrainLabel, SyncLabel,
      StartWorker, Earlier, Entry
<1>4. QED
  BY <1>1, <1>2, <1>3 DEF Main

\* A step of the rollout thread.
LEMMA RolloutPreserves == IInv /\ Rollout => IInv'
<1> SUFFICES ASSUME IInv, Rollout PROVE IInv'
  OBVIOUS
<1>1. CASE Reload("rollout", "pre", {"eval"}, "check")
  BY <1>1, RolloutMoves
  DEF IInv, TypeOK, DoneInv, EpochInv, DataInv, WeightsInv, ResidentInv,
      RolloutLabel, Reload
<1>2. CASE Test("rollout", "check", "collect", "post")
  BY <1>2, RolloutMoves
  DEF IInv, TypeOK, DoneInv, EpochInv, DataInv, WeightsInv, ResidentInv,
      RolloutLabel, Test
<1>3. ASSUME NEW n \in Growth, RolloutStep(n) PROVE IInv'
  BY <1>3, RolloutMoves
  DEF IInv, TypeOK, DoneInv, EpochInv, DataInv, WeightsInv, ResidentInv,
      RolloutLabel, RolloutStep
<1>4. CASE Offload("rollout", "post", {"eval"}, "ended")
  BY <1>4, RolloutMoves
  DEF IInv, TypeOK, DoneInv, EpochInv, DataInv, WeightsInv, ResidentInv,
      RolloutLabel, Offload
<1>5. QED
  BY <1>1, <1>2, <1>3, <1>4 DEF Rollout

\* A step of the update thread.
LEMMA UpdatePreserves == IInv /\ Update => IInv'
<1> SUFFICES ASSUME IInv, Update PROVE IInv'
  OBVIOUS
<1>1. CASE Test("update", "check", "wait", "ended")
  BY <1>1, UpdateMoves
  DEF IInv, TypeOK, DoneInv, EpochInv, DataInv, WeightsInv, ResidentInv,
      UpdateLabel, Test
<1>2. CASE /\ Goto("update", "wait", "clear")
          /\ Wait("ready_for_update_dataset")
          /\ UNCHANGED <<state, failed>>
  BY <1>2, UpdateMoves
  DEF IInv, TypeOK, DoneInv, EpochInv, DataInv, WeightsInv, ResidentInv,
      UpdateLabel, Wait
<1>3. CASE /\ Goto("update", "clear", "gate")
          /\ Clear("ready_for_update_dataset")
          /\ UNCHANGED <<state, failed>>
  BY <1>3, UpdateMoves
  DEF IInv, TypeOK, DoneInv, EpochInv, DataInv, WeightsInv, ResidentInv,
      UpdateLabel, Clear
<1>4. CASE Test("update", "gate", "measure", "ended")
  BY <1>4, UpdateMoves
  DEF IInv, TypeOK, DoneInv, EpochInv, DataInv, WeightsInv, ResidentInv,
      UpdateLabel, Test
<1>5. CASE MeasureBuffer("measure") \/ MeasureBuffer("remeasure")
  <2>1. TypeOK' /\ DoneInv' /\ EpochInv'
    BY <1>5, UpdateMoves
    DEF IInv, TypeOK, DoneInv, EpochInv, UpdateLabel, MeasureBuffer
  <2>2. DataInv'
    BY <1>5, UpdateMoves
    DEF IInv, TypeOK, DoneInv, DataInv, UpdateLabel, MeasureBuffer
  <2>3. WeightsInv'
    BY <1>5, UpdateMoves
    DEF IInv, TypeOK, DoneInv, WeightsInv, UpdateLabel, MeasureBuffer
  <2>4. ResidentInv'
    BY <1>5, UpdateMoves
    DEF IInv, TypeOK, DoneInv, WeightsInv, ResidentInv, UpdateLabel, MeasureBuffer
  <2>5. QED
    BY <2>1, <2>2, <2>3, <2>4 DEF IInv
<1>6. CASE Test("update", "poll", "remeasure", "sample")
  BY <1>6, UpdateMoves
  DEF IInv, TypeOK, DoneInv, EpochInv, DataInv, WeightsInv, ResidentInv,
      UpdateLabel, Test
<1>7. CASE Sample
  BY <1>7, UpdateMoves
  DEF IInv, TypeOK, DoneInv, EpochInv, DataInv, WeightsInv, ResidentInv,
      UpdateLabel, Sample
<1>8. CASE SampleFails
  BY <1>8, UpdateMoves
  DEF IInv, TypeOK, DoneInv, EpochInv, DataInv, WeightsInv, ResidentInv,
      UpdateLabel, SampleFails
<1>9. CASE ClearBuffer
  BY <1>9, UpdateMoves
  DEF IInv, TypeOK, DoneInv, EpochInv, DataInv, WeightsInv, ResidentInv,
      UpdateLabel, ClearBuffer
<1>10. CASE LoadDataset
  BY <1>10, UpdateMoves
  DEF IInv, TypeOK, DoneInv, EpochInv, DataInv, WeightsInv, ResidentInv,
      UpdateLabel, LoadDataset
<1>11. CASE Notify("update", "dataset_ready", "notify", "check")
  BY <1>11, UpdateMoves
  DEF IInv, TypeOK, DoneInv, EpochInv, DataInv, WeightsInv, ResidentInv,
      UpdateLabel, Notify, Set
<1>12. QED
  BY <1>1, <1>2, <1>3, <1>4, <1>5, <1>6, <1>7, <1>8, <1>9, <1>10, <1>11
  DEF Update, WaitFor

\* A statement of AsyncCoordinator.start().
LEMMA StartPreserves == IInv /\ CoordinatorStart => IInv'
<1> SUFFICES ASSUME IInv, CoordinatorStart PROVE IInv'
  OBVIOUS
<1>1. CASE Statement("start1", "start2", Clear("done"))
  BY <1>1, TrainMoves
  DEF IInv, TypeOK, DoneInv, EpochInv, DataInv, WeightsInv, ResidentInv,
      TrainLabel, Statement, Clear
<1>2. CASE Statement("start2", "start3", Set("ready_for_update_dataset"))
  BY <1>2, TrainMoves
  DEF IInv, TypeOK, DoneInv, EpochInv, DataInv, WeightsInv, ResidentInv,
      TrainLabel, Statement, Set
<1>3. CASE Statement("start3", "start4", Clear("ready_for_sync_weights"))
  BY <1>3, TrainMoves
  DEF IInv, TypeOK, DoneInv, EpochInv, DataInv, WeightsInv, ResidentInv,
      TrainLabel, Statement, Clear
<1>4. CASE Statement("start4", "start5", Set("weights_updated"))
  BY <1>4, TrainMoves
  DEF IInv, TypeOK, DoneInv, EpochInv, DataInv, WeightsInv, ResidentInv,
      TrainLabel, Statement, Set
<1>5. CASE Statement("start5", "next", Clear("dataset_ready"))
  BY <1>5, TrainMoves
  DEF IInv, TypeOK, DoneInv, EpochInv, DataInv, WeightsInv, ResidentInv,
      TrainLabel, Statement, Clear
<1>6. QED
  BY <1>1, <1>2, <1>3, <1>4, <1>5 DEF CoordinatorStart

\* A statement of AsyncCoordinator.stop().
LEMMA StopPreserves == IInv /\ CoordinatorStop => IInv'
<1> SUFFICES ASSUME IInv, CoordinatorStop PROVE IInv'
  OBVIOUS
<1>1. CASE Statement("stop1", "stop2", Set("done"))
  BY <1>1, TrainMoves
  DEF IInv, TypeOK, DoneInv, EpochInv, DataInv, WeightsInv, ResidentInv,
      TrainLabel, Statement, Set
<1>2. CASE Statement("stop2", "stop3", Set("ready_for_update_dataset"))
  BY <1>2, TrainMoves
  DEF IInv, TypeOK, DoneInv, EpochInv, DataInv, WeightsInv, ResidentInv,
      TrainLabel, Statement, Set
<1>3. CASE Statement("stop3", "stop4", Set("ready_for_sync_weights"))
  BY <1>3, TrainMoves
  DEF IInv, TypeOK, DoneInv, EpochInv, DataInv, WeightsInv, ResidentInv,
      TrainLabel, Statement, Set
<1>4. CASE Statement("stop4", "stop5", Set("weights_updated"))
  BY <1>4, TrainMoves
  DEF IInv, TypeOK, DoneInv, EpochInv, DataInv, WeightsInv, ResidentInv,
      TrainLabel, Statement, Set
<1>5. CASE Statement("stop5", "ended", Set("dataset_ready"))
  BY <1>5, TrainMoves
  DEF IInv, TypeOK, DoneInv, EpochInv, DataInv, WeightsInv, ResidentInv,
      TrainLabel, Statement, Set
<1>6. QED
  BY <1>1, <1>2, <1>3, <1>4, <1>5 DEF CoordinatorStop

\* A step of the train thread.
LEMMA TrainPreserves == IInv /\ TrainLoop => IInv'
<1> SUFFICES ASSUME IInv, TrainLoop PROVE IInv'
  OBVIOUS
<1>1. CASE NextEpoch
  BY <1>1, TrainMoves
  DEF IInv, TypeOK, DoneInv, EpochInv, DataInv, WeightsInv, ResidentInv,
      TrainLabel, NextEpoch
<1>2. CASE /\ Goto("train", "wait_data", "clear_data")
          /\ Wait("dataset_ready")
          /\ UNCHANGED <<state, failed>>
  BY <1>2, TrainMoves
  DEF IInv, TypeOK, DoneInv, EpochInv, DataInv, WeightsInv, ResidentInv,
      TrainLabel, Wait
<1>3. CASE /\ Goto("train", "clear_data", "wait_weights")
          /\ Clear("dataset_ready")
          /\ UNCHANGED <<state, failed>>
  <2>1. TypeOK' /\ DoneInv' /\ EpochInv'
    BY <1>3, TrainMoves
    DEF IInv, TypeOK, DoneInv, EpochInv, TrainLabel, UpdateLabel, SyncLabel, Clear
  <2>2. DataInv'
    BY <1>3, TrainMoves
    DEF IInv, TypeOK, DoneInv, DataInv, TrainLabel, UpdateLabel, SyncLabel, Clear
  <2>3. WeightsInv'
    BY <1>3, TrainMoves
    DEF IInv, TypeOK, DoneInv, WeightsInv, TrainLabel, UpdateLabel, SyncLabel, Clear
  <2>4. ResidentInv'
    BY <1>3, TrainMoves
    DEF IInv, TypeOK, DoneInv, WeightsInv, ResidentInv, TrainLabel, UpdateLabel,
        SyncLabel, Clear
  <2>5. QED
    BY <2>1, <2>2, <2>3, <2>4 DEF IInv
<1>4. CASE /\ Goto("train", "wait_weights", "clear_weights")
          /\ Wait("weights_updated")
          /\ UNCHANGED <<state, failed>>
  BY <1>4, TrainMoves
  DEF IInv, TypeOK, DoneInv, EpochInv, DataInv, WeightsInv, ResidentInv,
      TrainLabel, Wait
<1>5. CASE /\ Goto("train", "clear_weights", "reload")
          /\ Clear("weights_updated")
          /\ UNCHANGED <<state, failed>>
  <2>1. TypeOK' /\ DoneInv' /\ EpochInv'
    BY <1>5, TrainMoves
    DEF IInv, TypeOK, DoneInv, EpochInv, TrainLabel, UpdateLabel, SyncLabel, Clear
  <2>2. DataInv'
    BY <1>5, TrainMoves
    DEF IInv, TypeOK, DoneInv, DataInv, TrainLabel, UpdateLabel, SyncLabel, Clear
  <2>3. WeightsInv'
    BY <1>5, TrainMoves
    DEF IInv, TypeOK, DoneInv, WeightsInv, TrainLabel, UpdateLabel, SyncLabel, Clear
  <2>4. ResidentInv'
    BY <1>5, TrainMoves
    DEF IInv, TypeOK, DoneInv, WeightsInv, ResidentInv, TrainLabel, UpdateLabel,
        SyncLabel, Clear
  <2>5. QED
    BY <2>1, <2>2, <2>3, <2>4 DEF IInv
<1>6. CASE Reload("train", "reload", {"param", "optimizer"}, "train")
  BY <1>6, TrainMoves
  DEF IInv, TypeOK, DoneInv, EpochInv, DataInv, WeightsInv, ResidentInv,
      TrainLabel, Reload
<1>7. CASE Train
  BY <1>7, TrainMoves
  DEF IInv, TypeOK, DoneInv, EpochInv, DataInv, WeightsInv, ResidentInv,
      TrainLabel, Train
<1>8. CASE SaveCheckpoint
  BY <1>8, TrainMoves
  DEF IInv, TypeOK, DoneInv, EpochInv, DataInv, WeightsInv, ResidentInv,
      TrainLabel, SaveCheckpoint
<1>9. CASE Notify("train", "ready_for_update_dataset", "notify1", "notify2")
  BY <1>9, TrainMoves
  DEF IInv, TypeOK, DoneInv, EpochInv, DataInv, WeightsInv, ResidentInv,
      TrainLabel, Notify, Set
<1>10. CASE Notify("train", "ready_for_sync_weights", "notify2", "next")
  BY <1>10, TrainMoves
  DEF IInv, TypeOK, DoneInv, EpochInv, DataInv, WeightsInv, ResidentInv,
      TrainLabel, Notify, Set
<1>11. QED
  BY StartPreserves, StopPreserves, <1>1, <1>2, <1>3, <1>4, <1>5, <1>6, <1>7, <1>8,
      <1>9, <1>10
  DEF TrainLoop, WaitFor, WaitForWeights,
         NotifyTrainStepDone

\* A step of the sync thread.
LEMMA SyncPreserves == IInv /\ SyncWeightsLoop => IInv'
<1> SUFFICES ASSUME IInv, SyncWeightsLoop PROVE IInv'
  OBVIOUS
<1>1. CASE Test("sync", "check", "wait", "ended")
  BY <1>1, SyncMoves
  DEF IInv, TypeOK, DoneInv, EpochInv, DataInv, WeightsInv, ResidentInv,
      SyncLabel, Test
<1>2. CASE /\ Goto("sync", "wait", "clear")
          /\ Wait("ready_for_sync_weights")
          /\ UNCHANGED <<state, failed>>
  BY <1>2, SyncMoves
  DEF IInv, TypeOK, DoneInv, EpochInv, DataInv, WeightsInv, ResidentInv,
      SyncLabel, Wait
<1>3. CASE /\ Goto("sync", "clear", "gate")
          /\ Clear("ready_for_sync_weights")
          /\ UNCHANGED <<state, failed>>
  BY <1>3, SyncMoves
  DEF IInv, TypeOK, DoneInv, EpochInv, DataInv, WeightsInv, ResidentInv,
      SyncLabel, Clear
<1>4. CASE Test("sync", "gate", "offload_optimizer", "ended")
  BY <1>4, SyncMoves
  DEF IInv, TypeOK, DoneInv, EpochInv, DataInv, WeightsInv, ResidentInv,
      SyncLabel, Test
<1>5. CASE Offload("sync", "offload_optimizer", {"optimizer"}, "send")
  BY <1>5, SyncMoves
  DEF IInv, TypeOK, DoneInv, EpochInv, DataInv, WeightsInv, ResidentInv,
      SyncLabel, Offload
<1>6. CASE SendWeights
  BY <1>6, SyncMoves
  DEF IInv, TypeOK, DoneInv, EpochInv, DataInv, WeightsInv, ResidentInv,
      SyncLabel, SendWeights
<1>7. CASE Offload("sync", "offload_param", {"param"}, "notify")
  BY <1>7, SyncMoves
  DEF IInv, TypeOK, DoneInv, EpochInv, DataInv, WeightsInv, ResidentInv,
      SyncLabel, Offload
<1>8. CASE Notify("sync", "weights_updated", "notify", "check")
  BY <1>8, SyncMoves
  DEF IInv, TypeOK, DoneInv, EpochInv, DataInv, WeightsInv, ResidentInv,
      SyncLabel, Notify, Set
<1>9. QED
  BY <1>1, <1>2, <1>3, <1>4, <1>5, <1>6, <1>7, <1>8
  DEF SyncWeightsLoop, WaitFor, SyncAndNotify

\* A worker ended by an exception.
LEMMA RaisePreserves == ASSUME NEW t \in Worker, IInv, Raise(t) PROVE IInv'
<1>1. CASE t = "rollout"
  <2> DEFINE from == pc["rollout"]
  <2>1. Goto("rollout", from, "ended") /\ from \in LibraryCall["rollout"]
    BY <1>1 DEF Raise, Goto
  <2>2. UNCHANGED <<signalled, state>> /\ failed' = failed \cup {"rollout"}
    BY <1>1 DEF Raise
  <2>3. TypeOK' /\ DoneInv' /\ EpochInv'
    BY <2>1, <2>2, RolloutMoves
    DEF IInv, TypeOK, DoneInv, EpochInv, RolloutLabel, LibraryCall
  <2>4. DataInv'
    BY <2>1, <2>2, RolloutMoves
    DEF IInv, TypeOK, DoneInv, DataInv, RolloutLabel, LibraryCall
  <2>5. WeightsInv'
    BY <2>1, <2>2, RolloutMoves
    DEF IInv, TypeOK, DoneInv, WeightsInv, RolloutLabel, LibraryCall
  <2>6. ResidentInv'
    BY <2>1, <2>2, RolloutMoves
    DEF IInv, TypeOK, DoneInv, ResidentInv, RolloutLabel, LibraryCall
  <2>7. QED
    BY <2>3, <2>4, <2>5, <2>6 DEF IInv
<1>2. CASE t = "update"
  <2> DEFINE from == pc["update"]
  <2>1. Goto("update", from, "ended") /\ from \in LibraryCall["update"]
    BY <1>2 DEF Raise, Goto
  <2>2. UNCHANGED <<signalled, state>> /\ failed' = failed \cup {"update"}
    BY <1>2 DEF Raise
  <2>3. TypeOK' /\ DoneInv' /\ EpochInv'
    BY <2>1, <2>2, UpdateMoves
    DEF IInv, TypeOK, DoneInv, EpochInv, UpdateLabel, LibraryCall
  <2>4. DataInv'
    BY <2>1, <2>2, UpdateMoves
    DEF IInv, TypeOK, DoneInv, DataInv, UpdateLabel, LibraryCall
  <2>5. WeightsInv'
    BY <2>1, <2>2, UpdateMoves
    DEF IInv, TypeOK, DoneInv, WeightsInv, UpdateLabel, LibraryCall
  <2>6. ResidentInv'
    BY <2>1, <2>2, UpdateMoves
    DEF IInv, TypeOK, DoneInv, ResidentInv, UpdateLabel, LibraryCall
  <2>7. QED
    BY <2>3, <2>4, <2>5, <2>6 DEF IInv
<1>3. CASE t = "train"
  <2> DEFINE from == pc["train"]
  <2>1. Goto("train", from, "stop1") /\ from \in LibraryCall["train"]
    BY <1>3 DEF Raise, Goto
  <2>2. UNCHANGED <<signalled, state>> /\ failed' = failed \cup {"train"}
    BY <1>3 DEF Raise
  <2>3. TypeOK' /\ DoneInv' /\ EpochInv'
    BY <2>1, <2>2, TrainMoves
    DEF IInv, TypeOK, DoneInv, EpochInv, TrainLabel, LibraryCall
  <2>4. DataInv'
    BY <2>1, <2>2, TrainMoves
    DEF IInv, TypeOK, DoneInv, DataInv, TrainLabel, LibraryCall
  <2>5. WeightsInv'
    BY <2>1, <2>2, TrainMoves
    DEF IInv, TypeOK, DoneInv, WeightsInv, TrainLabel, LibraryCall
  <2>6. ResidentInv'
    BY <2>1, <2>2, TrainMoves
    DEF IInv, TypeOK, DoneInv, ResidentInv, TrainLabel, LibraryCall
  <2>7. QED
    BY <2>3, <2>4, <2>5, <2>6 DEF IInv
<1>4. CASE t = "sync"
  <2> DEFINE from == pc["sync"]
  <2>1. Goto("sync", from, "ended") /\ from \in LibraryCall["sync"]
    BY <1>4 DEF Raise, Goto
  <2>2. UNCHANGED <<signalled, state>> /\ failed' = failed \cup {"sync"}
    BY <1>4 DEF Raise
  <2>3. TypeOK' /\ DoneInv' /\ EpochInv'
    BY <2>1, <2>2, SyncMoves
    DEF IInv, TypeOK, DoneInv, EpochInv, SyncLabel, LibraryCall
  <2>4. DataInv'
    BY <2>1, <2>2, SyncMoves
    DEF IInv, TypeOK, DoneInv, DataInv, SyncLabel, LibraryCall
  <2>5. WeightsInv'
    BY <2>1, <2>2, SyncMoves
    DEF IInv, TypeOK, DoneInv, WeightsInv, SyncLabel, LibraryCall
  <2>6. ResidentInv'
    BY <2>1, <2>2, SyncMoves
    DEF IInv, TypeOK, DoneInv, ResidentInv, SyncLabel, LibraryCall
  <2>7. QED
    BY <2>3, <2>4, <2>5, <2>6 DEF IInv
<1>5. QED
  BY <1>1, <1>2, <1>3, <1>4

LEMMA StutterPreserves == IInv /\ UNCHANGED vars => IInv'
<1> SUFFICES ASSUME IInv, UNCHANGED vars PROVE IInv'
  OBVIOUS
<1>1. TypeOK' /\ DoneInv' /\ EpochInv'
  BY DEF IInv, TypeOK, DoneInv, EpochInv
<1>2. DataInv'
  BY DEF IInv, DataInv
<1>3. WeightsInv' /\ ResidentInv'
  BY DEF IInv, WeightsInv, ResidentInv
<1>4. QED
  BY <1>1, <1>2, <1>3 DEF IInv

-----------------------------------------------------------------------------
(***************************************************************************)
(* The inductive invariant holds throughout every run.                     *)
(***************************************************************************)
THEOREM Invariance == Spec => []IInv
<1>1. IInv /\ [Next]_vars => IInv'
  BY MainPreserves, RolloutPreserves, UpdatePreserves, TrainPreserves,
     SyncPreserves, RaisePreserves, StutterPreserves DEF Next, Finished
<1>2. QED
  BY InitHolds, <1>1, PTL DEF Spec

(***************************************************************************)
(* Type correctness: events, threads, counters and the buffer of the       *)
(* engine stay in their ranges.                                            *)
(***************************************************************************)
THEOREM TypeCorrect == Spec => []TypeOK
<1>1. IInv => TypeOK
  BY DEF IInv
<1>2. QED
  BY <1>1, Invariance, PTL

(***************************************************************************)
(* The four events exclude data set loads and weight transfers from        *)
(* training steps (async_rl_engine.py, the three loops).                   *)
(***************************************************************************)
THEOREM MutualExclusion == Spec => []Exclusive
<1>1. IInv => Exclusive
  BY DEF IInv, DataInv, WeightsInv, Exclusive
<1>2. QED
  BY <1>1, Invariance, PTL

(***************************************************************************)
(* With offloading, models are on their devices when used (the pre and     *)
(* post hooks of base_engine.py).                                          *)
(***************************************************************************)
THEOREM Residency == Spec => []ResidentWhileUsed
<1>1. IInv => ResidentWhileUsed
  BY DEF IInv, ResidentInv, ResidentWhileUsed
<1>2. QED
  BY <1>1, Invariance, PTL

-----------------------------------------------------------------------------
(***************************************************************************)
(* The engine implements the abstract pipeline: every step of a thread is  *)
(* a step of TrainingPipeline or leaves its variables alone.               *)
(***************************************************************************)
LEMMA InitRefines == Init => Pipeline!PipelineInit
  BY DEF Init, Pipeline!PipelineInit

LEMMA StepRefines == IInv /\ [Next]_vars => [Pipeline!PipelineNext]_(Pipeline!pipelineVars)
<1> SUFFICES ASSUME IInv, [Next]_vars
             PROVE  [Pipeline!PipelineNext]_(Pipeline!pipelineVars)
  OBVIOUS
<1> USE DEF Pipeline!pipelineVars
<1>1. CASE Main
  <2>1. CASE Join \/ SaveLast
    BY <2>1, MainMoves DEF Join, SaveLast, MainLabel
  <2>2. ASSUME NEW t \in Worker, StartWorker(t)
        PROVE  UNCHANGED Pipeline!pipelineVars
    BY <2>2 DEF StartWorker, Entry, IInv, TypeOK
  <2>3. QED
    BY <1>1, <2>1, <2>2 DEF Main
<1>2. CASE Rollout
  <2>1. UNCHANGED <<trained, datasets, pushed>>
    BY <1>2 DEF Rollout, Reload, Offload, Test, RolloutStep
  <2>2. pc'["train"] = pc["train"]
    BY <1>2, RolloutMoves
    DEF Rollout, Reload, Offload, Test, RolloutStep, RolloutLabel
  <2>3. QED
    BY <2>1, <2>2
<1>3. CASE Update
  <2>1. pc'["train"] = pc["train"]
    BY <1>3, UpdateMoves
    DEF Update, WaitFor, Test, MeasureBuffer, Sample, SampleFails, ClearBuffer,
        LoadDataset, Notify, UpdateLabel
  <2>2. CASE LoadDataset
    BY <2>1, <2>2, UpdateMoves
    DEF IInv, TypeOK, DataInv, LoadDataset, UpdateLabel, TrainLabel,
        Pipeline!PipelineNext, Pipeline!PrepareDataset
  <2>3. CASE ~LoadDataset
    <3>1. UNCHANGED <<trained, datasets, pushed>>
      BY <1>3, <2>3
      DEF Update, WaitFor, Test, MeasureBuffer, Sample, SampleFails, ClearBuffer, Notify
    <3>2. QED
      BY <2>1, <3>1
  <2>4. QED
    BY <2>2, <2>3
<1>4. CASE TrainLoop
  <2>1. CASE Reload("train", "reload", {"param", "optimizer"}, "train")
    BY <2>1, TrainMoves
    DEF Reload, IInv, EpochInv, DataInv, WeightsInv, TrainLabel,
        Pipeline!PipelineNext, Pipeline!BeginTrain
  <2>2. CASE Train
    BY <2>2, TrainMoves
    DEF Train, TrainLabel, Pipeline!PipelineNext, Pipeline!EndTrain
  <2>3. CASE NextEpoch
    BY <2>3, TrainMoves DEF NextEpoch, TrainLabel
  <2>4. CASE \/ WaitFor("train", "dataset_ready", "wait_data", "clear_data", "wait_weights")
             \/ WaitForWeights
    BY <2>4, TrainMoves DEF WaitFor, WaitForWeights, TrainLabel
  <2>5. CASE SaveCheckpoint \/ NotifyTrainStepDone
    BY <2>5, TrainMoves DEF SaveCheckpoint, NotifyTrainStepDone, Notify, TrainLabel
  <2>6. CASE CoordinatorStart
    BY <2>6, TrainMoves DEF CoordinatorStart, Statement, TrainLabel
  <2>7. CASE CoordinatorStop
    BY <2>7, TrainMoves DEF CoordinatorStop, Statement, TrainLabel
  <2>8. QED
    BY <1>4, <2>1, <2>2, <2>3, <2>4, <2>5, <2>6, <2>7 DEF TrainLoop
<1>5. CASE SyncWeightsLoop
  <2>1. pc'["train"] = pc["train"]
    BY <1>5, SyncMoves
    DEF SyncWeightsLoop, SyncAndNotify, WaitFor, Test, Offload, SendWeights, Notify,
        SyncLabel
  <2>2. CASE SendWeights
    BY <2>1, <2>2, SyncMoves
    DEF IInv, TypeOK, WeightsInv, SendWeights, SyncLabel, TrainLabel,
        Pipeline!PipelineNext, Pipeline!PushWeights
  <2>3. CASE ~SendWeights
    <3>1. UNCHANGED <<trained, datasets, pushed>>
      BY <1>5, <2>3 DEF SyncWeightsLoop, SyncAndNotify, WaitFor, Test, Offload, Notify
    <3>2. QED
      BY <2>1, <3>1
  <2>4. QED
    BY <2>2, <2>3
<1>6. ASSUME NEW t \in Worker, Raise(t)
      PROVE  [Pipeline!PipelineNext]_(Pipeline!pipelineVars)
  <2>1. UNCHANGED <<trained, datasets, pushed>>
    BY <1>6 DEF Raise
  <2>2. pc'["train"] = pc["train"] \/ pc'["train"] = "stop1"
    BY <1>6 DEF Raise, IInv, TypeOK
  <2>3. QED
    BY <2>1, <2>2 DEF Pipeline!PipelineNext, Pipeline!AbortTrain
<1>7. CASE UNCHANGED vars
  BY <1>7
<1>8. QED
  BY <1>1, <1>2, <1>3, <1>4, <1>5, <1>6, <1>7 DEF Next, Finished

(***************************************************************************)
(* For every configuration and interleaving the engine trains each step on *)
(* a data set of its own, with its predecessor's weights pushed.           *)
(***************************************************************************)
THEOREM Refinement == Spec => ImplementsPipeline
<1>1. QED
  BY InitRefines, StepRefines, Invariance, PTL
  DEF Spec, ImplementsPipeline, Pipeline!PipelineSpec
=============================================================================
