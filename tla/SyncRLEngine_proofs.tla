------------------------ MODULE SyncRLEngine_proofs ------------------------
(***************************************************************************)
(* Proofs about SyncRLEngine, for any evaluation policies, any settings    *)
(* and any number of epochs.                                               *)
(***************************************************************************)
EXTENDS SyncRLEngine, TLAPS

(***************************************************************************)
(* The invariant.  What the engine has done is a function of the statement *)
(* it is at, of the epoch and of the settings; what an evaluation policy   *)
(* has loaded depends on its thread as well.                               *)
(***************************************************************************)
Warming == {"warm_rollout", "warm_offload", "update_dataset", "pre_train", "train", "training"}
Starting == {"send", "notify", "verify", "next"}
Learning ==
    {"pre_rollout", "rollout", "post_rollout", "update_dataset", "pre_train", "train", "training"}
Concluding ==
    {"checkpoint", "pre_sync", "send", "notify", "post_sync", "next", "pre_evaluate", "evaluate",
     "post_evaluate", "save_last", "done"}

\* The statements of an epoch, and the parameters it starts from and ends with.
Course ==
    /\ epoch = 0 /\ config.warm =>
          pc \in Warming \cup Starting \cup {"reset", "pre_sync", "post_sync"}
    /\ epoch = 0 /\ ~config.warm => pc \in Starting
    /\ epoch > 0 => pc \in Learning \cup Concluding
    /\ version = IF epoch = 0
                 THEN IF pc \in Warming THEN 1 ELSE IF pc = "reset" THEN 2 ELSE First
                 ELSE IF pc \in Learning THEN First + epoch - 1 ELSE First + epoch

\* A thread that loads has taken something from the buffer.
LoadsSomething == \A p \in EvalPolicies : thread[p] = "loading" => held[p] # Cleared

Typed == TypeOK /\ Course /\ LoadsSomething

Everything == {"param", "optimizer", "eval", "env"}

\* What is on its device.  Without a warm-up nothing is moved before the first epoch.
Residence ==
    /\ ~config.offload => resident = Everything
    /\ config.offload =>
         /\ pc \in {"warm_rollout", "warm_offload", "rollout", "post_rollout", "evaluate",
                    "post_evaluate"} =>
               resident = {"eval", "env"}
         /\ pc \in {"train", "training", "reset", "checkpoint", "pre_sync"} =>
               resident = {"param", "optimizer"}
         /\ pc \in {"send", "notify", "post_sync"} =>
               IF Hooked THEN resident = {"param"} ELSE resident = {"eval", "env"}
         /\ pc \in {"update_dataset", "pre_train", "save_last", "done"} => resident = {}
         /\ pc \in {"verify", "next", "pre_rollout", "pre_evaluate"} =>
               resident \subseteq {"eval", "env"}

\* What the data buffer and the train policies' data set hold.
Kept(c, e) == IF c.replay THEN 1..e ELSE {}
Data ==
    /\ epoch = 0 /\ pc \notin Warming \cup {"reset"} => rows = {}
    /\ epoch > 0 =>
         /\ pc \in {"pre_rollout", "rollout"} => rows = Kept(config, epoch - 1)
         /\ pc \in {"post_rollout", "update_dataset"} => rows = Kept(config, epoch - 1) \cup {epoch}
         /\ pc \in {"pre_train", "train", "training"} =>
               dataset = IF config.replay THEN 1..epoch ELSE {epoch}
         /\ pc \in {"pre_train", "train", "training"} \cup Concluding => rows = Kept(config, epoch)

\* Strategy "None": the policies have what was sent last, unless that was offloaded.
Unsynced ==
    /\ config.offload /\ ~config.warm
    /\ epoch = 0 \/ (epoch = 1 /\ pc \in {"pre_rollout", "rollout"})
Direct ==
    config.strategy = "None" =>
        /\ \A p \in EvalPolicies : signal[p] = FALSE /\ thread[p] = "await"
        /\ pc # "notify"
        /\ pc = "send" => \A p \in EvalPolicies \ pending : model[p] = version \/ Unsynced
        /\ pc \in {"post_sync", "verify", "next", "pre_rollout", "rollout", "pre_evaluate",
                   "evaluate", "post_evaluate"} =>
              \A p \in EvalPolicies : model[p] = version \/ Unsynced

\* Strategy "buffer", as long as nothing interferes: what is loaded is the outcome of a
\* training step, and the first update is waited for.
Told(p) ==
    epoch > 0 \/ pc \in {"post_sync", "verify", "next"} \/ (pc = "notify" /\ p \notin pending)
Filled(p) == Told(p) \/ pc = "notify" \/ (pc = "send" /\ p \notin pending)
Awaited(p) == epoch > 0 \/ pc = "next" \/ (pc = "verify" /\ p \notin pending)
Loaded(p) == model[p] \in First..version
Buffered ==
    config.strategy = "buffer" /\ ~Unprotected =>
        \A p \in EvalPolicies :
            /\ buffer[p] \in {Cleared} \cup First..version
            /\ thread[p] = "loading" => held[p] \in First..version /\ mixed[p] = FALSE
            /\ ~Told(p) => thread[p] = "await" /\ signal[p] = FALSE
            /\ epoch = 0 /\ Filled(p) => buffer[p] # Cleared
            /\ epoch = 0 /\ Told(p) /\ (done[p] = TRUE \/ thread[p] = "finish") => Loaded(p)
            /\ epoch = 0 /\ pc = "post_sync" => p \in pending
            /\ Awaited(p) => Loaded(p)

IInv == Typed /\ Residence /\ Data /\ Direct /\ Buffered

LEMMA Settled ==
    ASSUME config \in Configs
    PROVE  /\ config.warm \in BOOLEAN /\ config.offload \in BOOLEAN /\ config.replay \in BOOLEAN
           /\ config.copies \in BOOLEAN /\ config.strategy \in {"None", "buffer"}
           /\ First \in {1, 3} /\ MaxEpochs \in Nat
BY SyncEngineAssumption DEF Settings, First

\* The calls of a policy and the steps of its thread leave the engine where it is.
PolicyStep(p) ==
    \/ SendIpc(p) \/ ClearBuffer(p) \/ FillBuffer(p) \/ Notify(p) \/ Wait(p)
    \/ BeginUpdate(p) \/ EndLoad(p) \/ FinishUpdate(p)

LEMMA PolicySteps ==
    ASSUME NEW p, PolicyStep(p)
    PROVE  /\ UNCHANGED <<config, pc, epoch, version, resident, saved, rows, dataset>>
           /\ pending' \subseteq pending
BY DEF PolicyStep, SendIpc, ClearBuffer, FillBuffer, Notify, Wait, BeginUpdate, EndLoad,
       FinishUpdate, trainVars, dataVars

-----------------------------------------------------------------------------
(***************************************************************************)
(* Types, and the course of an epoch.                                      *)
(***************************************************************************)
LEMMA CourseStep == ASSUME TypeOK, Course, [Next]_vars PROVE Course'
<1> USE DEF Course, Warming, Starting, Learning, Concluding, Goto, Call, First, trainVars
<1>1. /\ config \in Configs /\ config.warm \in BOOLEAN /\ MaxEpochs \in Nat
      /\ epoch \in 0..MaxEpochs /\ version \in Nat /\ version >= 1
  BY Settled DEF TypeOK
<1>2. CASE WarmRollout
  BY <1>1, <1>2 DEF WarmRollout
<1>3. CASE OffloadEval("warm_offload", "update_dataset")
  BY <1>1, <1>3 DEF OffloadEval
<1>4. CASE ReloadEval("pre_rollout", "rollout")
  BY <1>1, <1>4 DEF ReloadEval
<1>5. CASE Rollout
  BY <1>1, <1>5 DEF Rollout
<1>6. CASE OffloadEval("post_rollout", "update_dataset")
  BY <1>1, <1>6 DEF OffloadEval
<1>7. CASE UpdateDataset
  BY <1>1, <1>7 DEF UpdateDataset
<1>8. CASE PreTrain
  BY <1>1, <1>8 DEF PreTrain
<1>9. CASE BeginTrain
  BY <1>1, <1>9 DEF BeginTrain
<1>10. CASE EndTrain
  BY <1>1, <1>10 DEF EndTrain
<1>11. CASE ResetTrainingState
  BY <1>1, <1>11 DEF ResetTrainingState
<1>12. CASE Save
  BY <1>1, <1>12 DEF Save
<1>13. CASE PreSync
  BY <1>1, <1>13 DEF PreSync
<1>14. CASE Sent
  BY <1>1, <1>14 DEF Sent, Synced, Hooked
<1>15. CASE Notified
  BY <1>1, <1>15 DEF Notified, Synced, Hooked
<1>16. CASE PostSync
  BY <1>1, <1>16 DEF PostSync
<1>17. CASE Verified
  BY <1>1, <1>17 DEF Verified
<1>18. CASE NextEpoch
  BY <1>1, <1>18 DEF NextEpoch
<1>19. CASE ReloadEval("pre_evaluate", "evaluate")
  BY <1>1, <1>19 DEF ReloadEval
<1>20. CASE Evaluate
  BY <1>1, <1>20 DEF Evaluate
<1>21. CASE OffloadEval("post_evaluate", AfterPostEvaluate)
  BY <1>1, <1>21 DEF OffloadEval, AfterPostEvaluate
<1>22. ASSUME NEW p \in EvalPolicies, PolicyStep(p) PROVE Course'
  BY <1>1, <1>22, PolicySteps
<1>23. CASE UNCHANGED vars
  BY <1>1, <1>23 DEF vars
<1> QED
  BY <1>1, <1>2, <1>3, <1>4, <1>5, <1>6, <1>7, <1>8, <1>9, <1>10, <1>11, <1>12, <1>13, <1>14,
     <1>15, <1>16, <1>17, <1>18, <1>19, <1>20, <1>21, <1>22, <1>23
     DEF Next, PolicyStep

LEMMA EpochStep ==
    ASSUME TypeOK, [Next]_vars
    PROVE  config' = config /\ epoch' \in 0..MaxEpochs
<1>1. epoch \in 0..MaxEpochs /\ MaxEpochs \in Nat
  BY Settled DEF TypeOK
<1>2. CASE NextEpoch
  BY <1>1, <1>2 DEF NextEpoch
<1>3. CASE \E p \in EvalPolicies : PolicyStep(p)
  BY <1>1, <1>3, PolicySteps
<1>4. CASE UNCHANGED <<config, epoch>>
  BY <1>1, <1>4
<1>5. NextEpoch \/ (\E p \in EvalPolicies : PolicyStep(p)) \/ UNCHANGED <<config, epoch>>
  BY DEF Next, PolicyStep, WarmRollout, OffloadEval, ReloadEval, Rollout, UpdateDataset,
         PreTrain, BeginTrain, EndTrain, ResetTrainingState, Save, PreSync, Sent, Notified,
         PostSync, Verified, Evaluate, vars
<1> QED
  BY <1>2, <1>3, <1>4, <1>5

LEMMA VersionStep == ASSUME TypeOK, Course, [Next]_vars PROVE version' \in 1..(MaxEpochs + 3)
<1>1. config' \in Configs /\ epoch' \in 0..MaxEpochs /\ Course'
  BY CourseStep, EpochStep DEF TypeOK
<1>2. First' \in {1, 3} /\ MaxEpochs \in Nat
  BY <1>1, EpochStep, Settled DEF First, TypeOK
<1>3. epoch' = 0 => version' = 1 \/ version' = 2 \/ version' = First'
  BY <1>1 DEF Course
<1>4. epoch' > 0 => version' = First' + epoch' - 1 \/ version' = First' + epoch'
  BY <1>1 DEF Course
<1> QED
  BY <1>1, <1>2, <1>3, <1>4

\* The types of what the engine and of what the policies keep.
EngineTyped ==
    /\ pending \subseteq EvalPolicies
    /\ resident \subseteq Everything
    /\ rows \subseteq 0..MaxEpochs /\ dataset \subseteq 0..MaxEpochs
    /\ saved \in 0..version /\ (pc = "done" => saved = version)

PoliciesTyped ==
    /\ model \in [EvalPolicies -> Content]
    /\ buffer \in [EvalPolicies -> Content \cup {Cleared, Alias}]
    /\ held \in [EvalPolicies -> Content \cup {Cleared, Alias}]
    /\ mixed \in [EvalPolicies -> BOOLEAN]
    /\ thread \in [EvalPolicies -> {"await", "loading", "finish"}]
    /\ signal \in [EvalPolicies -> BOOLEAN] /\ done \in [EvalPolicies -> BOOLEAN]
    /\ timedOut \in BOOLEAN
    /\ LoadsSomething

LEMMA EngineTypedStep ==
    ASSUME EngineTyped, epoch \in 0..MaxEpochs, version \in Nat, [Next]_vars
    PROVE  EngineTyped'
<1> USE DEF EngineTyped, Everything, Goto, Call, OnDevice, OffDevice, trainVars, dataVars
<1>1. MaxEpochs \in Nat
  BY SyncEngineAssumption
<1>2. CASE WarmRollout
  BY <1>1, <1>2 DEF WarmRollout
<1>3. CASE OffloadEval("warm_offload", "update_dataset")
  BY <1>3 DEF OffloadEval
<1>4. CASE ReloadEval("pre_rollout", "rollout")
  BY <1>4 DEF ReloadEval
<1>5. CASE Rollout
  BY <1>1, <1>5 DEF Rollout
<1>6. CASE OffloadEval("post_rollout", "update_dataset")
  BY <1>6 DEF OffloadEval
<1>7. CASE UpdateDataset
  BY <1>7 DEF UpdateDataset
<1>8. CASE PreTrain
  BY <1>8 DEF PreTrain
<1>9. CASE BeginTrain
  BY <1>9 DEF BeginTrain
<1>10. CASE EndTrain
  BY <1>1, <1>10 DEF EndTrain
<1>11. CASE ResetTrainingState
  BY <1>1, <1>11 DEF ResetTrainingState
<1>12. CASE Save
  BY <1>12 DEF Save
<1>13. CASE PreSync
  BY <1>13 DEF PreSync
<1>14. CASE Sent
  BY <1>14 DEF Sent, Synced
<1>15. CASE Notified
  BY <1>15 DEF Notified, Synced
<1>16. CASE PostSync
  BY <1>16 DEF PostSync
<1>17. CASE Verified
  BY <1>17 DEF Verified
<1>18. CASE NextEpoch
  BY <1>18 DEF NextEpoch
<1>19. CASE ReloadEval("pre_evaluate", "evaluate")
  BY <1>19 DEF ReloadEval
<1>20. CASE Evaluate
  BY <1>20 DEF Evaluate
<1>21. CASE OffloadEval("post_evaluate", AfterPostEvaluate)
  BY <1>21 DEF OffloadEval, AfterPostEvaluate
<1>22. ASSUME NEW p \in EvalPolicies, PolicyStep(p) PROVE EngineTyped'
  BY <1>22, PolicySteps
<1>23. CASE UNCHANGED vars
  BY <1>23 DEF vars
<1> QED
  BY <1>2, <1>3, <1>4, <1>5, <1>6, <1>7, <1>8, <1>9, <1>10, <1>11, <1>12, <1>13, <1>14, <1>15,
     <1>16, <1>17, <1>18, <1>19, <1>20, <1>21, <1>22, <1>23
     DEF Next, PolicyStep

LEMMA Readable ==
    ASSUME version \in 1..(MaxEpochs + 3)
    PROVE  Parameters \in Content /\ Cleared \notin Content /\ Garbage \in Content
BY SyncEngineAssumption DEF Parameters, Content, Garbage, Cleared

\* What the statements of the engine change of the policies is at most which loads are torn.
LEMMA EngineSteps ==
    ASSUME [Next]_vars
    PROVE  \/ \E p \in EvalPolicies : PolicyStep(p)
           \/ /\ UNCHANGED <<model, buffer, updateVars, eventVars, timedOut>>
              /\ mixed' = mixed \/ \E how : Disturb(how)
BY
   DEF Next, PolicyStep, vars, WarmRollout, OffloadEval, ReloadEval, Rollout, UpdateDataset,
       PreTrain, BeginTrain, EndTrain, ResetTrainingState, Save, PreSync, Sent, Notified,
       PostSync, Verified, NextEpoch, Evaluate

LEMMA PoliciesTypedStep ==
    ASSUME PoliciesTyped, version \in 1..(MaxEpochs + 3), [Next]_vars
    PROVE  PoliciesTyped'
<1> USE DEF PoliciesTyped, LoadsSomething, updateVars, eventVars
<1>1. CASE /\ UNCHANGED <<model, buffer, updateVars, eventVars, timedOut>>
           /\ mixed' = mixed \/ \E how : Disturb(how)
  <2>1. mixed' \in [EvalPolicies -> BOOLEAN]
    BY <1>1 DEF Disturb
  <2> QED
    BY <1>1, <2>1
<1>2. ASSUME NEW p \in EvalPolicies, PolicyStep(p) PROVE PoliciesTyped'
  <2>1. CASE SendIpc(p)
    BY <2>1, Readable DEF SendIpc
  <2>2. CASE ClearBuffer(p)
    BY <2>2, Readable DEF ClearBuffer
  <2>3. CASE FillBuffer(p)
    BY <2>3, Readable DEF FillBuffer
  <2>4. CASE Notify(p)
    BY <2>4, Readable DEF Notify
  <2>5. CASE Wait(p)
    BY <2>5, Readable DEF Wait
  <2>6. CASE BeginUpdate(p)
    BY <2>6, Readable DEF BeginUpdate
  <2>7. CASE EndLoad(p)
    BY <2>7, Readable DEF EndLoad
  <2>8. CASE FinishUpdate(p)
    BY <2>8, Readable DEF FinishUpdate
  <2> QED
    BY <1>2, <2>1, <2>2, <2>3, <2>4, <2>5, <2>6, <2>7, <2>8 DEF PolicyStep
<1> QED
  BY <1>1, <1>2, EngineSteps

LEMMA TypedStep == ASSUME Typed, [Next]_vars PROVE Typed'
<1>1. /\ TypeOK /\ Course /\ LoadsSomething
      /\ EngineTyped /\ PoliciesTyped /\ version \in Nat
  BY DEF Typed, TypeOK, EngineTyped, PoliciesTyped, Everything
<1>2. /\ Course' /\ config' \in Configs
      /\ epoch' \in 0..MaxEpochs /\ version' \in 1..(MaxEpochs + 3)
  BY <1>1, CourseStep, EpochStep, VersionStep DEF TypeOK
<1>3. EngineTyped' /\ PoliciesTyped'
  BY <1>1, EngineTypedStep, PoliciesTypedStep DEF TypeOK
<1>4. pc' \in Statements
  <2>1. epoch' = 0 \/ epoch' > 0
    BY <1>2
  <2> QED
    BY <1>2, <2>1 DEF Course, Statements, Warming, Starting, Learning, Concluding
<1> QED
  BY <1>2, <1>3, <1>4 DEF Typed, TypeOK, EngineTyped, PoliciesTyped, Everything

LEMMA TypedInit == Init => Typed
<1> SUFFICES ASSUME Init PROVE Typed
  OBVIOUS
<1>1. /\ config \in Configs /\ MaxEpochs \in Nat \ {0}
      /\ config.warm \in BOOLEAN
  BY Settled, SyncEngineAssumption DEF Init
<1>2. Course /\ LoadsSomething
  BY <1>1 DEF Init, Course, LoadsSomething, Warming, Starting, First
<1>3. TypeOK
  <2>1. 0 \in Content /\ 0 \in 0..MaxEpochs /\ 1 \in 1..(MaxEpochs + 3)
    BY <1>1 DEF Content
  <2>2. EngineTyped
    BY <1>1 DEF Init, EngineTyped, Everything
  <2>3. PoliciesTyped
    BY <1>2, <2>1 DEF Init, PoliciesTyped
  <2>4. pc \in Statements
    BY DEF Init, Statements
  <2>5. config \in Configs /\ epoch \in 0..MaxEpochs /\ version \in 1..(MaxEpochs + 3)
    BY <1>1, <2>1 DEF Init
  <2> QED
    BY <2>2, <2>3, <2>4, <2>5 DEF TypeOK, EngineTyped, PoliciesTyped, Everything
<1> QED
  BY <1>2, <1>3 DEF Typed

\* Every variable keeps its type; the last checkpoint holds the parameters of the last
\* training step.
THEOREM TypeCorrect == Spec => []TypeOK
<1>1. Typed => TypeOK
  BY DEF Typed
<1> QED
  BY <1>1, TypedInit, TypedStep, PTL DEF Spec
-----------------------------------------------------------------------------
(***************************************************************************)
(* What is on its device, and what the engine trains on.                   *)
(***************************************************************************)
LEMMA ResidenceStep == ASSUME Typed, Residence, [Next]_vars PROVE Residence'
<1> USE DEF Residence, Everything, Hooked, Goto, Call, OnDevice, OffDevice, trainVars
<1>1. /\ config.warm \in BOOLEAN /\ config.offload \in BOOLEAN /\ epoch \in Nat
      /\ epoch = 0 /\ ~config.warm => pc \in Starting
      /\ config' = config
  BY Settled, EpochStep DEF Typed, TypeOK, Course
<1>2. CASE WarmRollout
  BY <1>1, <1>2 DEF WarmRollout
<1>3. CASE OffloadEval("warm_offload", "update_dataset")
  BY <1>1, <1>3 DEF OffloadEval
<1>4. CASE ReloadEval("pre_rollout", "rollout")
  BY <1>1, <1>4 DEF ReloadEval
<1>5. CASE Rollout
  BY <1>1, <1>5 DEF Rollout
<1>6. CASE OffloadEval("post_rollout", "update_dataset")
  BY <1>1, <1>6 DEF OffloadEval
<1>7. CASE UpdateDataset
  BY <1>1, <1>7 DEF UpdateDataset
<1>8. CASE PreTrain
  BY <1>1, <1>8 DEF PreTrain
<1>9. CASE BeginTrain
  BY <1>1, <1>9 DEF BeginTrain
<1>10. CASE EndTrain
  BY <1>1, <1>10 DEF EndTrain
<1>11. CASE ResetTrainingState
  BY <1>1, <1>11 DEF ResetTrainingState
<1>12. CASE Save
  BY <1>1, <1>12 DEF Save
<1>13. CASE PreSync
  BY <1>1, <1>13 DEF PreSync, Starting
<1>14. CASE Sent
  BY <1>1, <1>14 DEF Sent, Synced
<1>15. CASE Notified
  BY <1>1, <1>15 DEF Notified, Synced
<1>16. CASE PostSync
  BY <1>1, <1>16 DEF PostSync, Starting
<1>17. CASE Verified
  BY <1>1, <1>17 DEF Verified
<1>18. CASE NextEpoch
  BY <1>1, <1>18 DEF NextEpoch
<1>19. CASE ReloadEval("pre_evaluate", "evaluate")
  BY <1>1, <1>19 DEF ReloadEval
<1>20. CASE Evaluate
  BY <1>1, <1>20 DEF Evaluate
<1>21. CASE OffloadEval("post_evaluate", AfterPostEvaluate)
  BY <1>1, <1>21 DEF OffloadEval, AfterPostEvaluate
<1>22. ASSUME NEW p \in EvalPolicies, PolicyStep(p) PROVE Residence'
  BY <1>22, PolicySteps
<1>23. CASE UNCHANGED vars
  BY <1>23 DEF vars
<1> QED
  BY <1>2, <1>3, <1>4, <1>5, <1>6, <1>7, <1>8, <1>9, <1>10, <1>11, <1>12, <1>13, <1>14, <1>15,
     <1>16, <1>17, <1>18, <1>19, <1>20, <1>21, <1>22, <1>23
     DEF Next, PolicyStep

LEMMA ResidenceInit == Init => Residence
BY Settled DEF Init, Residence, Everything, Hooked

LEMMA UsedResident == Typed /\ Residence => UsedIsResident
<1> SUFFICES ASSUME Typed, Residence PROVE UsedIsResident
  OBVIOUS
<1>1. config.offload \in BOOLEAN
  BY Settled DEF Typed, TypeOK
<1> QED
  BY <1>1 DEF Residence, Everything, UsedIsResident

\* With offloading, whatever the engine uses is on its device when it is used.
THEOREM WhatIsUsedIsResident == Spec => []UsedIsResident
BY TypedInit, TypedStep, ResidenceInit, ResidenceStep, UsedResident, PTL DEF Spec

LEMMA KeptNext ==
    ASSUME NEW c, NEW e \in Nat
    PROVE  /\ e > 0 => Kept(c, e - 1) \cup {e} = IF c.replay THEN 1..e ELSE {e}
           /\ c.replay => Kept(c, e) = 1..e
           /\ ~c.replay => Kept(c, e) = {}
           /\ Kept(c, (e + 1) - 1) = Kept(c, e)
           /\ Kept(c, 0) = {}
BY DEF Kept

LEMMA DataStep == ASSUME Typed, Data, [Next]_vars PROVE Data'
<1> USE DEF Data, Goto, Call, trainVars, dataVars
<1>1. /\ config.warm \in BOOLEAN /\ config.replay \in BOOLEAN /\ epoch \in Nat
      /\ pc \in {"warm_offload", "reset", "verify"} => epoch = 0
      /\ pc = "rollout" => epoch > 0
      /\ config' = config
  BY Settled, EpochStep DEF Typed, TypeOK, Course, Warming, Starting, Learning, Concluding
<1>2. CASE WarmRollout
  BY <1>1, <1>2 DEF WarmRollout, Warming, Concluding
<1>3. CASE OffloadEval("warm_offload", "update_dataset")
  BY <1>1, <1>3 DEF OffloadEval, Warming, Concluding
<1>4. CASE ReloadEval("pre_rollout", "rollout")
  BY <1>1, <1>4 DEF ReloadEval, Warming, Concluding
<1>5. CASE Rollout
  BY <1>1, <1>5 DEF Rollout, Warming, Concluding
<1>6. CASE OffloadEval("post_rollout", "update_dataset")
  BY <1>1, <1>6 DEF OffloadEval, Warming, Concluding
<1>7. CASE UpdateDataset
  BY <1>1, <1>7, KeptNext DEF UpdateDataset, Warming, Concluding
<1>8. CASE PreTrain
  BY <1>1, <1>8 DEF PreTrain, Warming, Concluding
<1>9. CASE BeginTrain
  BY <1>1, <1>9 DEF BeginTrain, Warming, Concluding
<1>10. CASE EndTrain
  BY <1>1, <1>10 DEF EndTrain, Warming, Concluding
<1>11. CASE ResetTrainingState
  BY <1>1, <1>11 DEF ResetTrainingState, Warming, Concluding
<1>12. CASE Save
  BY <1>1, <1>12 DEF Save, Warming, Concluding
<1>13. CASE PreSync
  BY <1>1, <1>13 DEF PreSync, Warming, Concluding
<1>14. CASE Sent
  BY <1>1, <1>14 DEF Sent, Synced, Warming, Concluding
<1>15. CASE Notified
  BY <1>1, <1>15 DEF Notified, Synced, Warming, Concluding
<1>16. CASE PostSync
  BY <1>1, <1>16 DEF PostSync, Warming, Concluding
<1>17. CASE Verified
  BY <1>1, <1>17 DEF Verified, Warming, Concluding
<1>18. CASE NextEpoch
  <2>1. rows = Kept(config, epoch)
    <3>1. CASE epoch = 0
      BY <1>18, <3>1, KeptNext DEF NextEpoch, Warming
    <3>2. CASE epoch > 0
      BY <1>18, <3>2 DEF NextEpoch, Concluding
    <3> QED
      BY <1>1, <3>1, <3>2
  <2>2. epoch' - 1 = epoch
    BY <1>1, <1>18 DEF NextEpoch
  <2> QED
    BY <1>1, <1>18, <2>1, <2>2 DEF NextEpoch, Warming, Concluding
<1>19. CASE ReloadEval("pre_evaluate", "evaluate")
  BY <1>1, <1>19 DEF ReloadEval, Warming, Concluding
<1>20. CASE Evaluate
  BY <1>1, <1>20 DEF Evaluate, Warming, Concluding
<1>21. CASE OffloadEval("post_evaluate", AfterPostEvaluate)
  BY <1>1, <1>21 DEF OffloadEval, AfterPostEvaluate, Warming, Concluding
<1>22. ASSUME NEW p \in EvalPolicies, PolicyStep(p) PROVE Data'
  BY <1>1, <1>22, PolicySteps
<1>23. CASE UNCHANGED vars
  BY <1>1, <1>23 DEF vars
<1> QED
  BY <1>2, <1>3, <1>4, <1>5, <1>6, <1>7, <1>8, <1>9, <1>10, <1>11, <1>12, <1>13, <1>14, <1>15,
     <1>16, <1>17, <1>18, <1>19, <1>20, <1>21, <1>22, <1>23
     DEF Next, PolicyStep

LEMMA DataInit == Init => Data
BY Settled DEF Init, Data
-----------------------------------------------------------------------------
(***************************************************************************)
(* What the evaluation policies infer with.                                *)
(***************************************************************************)
\* What is sent, when the train policies' parameters are on their device.
LEMMA SentWhole ==
    ASSUME Typed, Residence, pc = "send", ~Unsynced
    PROVE  Parameters = version
<1>1. config.warm \in BOOLEAN /\ config.offload \in BOOLEAN /\ epoch \in Nat
  BY Settled DEF Typed, TypeOK
<1>2. "param" \in resident
  BY <1>1 DEF Residence, Hooked, Unsynced, Everything
<1> QED
  BY <1>2 DEF Parameters

LEMMA DirectStep == ASSUME Typed, Residence, Direct, [Next]_vars PROVE Direct'
<1> USE DEF Direct, Goto, Call, trainVars, updateVars, eventVars, dataVars
<1>1. /\ config.warm \in BOOLEAN /\ config.offload \in BOOLEAN /\ epoch \in Nat
      /\ pc \in {"warm_offload", "reset", "verify"} => epoch = 0
      /\ pc \in {"pre_rollout", "rollout", "post_evaluate", "evaluate", "pre_evaluate"} => epoch > 0
      /\ config' = config /\ config.strategy \in {"None", "buffer"}
      /\ signal \in [EvalPolicies -> BOOLEAN]
      /\ thread \in [EvalPolicies -> {"await", "loading", "finish"}]
  BY Settled, EpochStep DEF Typed, TypeOK, Course, Warming, Starting, Learning, Concluding
<1> SUFFICES ASSUME config.strategy = "None" PROVE Direct'
  BY <1>1
<1>2. CASE WarmRollout
  BY <1>1, <1>2 DEF WarmRollout, Unsynced
<1>3. CASE OffloadEval("warm_offload", "update_dataset")
  BY <1>1, <1>3 DEF OffloadEval, Unsynced
<1>4. CASE ReloadEval("pre_rollout", "rollout")
  BY <1>1, <1>4 DEF ReloadEval, Unsynced
<1>5. CASE Rollout
  BY <1>1, <1>5 DEF Rollout, Unsynced
<1>6. CASE OffloadEval("post_rollout", "update_dataset")
  BY <1>1, <1>6 DEF OffloadEval, Unsynced
<1>7. CASE UpdateDataset
  BY <1>1, <1>7 DEF UpdateDataset, Unsynced
<1>8. CASE PreTrain
  BY <1>1, <1>8 DEF PreTrain, Unsynced
<1>9. CASE BeginTrain
  BY <1>1, <1>9 DEF BeginTrain, Unsynced
<1>10. CASE EndTrain
  BY <1>1, <1>10 DEF EndTrain, Unsynced
<1>11. CASE ResetTrainingState
  BY <1>1, <1>11 DEF ResetTrainingState, Unsynced
<1>12. CASE Save
  BY <1>1, <1>12 DEF Save, Unsynced
<1>13. CASE PreSync
  BY <1>1, <1>13 DEF PreSync, Unsynced
<1>14. CASE Sent
  BY <1>1, <1>14 DEF Sent, Synced, Unsynced
<1>15. CASE Notified
  BY <1>1, <1>15 DEF Notified, Synced, Unsynced
<1>16. CASE PostSync
  BY <1>1, <1>16 DEF PostSync, Unsynced
<1>17. CASE Verified
  BY <1>1, <1>17 DEF Verified, Unsynced
<1>18. CASE NextEpoch
  BY <1>1, <1>18 DEF NextEpoch, Unsynced
<1>19. CASE ReloadEval("pre_evaluate", "evaluate")
  BY <1>1, <1>19 DEF ReloadEval, Unsynced
<1>20. CASE Evaluate
  BY <1>1, <1>20 DEF Evaluate, Unsynced
<1>21. CASE OffloadEval("post_evaluate", AfterPostEvaluate)
  BY <1>1, <1>21 DEF OffloadEval, AfterPostEvaluate, Unsynced
<1>22. ASSUME NEW p \in EvalPolicies, PolicyStep(p) PROVE Direct'
  <2>1. UNCHANGED <<config, pc, epoch, version>> /\ Unsynced' = Unsynced
    BY <1>22, PolicySteps DEF Unsynced
  <2>2. CASE SendIpc(p)
    BY <1>1, <2>1, <2>2, SentWhole DEF SendIpc, Typed, TypeOK
  <2>3. CASE ClearBuffer(p)
    BY <1>1, <2>1, <2>3 DEF ClearBuffer
  <2>4. CASE FillBuffer(p)
    BY <1>1, <2>1, <2>4 DEF FillBuffer
  <2>5. CASE Notify(p)
    BY <1>1, <2>1, <2>5 DEF Notify
  <2>6. CASE Wait(p)
    BY <1>1, <2>1, <2>6 DEF Wait
  <2>7. CASE BeginUpdate(p)
    BY <1>1, <2>1, <2>7 DEF BeginUpdate
  <2>8. CASE EndLoad(p)
    BY <1>1, <2>1, <2>8 DEF EndLoad
  <2>9. CASE FinishUpdate(p)
    BY <1>1, <2>1, <2>9 DEF FinishUpdate
  <2> QED
    BY <1>22, <2>2, <2>3, <2>4, <2>5, <2>6, <2>7, <2>8, <2>9 DEF PolicyStep
<1>23. CASE UNCHANGED vars
  BY <1>1, <1>23 DEF vars, Unsynced
<1> QED
  BY <1>2, <1>3, <1>4, <1>5, <1>6, <1>7, <1>8, <1>9, <1>10, <1>11, <1>12, <1>13, <1>14, <1>15,
     <1>16, <1>17, <1>18, <1>19, <1>20, <1>21, <1>22, <1>23
     DEF Next, PolicyStep

LEMMA DirectInit == Init => Direct
BY DEF Init, Direct

\* A load that reads no tensors of the trainer is torn by nothing but a move of the model.
LEMMA Undisturbed ==
    ASSUME Typed, config.offload = FALSE, [Next]_vars,
           ~\E p \in EvalPolicies : PolicyStep(p),
           NEW p \in EvalPolicies, held[p] # Alias
    PROVE  mixed'[p] = mixed[p]
<1>1. mixed \in [EvalPolicies -> BOOLEAN]
  BY DEF Typed, TypeOK
<1>2. CASE mixed' = mixed
  BY <1>2
<1>3. CASE Disturb(ReadsAlias)
  BY <1>1, <1>3 DEF Disturb, ReadsAlias
<1>4. CASE Disturb(ModelMoves)
  BY <1>1, <1>4 DEF Disturb, ModelMoves
<1>5. CASE Disturb([q \in EvalPolicies |-> config.offload /\ held[q] = Alias])
  BY <1>1, <1>5 DEF Disturb
<1> QED
  BY <1>2, <1>3, <1>4, <1>5
     DEF Next, PolicyStep, vars, WarmRollout, OffloadEval, ReloadEval, Rollout, UpdateDataset,
         PreTrain, BeginTrain, EndTrain, ResetTrainingState, Save, PreSync, Sent, Notified,
         PostSync, Verified, NextEpoch, Evaluate

\* Parameters only get newer.
LEMMA Newer ==
    ASSUME Typed, [Next]_vars
    PROVE  /\ version \in Nat /\ version' \in Nat /\ version <= version' /\ First' = First
           /\ First \in {1, 3}
<1>1. version \in Nat /\ config' = config /\ First \in {1, 3}
  BY Settled, EpochStep DEF Typed, TypeOK
<1>2. version' = version \/ version' = version + 1
  <2>1. CASE \E p \in EvalPolicies : PolicyStep(p)
    BY <2>1, PolicySteps
  <2>2. CASE EndTrain \/ ResetTrainingState
    BY <2>2 DEF EndTrain, ResetTrainingState
  <2>3. CASE UNCHANGED version
    BY <2>3
  <2> QED
    BY <2>1, <2>2, <2>3
       DEF Next, PolicyStep, vars, trainVars, WarmRollout, OffloadEval, ReloadEval,
       Rollout, UpdateDataset, PreTrain, BeginTrain, Save, PreSync, Sent, Notified, PostSync,
       Verified, NextEpoch, Evaluate
<1> QED
  BY <1>1, <1>2 DEF First

LEMMA NothingInterferes ==
    ASSUME Typed, [Next]_vars, ~Unprotected'
    PROVE  ~Unprotected /\ config' = config
<1>1. config' = config /\ timedOut \in BOOLEAN
  BY EpochStep DEF Typed, TypeOK
<1>2. timedOut => timedOut'
  BY <1>1
     DEF Next, vars, WarmRollout, OffloadEval, ReloadEval, Rollout, UpdateDataset, PreTrain,
         BeginTrain, EndTrain, ResetTrainingState, Save, PreSync, Sent, Notified, PostSync,
         Verified, NextEpoch, Evaluate, SendIpc, ClearBuffer, FillBuffer, Notify, Wait,
         BeginUpdate, EndLoad, FinishUpdate
<1> QED
  BY <1>1, <1>2 DEF Unprotected

\* Where the engine is in the first sync, seen from a policy.
FirstSync(p) ==
    /\ Told(p) => Told(p)'
    /\ epoch' = 0 => /\ epoch = 0
                     /\ Told(p)' => Told(p)
                     /\ Filled(p)' => Filled(p)
                     /\ pc' = "post_sync" => p \in pending'
    /\ Awaited(p)' => Awaited(p)

LEMMA FirstSyncStep ==
    ASSUME Typed, [Next]_vars, config.strategy = "buffer",
           ~\E p \in EvalPolicies : PolicyStep(p),
           NEW p \in EvalPolicies, epoch = 0 /\ pc = "post_sync" => p \in pending
    PROVE  FirstSync(p)
<1> USE DEF FirstSync, Told, Filled, Awaited, Goto, Call
<1>1. /\ config.warm \in BOOLEAN /\ epoch \in Nat
      /\ pc \in {"reset", "warm_rollout", "warm_offload", "verify"} => epoch = 0
      /\ pc \in {"pre_rollout", "rollout", "post_rollout", "checkpoint", "save_last", "pre_evaluate",
                 "evaluate", "post_evaluate"} => epoch > 0
  BY Settled DEF Typed, TypeOK, Course, Warming, Starting, Learning, Concluding
<1>2. CASE WarmRollout
  BY <1>1, <1>2 DEF WarmRollout
<1>3. CASE OffloadEval("warm_offload", "update_dataset")
  BY <1>1, <1>3 DEF OffloadEval
<1>4. CASE ReloadEval("pre_rollout", "rollout")
  BY <1>1, <1>4 DEF ReloadEval
<1>5. CASE Rollout
  BY <1>1, <1>5 DEF Rollout
<1>6. CASE OffloadEval("post_rollout", "update_dataset")
  BY <1>1, <1>6 DEF OffloadEval
<1>7. CASE UpdateDataset
  BY <1>1, <1>7 DEF UpdateDataset
<1>8. CASE PreTrain
  BY <1>1, <1>8 DEF PreTrain
<1>9. CASE BeginTrain
  BY <1>1, <1>9 DEF BeginTrain
<1>10. CASE EndTrain
  BY <1>1, <1>10 DEF EndTrain
<1>11. CASE ResetTrainingState
  BY <1>1, <1>11 DEF ResetTrainingState
<1>12. CASE Save
  BY <1>1, <1>12 DEF Save
<1>13. CASE PreSync
  BY <1>1, <1>13 DEF PreSync
<1>14. CASE Sent
  BY <1>1, <1>14 DEF Sent, Synced
<1>15. CASE Notified
  BY <1>1, <1>15 DEF Notified, Synced
<1>16. CASE PostSync
  BY <1>1, <1>16 DEF PostSync
<1>17. CASE Verified
  BY <1>1, <1>17 DEF Verified
<1>18. CASE NextEpoch
  BY <1>1, <1>18 DEF NextEpoch
<1>19. CASE ReloadEval("pre_evaluate", "evaluate")
  BY <1>1, <1>19 DEF ReloadEval
<1>20. CASE Evaluate
  BY <1>1, <1>20 DEF Evaluate
<1>21. CASE OffloadEval("post_evaluate", AfterPostEvaluate)
  BY <1>1, <1>21 DEF OffloadEval, AfterPostEvaluate
<1>22. CASE UNCHANGED vars
  BY <1>1, <1>22 DEF vars
<1> QED
  BY <1>2, <1>3, <1>4, <1>5, <1>6, <1>7, <1>8, <1>9, <1>10, <1>11, <1>12, <1>13, <1>14, <1>15,
     <1>16, <1>17, <1>18, <1>19, <1>20, <1>21, <1>22
     DEF Next, PolicyStep

\* What Buffered says of one policy.
Steady(p) ==
    /\ buffer[p] \in {Cleared} \cup First..version
    /\ thread[p] = "loading" => held[p] \in First..version /\ mixed[p] = FALSE
    /\ ~Told(p) => thread[p] = "await" /\ signal[p] = FALSE
    /\ epoch = 0 /\ Filled(p) => buffer[p] # Cleared
    /\ epoch = 0 /\ Told(p) /\ (done[p] = TRUE \/ thread[p] = "finish") => Loaded(p)
    /\ epoch = 0 /\ pc = "post_sync" => p \in pending
    /\ Awaited(p) => Loaded(p)

LEMMA BufferedStep == ASSUME Typed, Residence, Buffered, [Next]_vars PROVE Buffered'
<1> SUFFICES ASSUME config.strategy = "buffer", config' = config, ~Unprotected, ~Unprotected',
                    NEW p \in EvalPolicies
             PROVE  Steady(p)'
  BY EpochStep, NothingInterferes DEF Buffered, Steady, Typed
<1>1. \A q \in EvalPolicies : Steady(q)
  BY DEF Buffered, Steady
<1>2. /\ version \in Nat /\ version' \in Nat /\ version <= version' /\ First' = First
      /\ First \in {1, 3} /\ First \in Nat
  BY Newer
<1>3. /\ signal \in [EvalPolicies -> BOOLEAN] /\ done \in [EvalPolicies -> BOOLEAN]
      /\ thread \in [EvalPolicies -> {"await", "loading", "finish"}]
      /\ mixed \in [EvalPolicies -> BOOLEAN] /\ DOMAIN model = EvalPolicies
      /\ DOMAIN buffer = EvalPolicies /\ DOMAIN held = EvalPolicies
      /\ epoch \in Nat /\ config.offload = FALSE /\ config.copies = TRUE
  BY Settled DEF Typed, TypeOK, Unprotected
<1>4. ASSUME ~\E q \in EvalPolicies : PolicyStep(q)
      PROVE  Steady(p)'
  <2>1. UNCHANGED <<model, buffer, held, thread, signal, done>>
    BY <1>4, EngineSteps DEF updateVars, eventVars
  <2>2. FirstSync(p)
    BY <1>1, <1>4, FirstSyncStep DEF Steady
  <2>3. thread[p] = "loading" => mixed'[p] = mixed[p]
    <3>1. thread[p] = "loading" => held[p] # Alias
      BY <1>1, <1>2 DEF Steady, Alias
    <3> QED
      BY <1>3, <1>4, <3>1, Undisturbed
  <2>4. Loaded(p) => Loaded(p)'
    BY <1>2, <2>1 DEF Loaded
  <2> QED
    BY <1>1, <1>2, <2>1, <2>2, <2>3, <2>4 DEF Steady, FirstSync
<1>5. ASSUME NEW q \in EvalPolicies, PolicyStep(q), q # p
      PROVE  Steady(p)'
  <2>1. /\ UNCHANGED <<pc, epoch, version>>
        /\ model'[p] = model[p] /\ buffer'[p] = buffer[p] /\ held'[p] = held[p]
        /\ thread'[p] = thread[p] /\ signal'[p] = signal[p] /\ done'[p] = done[p]
        /\ mixed'[p] = mixed[p] /\ (p \in pending' <=> p \in pending)
    BY <1>3, <1>5 DEF PolicyStep, SendIpc, ClearBuffer, FillBuffer, Notify, Wait, BeginUpdate,
       EndLoad, FinishUpdate, trainVars, updateVars, eventVars
  <2> QED
    BY <1>1, <1>2, <2>1 DEF Steady, Told, Filled, Awaited, Loaded
<1>6. CASE PolicyStep(p)
  <2> USE DEF trainVars, updateVars, eventVars
  <2>1. Steady(p) /\ UNCHANGED <<pc, epoch, version>> /\ First' = First
    BY <1>1, <1>2, <1>6, PolicySteps
  <2>2. CASE SendIpc(p)
    BY <2>2 DEF SendIpc
  <2>3. CASE ClearBuffer(p)
    BY <1>3, <2>1, <2>3 DEF ClearBuffer, Steady, Told, Filled, Awaited, Loaded
  <2>4. CASE FillBuffer(p)
    <3>1. Parameters = version /\ version \in First..version /\ version # Cleared
      BY <1>2, <1>3, <2>4
         DEF FillBuffer, Residence, Everything, Parameters, Cleared, Typed, Course,
         Warming, Learning
    <3>2. buffer'[p] = version
      BY <1>3, <2>4, <3>1 DEF FillBuffer
    <3> QED
      BY <1>3, <2>1, <2>4, <3>1, <3>2 DEF FillBuffer, Steady, Told, Filled, Awaited, Loaded
  <2>5. CASE Notify(p)
    <3>1. done'[p] = FALSE /\ Told(p)' /\ Filled(p) /\ (Awaited(p)' => epoch > 0)
      BY <1>3, <2>1, <2>5 DEF Notify, Told, Filled, Awaited
    <3>2. ~Told(p) => thread'[p] # "finish"
      BY <2>1, <2>5 DEF Notify, Steady
    <3>3. epoch = 0 => ~Told(p)
      BY <1>3, <2>5 DEF Notify, Told
    <3> QED
      BY <1>3, <2>1, <2>5, <3>1, <3>2, <3>3 DEF Notify, Steady, Filled, Awaited, Loaded
  <2>6. CASE Wait(p)
    <3>1. done[p] = TRUE
      BY <1>3, <2>6 DEF Wait, Unprotected
    <3> QED
      BY <1>3, <2>1, <2>6, <3>1 DEF Wait, Steady, Told, Filled, Awaited, Loaded
  <2>7. CASE BeginUpdate(p)
    <3>1. /\ Told(p) /\ (Told(p)' <=> Told(p))
          /\ (Filled(p)' <=> Filled(p)) /\ (Awaited(p)' <=> Awaited(p))
      BY <2>1, <2>7 DEF BeginUpdate, Steady, Told, Filled, Awaited
    <3>2. thread'[p] = "loading" => held'[p] \in First..version /\ mixed'[p] = FALSE
      BY <1>3, <2>1, <2>7 DEF BeginUpdate, Steady
    <3>3. thread'[p] = "finish" => Loaded(p)
      BY <1>3, <2>1, <2>7, <3>1 DEF BeginUpdate, Steady, Told, Filled, Awaited
    <3> QED
      BY <1>3, <2>1, <2>7, <3>1, <3>2, <3>3 DEF BeginUpdate, Steady, Loaded
  <2>8. CASE EndLoad(p)
    <3>1. held[p] \in First..version /\ mixed[p] = FALSE /\ held[p] # Alias
      BY <1>2, <2>1, <2>8 DEF EndLoad, Steady, Alias
    <3>2. model'[p] = held[p]
      BY <1>3, <2>8, <3>1 DEF EndLoad
    <3>3. Loaded(p)' /\ thread'[p] = "finish"
      BY <1>3, <2>1, <2>8, <3>1, <3>2 DEF EndLoad, Loaded
    <3> QED
      BY <1>3, <2>1, <2>8, <3>3 DEF EndLoad, Steady, Told, Filled, Awaited
  <2>9. CASE FinishUpdate(p)
    BY <1>3, <2>1, <2>9 DEF FinishUpdate, Steady, Told, Filled, Awaited, Loaded
  <2> QED
    BY <1>6, <2>2, <2>3, <2>4, <2>5, <2>6, <2>7, <2>8, <2>9 DEF PolicyStep
<1> QED
  BY <1>4, <1>5, <1>6

LEMMA BufferedInit == Init => Buffered
BY Settled DEF Init, Buffered, Told, Filled, Awaited, Cleared

-----------------------------------------------------------------------------
LEMMA IInvInit == Init => IInv
BY TypedInit, ResidenceInit, DataInit, DirectInit, BufferedInit DEF IInv

LEMMA IInvStep == IInv /\ [Next]_vars => IInv'
BY TypedStep, ResidenceStep, DataStep, DirectStep, BufferedStep DEF IInv

LEMMA OwnEpoch == IInv => EpochUsesItsOwn
<1> SUFFICES ASSUME IInv PROVE RolloutsUseWhole /\ TrainsOnOwnRollouts
  BY DEF EpochUsesItsOwn
<1>1. /\ config.strategy \in {"None", "buffer"} /\ config.warm \in BOOLEAN /\ epoch \in Nat
      /\ pc \in {"rollout", "evaluate"} => epoch > 0
  BY Settled DEF IInv, Typed, TypeOK, Course, Warming, Starting
<1>2. TrainsOnOwnRollouts
  BY DEF IInv, Data, TrainsOnOwnRollouts
<1>3. ASSUME pc \in {"rollout", "evaluate"}, NEW p \in EvalPolicies
      PROVE  IF config.strategy = "None" THEN model[p] = version \/ SentOffloaded
             ELSE model[p] \in First..version \/ Unprotected
  <2>1. CASE config.strategy = "None"
    BY <1>1, <1>3, <2>1 DEF IInv, Direct, Unsynced, SentOffloaded
  <2>2. CASE config.strategy = "buffer"
    BY <1>1, <1>3, <2>2 DEF IInv, Buffered, Awaited, Loaded
  <2> QED
    BY <1>1, <2>1, <2>2
<1> QED
  BY <1>2, <1>3 DEF RolloutsUseWhole

\* What an epoch rolls out with is the outcome of a training step (the newest, or any since
\* the first unless the strategy protects nothing), and it trains on its own rollout.
THEOREM EpochsUseTheirOwn == Spec => []EpochUsesItsOwn
BY IInvInit, IInvStep, OwnEpoch, PTL DEF Spec
=============================================================================
