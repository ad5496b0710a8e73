------------------------- MODULE TrainingPipeline -------------------------
(***************************************************************************)
(* What the asynchronous engine promises, whatever its threads and events  *)
(* do: a data set is prepared, one training step consumes it, the weights  *)
(* that step produced are pushed to the evaluation policies, and the next  *)
(* step starts only from a fresh data set and with its predecessor's       *)
(* weights pushed.  Preparing the next data set and pushing the weights    *)
(* may overlap each other, but neither overlaps a training step.           *)
(***************************************************************************)
EXTENDS Integers

CONSTANT MaxEpochs      \* training steps the run was configured for

VARIABLES
    training,   \* "idle" or "running": is a training step under way
    trained,    \* training steps completed, the version of the train weights
    datasets,   \* data sets handed to the train policy
    pushed      \* version of the weights last sent to the eval policies

pipelineVars == <<training, trained, datasets, pushed>>

PipelineInit ==
    /\ training = "idle"
    /\ trained = 0
    /\ datasets = 0
    /\ pushed = 0

PrepareDataset ==
    /\ training = "idle"
    /\ datasets = trained
    /\ datasets' = datasets + 1
    /\ UNCHANGED <<training, trained, pushed>>

BeginTrain ==
    /\ training = "idle"
    /\ trained < MaxEpochs
    /\ datasets = trained + 1
    /\ pushed = trained
    /\ training' = "running"
    /\ UNCHANGED <<trained, datasets, pushed>>

EndTrain ==
    /\ training = "running"
    /\ training' = "idle"
    /\ trained' = trained + 1
    /\ UNCHANGED <<datasets, pushed>>

\* The step raised: nothing was produced and the run is about to stop.
AbortTrain ==
    /\ training = "running"
    /\ training' = "idle"
    /\ UNCHANGED <<trained, datasets, pushed>>

PushWeights ==
    /\ training = "idle"
    /\ pushed = trained - 1
    /\ pushed' = trained
    /\ UNCHANGED <<training, trained, datasets>>

PipelineNext ==
    \/ PrepareDataset
    \/ BeginTrain
    \/ EndTrain
    \/ AbortTrain
    \/ PushWeights

PipelineSpec == PipelineInit /\ [][PipelineNext]_pipelineVars

=============================================================================
