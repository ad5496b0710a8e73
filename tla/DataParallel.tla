---------------------------- MODULE DataParallel ----------------------------
(***************************************************************************)
(* From the placement of workers to gradient steps: EpisodeTable deals the *)
(* environments and the train workers out to the storages that Placement   *)
(* put on nodes (buffer/utils/table.py), DataBuffer.sample splits what each *)
(* storage holds among its train workers (buffer/base_buffer.py), and the  *)
(* train workers average their gradients over what they were given         *)
(* (policy/vla_policy/ppo_policy.py), all of them in every step.           *)
(*                                                                         *)
(* Train worker w + 1 of the model is worker w of the code, and so are     *)
(* environments and storages.  One data set is drawn and trained on.       *)
(***************************************************************************)
EXTENDS Placement

CONSTANT Setups     \* the setups tried with each request: [Requests -> SUBSET Setup]

\* batch = 0 is no batch size; every environment has stored rows rows.
Setup == [sharded : BOOLEAN, nearEnvs : BOOLEAN, nearTrainers : BOOLEAN,
          buffer : {"ReplayBuffer", "RolloutBuffer"},
          sampler : {"all", "uniform", "batch"}, batch : Nat, dropLast : BOOLEAN,
          rows : Nat, mini : Nat, micro : Nat \ {0}, epochs : Nat]

ASSUME SetupsAssumption == \A r \in Requests : \A s \in Setups[r] : s \in Setup

VARIABLES
    setup,          \* the configuration of the buffer and of the training step
    stage,          \* "none", "sample", "train", or "refused"
    shardOf,        \* _env_to_storage
    workersOf,      \* _storage_to_train_workers of the table
    given,          \* the storage and the drawn rows that each train worker receives
    entered,        \* collective operations that each train worker has entered
    status          \* what became of each train worker's train()

dpVars == <<setup, stage, shardOf, workersOf, given, entered, status>>
allVars == <<vars, dpVars>>

Trainers == 1..request.workers["train"]
Envs == 1..request.workers["env"]

DPInit ==
    /\ Init
    /\ setup = <<>> /\ stage = "none"
    /\ shardOf = <<>> /\ workersOf = <<>> /\ given = <<>>
    /\ entered = [w \in Trainers |-> 0]
    /\ status = [w \in Trainers |-> "idle"]

----------------------------------------------------------------------------
\* The episode table.

Storages(s) == 1..(IF s.sharded THEN Len(storage) ELSE 1)

WorkersOn(c, n) == {w \in DOMAIN location[c] : location[c][w].node = n}

\* _validate_node_worker_counts.
EvenlyServed(c) ==
    \A i, j \in DOMAIN storage :
        LET at == WorkersOn(c, storage[i].node)
        IN  at # {} /\ Cardinality(at) = Cardinality(WorkersOn(c, storage[j].node))

\* The storages on the node of environment e; on none if it was not placed.
Near(s, e) ==
    {i \in Storages(s) \cap DOMAIN storage :
        e \in DOMAIN location["env"] /\ storage[i].node = location["env"][e].node}

EnvsRefused(s) == s.nearEnvs /\ Envs # {} /\ (~EvenlyServed("env") \/ \E e \in Envs : Near(s, e) = {})

\* Mutant: the numbers of workers on the nodes are not compared.
TrainersRefusedUnlessOnNode(s) ==
    IF s.nearTrainers
    THEN \E i \in DOMAIN storage :
            WorkersOn("train", storage[i].node) = {} \/ i \notin Storages(s)
    ELSE Trainers = {} \/ Cardinality(Trainers) % Cardinality(Storages(s)) # 0

TrainersRefused(s) ==
    IF s.nearTrainers
    THEN ~EvenlyServed("train") \/ DOMAIN storage # Storages(s)
    ELSE Trainers = {} \/ Cardinality(Trainers) % Cardinality(Storages(s)) # 0

\* Without affinity, environments are dealt out in turn.
StorageOfEnv(s, e) ==
    IF s.nearEnvs THEN CHOOSE i \in Near(s, e) : TRUE
    ELSE 1 + ((e - 1) % Cardinality(Storages(s)))

TrainersOf(s, i) ==
    LET share == Cardinality(Trainers) \div Cardinality(Storages(s))
    IN  IF s.nearTrainers THEN WorkersOn("train", storage[i].node)
        ELSE ((i - 1) * share + 1)..(i * share)

\* init_storage_table, when the workers are placed.
BuildTable ==
    /\ stage = "none" /\ phase = "done"
    /\ \E s \in Setups[request] :
        /\ setup' = s
        /\ IF Storages(s) = {} \/ EnvsRefused(s) \/ TrainersRefused(s)
           THEN stage' = "refused" /\ UNCHANGED <<shardOf, workersOf>>
           ELSE /\ stage' = "sample"
                /\ shardOf' = [e \in Envs |-> StorageOfEnv(s, e)]
                /\ workersOf' = [i \in Storages(s) |-> TrainersOf(s, i)]
    /\ UNCHANGED <<vars, given, entered, status>>

----------------------------------------------------------------------------
\* The sample.

SizeOf(i) == setup.rows * Cardinality({e \in Envs : shardOf[e] = i})
TotalSize == Sum([i \in Storages(setup) |-> SizeOf(i)])

\* How many indices a storage draws.
Drawn(i) ==
    IF setup.sampler = "all" THEN SizeOf(i)
    ELSE setup.batch \div Cardinality(Storages(setup))

TooFewRows == setup.batch > TotalSize /\ (setup.buffer = "ReplayBuffer" \/ setup.sampler # "all")

\* Drawing without a batch size, from nothing, or without replacement from too little.
CannotDraw(i) ==
    /\ setup.sampler # "all"
    /\ \/ setup.batch = 0
       \/ Drawn(i) > 0 /\ SizeOf(i) = 0
       \/ setup.sampler = "batch" /\ Drawn(i) > SizeOf(i)

\* Mutant: shards of different sizes are accepted.
RefusedIfTooFew == TooFewRows \/ \E i \in Storages(setup) : CannotDraw(i)

SampleRefused ==
    \/ TooFewRows
    \/ \E i, j \in Storages(setup) : SizeOf(i) # SizeOf(j)
    \/ \E i \in Storages(setup) : CannotDraw(i)

\* How many are missing to an even split, and how many are there to be repeated.
Missing(n, world) == (world - (n % world)) % world
Padding(n, world) == Smaller(Missing(n, world), n)

\* The indices that are split: cut to a multiple of the workers, or the first repeated.
SplitLength(n, world) ==
    IF setup.dropLast THEN n - (n % world) ELSE n + Padding(n, world)

Rank(w, i) == Cardinality({v \in workersOf[i] : v < w})

\* Mutant: every worker takes what follows the worker before it, by the even share.
RowsBlockwise(w, i) ==
    LET world == Cardinality(workersOf[i])
        share == (Drawn(i) + world - 1) \div world
    IN  {p \in 1..Drawn(i) : (p - 1) \div share = Rank(w, i)}

\* indices[local_rank::world_size], as places in what was drawn: a padding index
\* repeats an earlier one.
RowsFor(w, i) ==
    LET n == Drawn(i)
        world == Cardinality(workersOf[i])
    IN  {1 + ((p - 1) % n) : p \in {q \in 1..SplitLength(n, world) : (q - 1) % world = Rank(w, i)}}

StorageOfTrainer(w) == CHOOSE i \in DOMAIN workersOf : w \in workersOf[i]

\* sample and update_dataset: one data set for every train worker.
Sample ==
    /\ stage = "sample"
    /\ IF SampleRefused
       THEN stage' = "refused" /\ UNCHANGED <<given, status>>
       ELSE /\ stage' = "train"
            /\ given' = [w \in UNION Range(workersOf) |->
                   [storage |-> StorageOfTrainer(w), rows |-> RowsFor(w, StorageOfTrainer(w))]]
            /\ status' = [w \in Trainers |-> "trains"]
    /\ UNCHANGED <<vars, setup, shardOf, workersOf, entered>>

----------------------------------------------------------------------------
\* The training step.

MiniPerRank == setup.mini \div Cardinality(Trainers)
Minibatches(w) == Cardinality(given[w].rows) \div MiniPerRank

\* A division by zero, an empty data set, or a minibatch that cannot be cut up.
CannotTrain(w) ==
    MiniPerRank = 0 \/ Minibatches(w) = 0 \/ MiniPerRank % setup.micro # 0

\* One average of the gradients for each backward pass, and one of the metrics.
Collectives(w) == setup.epochs * Minibatches(w) * (MiniPerRank \div setup.micro) + 1

\* All workers have entered the operation that w is in.
Met(w) == \A v \in Trainers : entered[v] >= entered[w]

Enter(w) ==
    /\ status[w] = "trains" /\ ~CannotTrain(w)
    /\ Met(w) /\ entered[w] < Collectives(w)
    /\ entered' = [entered EXCEPT ![w] = @ + 1]
    /\ UNCHANGED <<vars, setup, stage, shardOf, workersOf, given, status>>

Return(w) ==
    /\ status[w] = "trains" /\ ~CannotTrain(w)
    /\ Met(w) /\ entered[w] = Collectives(w)
    /\ status' = [status EXCEPT ![w] = "trained"]
    /\ UNCHANGED <<vars, setup, stage, shardOf, workersOf, given, entered>>

Raise(w) ==
    /\ status[w] = "trains" /\ CannotTrain(w)
    /\ status' = [status EXCEPT ![w] = "raised"]
    /\ UNCHANGED <<vars, setup, stage, shardOf, workersOf, given, entered>>

Train(w) == Enter(w) \/ Return(w) \/ Raise(w)

Place == stage = "none" /\ Next /\ UNCHANGED dpVars

DPNext ==
    \/ Place
    \/ BuildTable
    \/ Sample
    \/ \E w \in Trainers : Train(w)

\* Every train worker runs unless it waits.
DPSpec ==
    /\ DPInit /\ [][DPNext]_allVars
    /\ \A w \in 1..Max({r.workers["train"] : r \in Requests}) :
           WF_allVars(w \in Trainers /\ Train(w))

----------------------------------------------------------------------------
\* Properties.

\* Tables map to storages and to train workers, data sets to rows that were drawn.
DPTypeOK ==
    /\ TypeOK
    /\ stage \in {"none", "sample", "train", "refused"}
    /\ stage \in {"sample", "train"} =>
        /\ setup \in Setups[request]
        /\ shardOf \in [Envs -> Storages(setup)]
        /\ workersOf \in [Storages(setup) -> SUBSET Trainers]
    /\ stage = "train" =>
        \A w \in DOMAIN given :
            given[w].storage \in Storages(setup) /\ given[w].rows \subseteq 1..Drawn(given[w].storage)
    /\ entered \in [Trainers -> Nat]
    /\ status \in [Trainers -> {"idle", "trains", "trained", "raised"}]

\* Repeating what was drawn once is not enough: fewer were drawn than are missing.
PadsShort ==
    /\ ~setup.dropLast
    /\ \E i \in Storages(setup) : Missing(Drawn(i), Cardinality(workersOf[i])) > Drawn(i)

\* "Evenly split data across workers": every train worker has a data set, all of one
\* size, no row is in two of them (but those that pad the split), fewer rows are left
\* over than a storage has workers, and none if it pads.  With affinity on both sides
\* a worker is given only what the environments of its own node have made.
SplitEvenly ==
    stage = "train" =>
        /\ DOMAIN given = Trainers
        /\ ~PadsShort =>
            \A v, w \in Trainers : Cardinality(given[v].rows) = Cardinality(given[w].rows)
        /\ \A i \in Storages(setup) :
            LET served == {w \in Trainers : given[w].storage = i}
                used == UNION {given[w].rows : w \in served}
                shared == {p \in used : Cardinality({w \in served : p \in given[w].rows}) > 1}
            IN  /\ setup.dropLast => shared = {} /\ Drawn(i) - Cardinality(used) < Cardinality(served)
                /\ ~setup.dropLast =>
                    used = 1..Drawn(i) /\ Cardinality(shared) < Cardinality(served)
        /\ setup.nearEnvs /\ setup.nearTrainers =>
            \A w \in Trainers, e \in Envs :
                shardOf[e] = given[w].storage =>
                    location["env"][e].node = location["train"][w].node

\* The train workers, who wait for one another in every backward pass and for the
\* metrics, come to an end together, unless a split was padded short: all return or
\* all raise.
TrainingEnds ==
    (stage = "train" /\ ~PadsShort) ~>
        \/ \A w \in Trainers : status[w] = "trained"
        \/ \A w \in Trainers : status[w] = "raised"
=============================================================================
