# RLightning: a verification development

RLightning (`src/rlightning`) is a reinforcement-learning framework. An *engine*
drives three groups of workers: an *environment group* steps simulators (in
process, as Ray actors, or behind a ZMQ server), a *policy group* holds train
policies and evaluation policies and moves weights from the former to the
latter, and a *data buffer* stores what rollouts produce and hands batches to the
training step. This directory holds TLA+ modules of the parts whose correctness
depends on ordering, sharing and counting, TLC runs over small instances, and
proofs checked by TLAPS. Paths below are relative to `src/rlightning`.

## 1. Inventory of the system

### How the parts interact

```
            rollout_batch                    step / collect_async
 PolicyGroup <-------------- Engine ------------------------------> EnvGroup
  train policies                | add_transition, truncate,            envs, ZMQ servers
  eval policies + weight        | sample, clear
  buffer + update thread        v
       ^                    DataBuffer -> Storage shards -> DataContainer
       |  update_dataset        |
       +------------------------+
```

Every call from an engine to a group goes through a `TaskSubmitter`: a plain
method call for a local object, an actor call for a remote one. The calls of one
caller to one actor run in order; a synchronous actor runs one at a time, an
asynchronous evaluation policy interleaves coroutines. In one process the engine's
threads call the same objects without a lock.

### Components

| Component (source) | State | Operations | What is hard | What makes it correct |
|---|---|---|---|---|
| **Async engine** (`engine/async_rl_engine.py`, `engine/base_engine.py`) | five events, four worker threads, the epoch | `start`, `stop`, `wait_for_*`, `notify_*`, rollout / data set / train / weights loops, `run` | wait and clear are two steps; `start` runs beside the loops; stopping; a worker that dies | a training step is alone with the train policy, uses a data set of its own and follows the push of the previous weights; what is used is on its device; the run ends |
| **Sync engines** (`engine/sync_rl_engine.py`, `rsl_rl_engine.py`, `async_rsl_rl_engine.py`) | the epoch, the batch of returns, step counts | `warm_up`, `rollout`, `update_dataset`, `train`, `run` | steps, stores and truncations of many environments in one loop; weights that are notified but not waited for | every episode is stored whole and once; every rollout ends; evaluation uses the weights that were just trained |
| **Eval policy, sync mode** (`policy/base_policy.py`, `weights/weight_buffer.py`) | three events, weight buffer, model | `rollout`, `postprocess`, `check_idle`, `recv_weights`, `notify_update_weights`, `wait_for_weight_update_done`, update thread | a gate made of two calls; signals that are erased; exceptions that skip a hook | the gate is never lost, requests are answered, a wait that succeeds means the weights are loaded |
| **Eval policy, async mode** (`policy/base_policy.py`) | admission event, request counter, condition, event loop | `rollout` coroutines, update thread | callbacks scheduled from another thread; lost wake-ups | the counter is exact, requests and updates take turns, no load under a request |
| **Policy group, routers** (`policy/policy_group.py`, `policy/utils/router.py`) | policies, transfer plan, idle queue | `rollout_batch`, `update_dataset`, `train`, `send_weights`, `sync_weights`, offload/reload | choice of an idle policy by several threads | each request goes to one policy, evenly or to an idle one; every eval policy is in one transfer |
| **Weight transfer** (`weights/`, `utils/distributed/`) | transfer plan, buffers, communication groups | plan, form groups, send, broadcast, receive | collective calls that must meet in one group; nodes dealt out to nodes, then to policies; buffers that alias live parameters | every sync ends and leaves the current weights with every eval policy |
| **Row container** (`buffer/utils/storage.py`, `DataContainer`) | ring of rows, pointer, size, interval registry, use counters | `push`, `__getitem__`, `clear` | wraps, splits, evictions, items larger than the ring, refusals half-way | episodes stay whole, the youngest survive, no unwritten row is read |
| **Storage shard** (`Storage`, `ActiveEpisodeBuffer`) | open episodes and done flags per environment | `add_transition`, `add_data_async`, `truncate_*`, `pop_done_episode` | an episode that ends and is truncated in one step; halves of a transition that arrive separately | each transition is in one stored episode, in order |
| **Data buffer** (`buffer/base_buffer.py`, `rollout_buffer.py`, `replay_buffer.py`, `buffer/utils/table.py`, `sampler.py`) | shards, table of environments and workers | `sample`, `clear`, `init_storage_table` | size, indices and rows are separate calls beside a producer | every sampled index selects the episode it was drawn for |
| **Environment group** (`env/env_group.py`) | pending futures, step counter | `reset`, `step`, `step_async`, `collect_async`, `auto_reset` | resets that replace steps; results that come out of order | one result per step; truncation exactly at the limit |
| **Remote environment** (`env/env_server.py`, `env/remote_env/`) | two queues, two threads, clients | `connect`, `run`, `reset`, `step_async`, `collect_async`, `close` | bounded queues, closing, clients that leave and come back | a response reaches the client whose observation it answers; nobody waits for ever |
| **Task submitter** (`utils/ray/task_submitter.py`) | pending calls per actor | `submit` | a lock held while waiting | at most the bound is pending |
| **Placement** (`utils/placement/`) | resource pools, bundles | validate, plan, pack, verify | index arithmetic, remainders carried from node to node | no GPU is given twice, and a request that was validated is placed |
| **Simulator wrappers** (`env/maniskill_env.py`, `libero_env.py`, `base_env.py`) | metrics, tasks and settings of each simulator, recorded episodes | `reset`, `step`, automatic restarts, `get_env_stats`, `apply_evaluate_cfg` | chunks that go on after an end; restarts of some simulators; tensors reused in place | what is recorded of an episode is what the engine saw of it; every simulator runs the task its description names |
| **Start-up, types, logging, models, humanoid tools** | | | | outside this development (section 8) |

The hazards of each are listed in `PROJECT.json` at the line where they bite,
with the properties that cover them.

## 2. Plan

| | Module | Composes | Abstract specification | State |
|---|---|---|---|---|
| A | `AsyncRLEngine`, `AsyncCoordinator` | engine threads, events, and their effect on buffer and policies | `TrainingPipeline` | modelled, checked, proved |
| B | `EvalPolicy` | rollout threads, sender, updater, weight buffer | | modelled, checked, safety proved |
| C | `AsyncEvalPolicy` | event loop, coroutines, updater | | modelled, checked, safety proved |
| D | `DataContainer` | | `EpisodeWindow` | modelled, checked, safety and refinement proved |
| E | `Rollout` | `EnvGroup` (over `Environments`) and `DataBuffer`, by the engines' rollout loops and the sampler | | modelled, checked, proved but for what a sample between rollouts finds |
| F | `EnvServer` | clients, sockets, server threads, queues, driver | | modelled, checked, safety proved |
| G | `Dispatch` | routers, task submitter, actors | | modelled, checked, safety proved |
| H | `Placement` | planner and packing, saving and loading of the pools | | modelled, checked, safety proved |
| I | `WeightTransfer` | `TransferPlan`, `CommGroups` (forming the groups) and the syncs | | modelled, checked, safety proved |
| J | `SyncRLEngine` | the engine's statements, warm-up, evaluation, checkpoints, offloading, update threads | | modelled, checked, safety proved |
| K | `AutoResetEnv` | one worker of `ManiskillEnv` or `LiberoEnv` and its statistics | | modelled, checked, safety proved |
| L | `DataParallel` | H's placement with the episode table, the sampler and the training step of several train workers | | modelled, checked, safety proved |

The modules are written to be proved about as well as checked: one action per
operation, invariants as named conjuncts, no recursive operators. Section 6 says what
is proved, section 7 what is left to TLC.

## 3. The modules and the code

### A. `AsyncRLEngine` (with `AsyncCoordinator`, `TrainingPipeline`)

`pc[t]` is the statement that thread `t` is about to execute. `signalled` is the
set of events that are set; `wait()` and `clear()` of one `wait_for_*` are two
steps, and so are the five statements of `start()` and of `stop()`, because
another thread can run between any two of them. `rows` is `buffer.size()`; a
rollout iteration adds some number of rows. `trained`, `datasets` and `pushed`
count training steps, data sets handed over and the version of the weights last
sent. `resident` is what the offload hooks of `base_engine.py` have left on the
device. `Raise(t)` is an exception of any call into the environments, the buffer
or the policies: it ends the thread, and in the training thread runs the `finally`
clause with `stop()`. `SampleFails` is the `ValueError` of a sample from too
small a buffer, which happens when the engine is stopped while waiting for data.

`TrainingPipeline` is what a user relies on: a data set is prepared, one step
consumes it, the weights it made are pushed before the next step; preparation
and pushing may overlap one another but no training step.

### B. `EvalPolicy`

One evaluation policy in mode `sync`. `Roller` threads call `rollout`, `Sender`
receives weights, is notified and waits; `Updater` is the thread of
`update_weights()`. A remote policy has one thread for all calls (the sender is
the roller), a local one is called by two threads of the engine. `idleAsInfer`, `signal`
and `done` are the three events. A blocked `wait()` returns once the event was
set, even if it has been cleared meanwhile, as `threading.Event` does; hence
`Awake`, which moves the blocked threads when the event is set. The weight buffer
is a version and a ready flag, written in four assignments, because `clear()`
takes no lock. Loading an empty dictionary leaves the weights as they are.
`RolloutRaises` leaves the gate closed (`_rollout` re-raises before the post
hook), `LoadRaises` does not (`finally`).

### C. `AsyncEvalPolicy`

One policy in mode `async`. The queue `ready` is the event loop's: coroutines that
can go on, and callbacks that other threads scheduled. A request starts, waits for
admission, is counted, infers, is uncounted. `notify_update_weights` and
`wait_for_weight_update_done` are plain methods and run in the loop too: a notification
clears `done` (`RunNotify`) and then sets the signal (`RunSignal`), and the update thread may
run between the two; a wait blocks
the loop (`awaited`) until the update is done or the wait times out. The updater closes the gate by a
callback, waits on the condition until nothing is counted, loads, opens the gate
by another callback. A request that was woken goes on whatever the event's value
is by then.

### D. `DataContainer` (with `EpisodeWindow`)

One container, its mode and unit chosen at the start. A row is represented by its
number in order of arrival, so properties can tell which row is where. An item is
`n` episodes of `len` rows. Each path through `push` is an action: the item fits
(`PutNext`), an episode goes to the start early (`WrapEpisode`), transitions are
split (`WrapTransitions`), the item exceeds the ring (`Replace`), the mode refuses
it (`Refuse`), it has no rows (`PutEmpty`: an episode of one transition is
postprocessed to none, and the interval tree refuses an empty interval). A list is
pushed item by item and what follows a refused item is lost. `Read` is
`__getitem__` for any set of valid indices; repeated indices are left out. The
container is an actor's, or is called by one thread: reads happen between pushes
only. `log`, `rows`, `reads` and `biggest` are history and guard nothing but the
bounds.

`EpisodeWindow` says what is held: the youngest episodes, for some cut-off that
only pushes and clears move.

### E. `Rollout` (with `Environments`, `EnvGroup`, `DataBuffer`)

Three rollout loops over the same groups: `SyncRLEngine` (all environments step
together, stops at the maximum), `RSLRLEngine` (whoever has answered steps on, a
fixed number of steps for each) and `AsyncRLEngine` (the same without an end, while
another thread samples). The first rolls out `rollout_epoch` times, each from a reset, before it
samples; `round` counts them. `loop` says which; `pc` is the next call of the rollout
thread. `Environments` is what a simulator is: a return is who made it, after how
many resets and steps, and which sub-environments it ended. `EnvGroup` is
`env_group.py`: `task` and `result` are the futures, `counter` is `EnvStepCounter`,
`TruncationsOf` is what `get_truncations` yields with a batch. `DataBuffer` is the
front end and the shards: `mailbox[s]` is the queue of calls of shard `s`, an actor;
`active` are the open episodes of `ActiveEpisodeBuffer` by environment and
sub-environment, and a call that raises half-way leaves its environment in `torn`; `stored[s]` the pushed episodes, whole because D shows what the ring
does to them. `LengthOf` is the length that a container reports: an episode that is not split by
sub-environment is flattened by `pop` and counts once for each of them (`SubEpisodes`), in rows or, in
unit `episode`, in intervals. `shardOf` is `EpisodeTable` without node affinity (L has it). Sampling is a second
program counter `spc`: sizes of the shards one after the other, refusal when they
differ, `__getitem__` of all rows, `clear`. The sizes that `clear()` reads itself are
logged only and are left out. With the synchronous loops the rollout thread does the
sampling, in the asynchronous one the data set thread does.

### F. `EnvServer`

One `RemoteEnvServer` and its clients. `receiver` and `sender` are the program counters
of the two threads, `returnQueue` and `sendQueue` the two bounded queues, `toServer` and
`toClient` the ZMQ connections, `actor` the driver that calls `collect_async`,
`step_async` and `close`. A message is `<<client, number>>`. A client may leave and
reconnect with the same identity; what was on its connection is then dropped or, if it
is still in the server, arrives as an answer to another run (`late`). The end of a run,
`is_finish`, is a number of steps.

### G. `Dispatch`

`rollout_batch` with each router. `Nodes` and `PoliciesOn` are `_node_to_eval_policies`;
`EvalPolicies` lists all policies in order. `todo` is what the thread pool has not taken,
`thread[t]` a worker of the pool, `lock` the submitter's, `queue[p]` the calls an actor has
not finished, `pending[p]` what the submitter remembers of them, `idle` the deque of
`SyncSimpleRouter`, `turns` the round-robin counters, `loads` what the asynchronous router
read. The lock is held from looking at the pending tasks over waiting for one of them to
the append, as in the code.

### H. `Placement`

One run of the planner on a cluster (`gpus[n]`) for a request (workers of each component
and the parts of a GPU one of them needs). `Parts` is the unit of fractions. `phase` goes
through validation, the loops over nodes of `_plan_disaggregate_pools` or
`_plan_colocate_pools`, and packing, one node per step; `remaining` is carried from node to
node. `slice[n][c]` are the GPUs that `NodeResource.allocate` gave to a component, `bundles` the
bundles that are left when the empty ones are removed, `location` the bundle index that was
recorded for a worker. A request with a fraction of a GPU below one gets no slice: the code
does not track it and leaves it to the default placement, and so does the model (`Tracked`).

The automatic mode saves its pools for a later run. `Reload` is that run, in manual mode, on
the same cluster: `SavedPool` counts the GPUs of a component through the nodes of its pool,
`LoadedSlice` cuts the numbers up again over the nodes that the pool takes now. `order` is the order
of the node ids, which is not the one of the planner, and `planned` remembers where the
first run had put the workers, for `ReloadedAsPlanned` only.

### I. `TransferPlan`, `CommGroups`, `WeightTransfer`

`TransferPlan` has the placement of policies on nodes and the transfers made of it (`TransfersOf`,
one for each receiving node, senders in turn; `Pairs` for colocated policies). `InOrder` is
the order in which the code goes through nodes: ascending.

`CommGroups` is `init_comm_group` and the barrier of `init_train`. `script` lists what the driver
has the policies do, one call of each policy per step: `init_process_group`, the groups of
the nodes, of the transfers and of the train policies, with barriers between. `Submit` takes a step of it when the
answers that the driver waits for are there: those of `ray.get(ref)`, or only
those of `get_rank`, which a policy gives after the calls it got before (`AwaitedBefore`).
`calls` are the mailboxes, `Enter` is a policy reaching its collective call and `Meet` the end of it:
`dist.new_group` waits for every policy, members or not. `group[p][m]` is the one group
`CommContext` keeps for a mode, named by the step that formed it. `evalFirst` stands for the
order of the GPU ids, by which the policies of a node are ranked. `GroupsFit` says what
all this is for: every policy has the groups it is a member of, and its GPU to itself.

`WeightTransfer` forms the groups and then runs syncs. An actor executes
its calls in order (`tasks`); `Send` calls the receivers and joins the broadcast, a
broadcast is over when every member of the group has joined it (one of them stands for the one
per data type, which come in the same order everywhere), `SendEnds` is `ray.get(refs)`. `holds` is
the version in each buffer: one per policy, per node with strategy `Shared`, and with
`None` the model itself. `sync_weights` ends with the notification; what a policy does with it is B.

### J. `SyncRLEngine`

One engine from `__init__` to its last checkpoint. `pc` is the engine's statement, the hooks of
`base_engine.py` among them; a statement that calls every evaluation policy (`pending`) is one
step per policy. `config` holds the settings the order depends on. Parameters are numbers:
`version` are those of the train policies, `model[p]` what a policy infers with, `buffer[p]` what a
sync left for it, `held[p]` the state dict its update thread took from there. A buffer may hold the
trainer's own tensors (`Alias`), which a training step or an offload changes under the load
(`mixed`); parameters that are read while offloaded are `Garbage`. `resident` is what is on its
device, `rows` and `dataset` the epochs whose rollouts the data buffer and the train policies
hold. The gate in front of a policy is B's and the way of the weights is I's: here a rollout is
one step, a send one step per policy, and a load two. An exception ends the run and is left out.
`SentOffloaded` and `Unprotected` name the settings in which the code does not keep its promise.

### K. `AutoResetEnv`

One environment worker with several simulators that are restarted one by one, under the calls
of `rollout()` and `evaluate()`: `Begin` (with `apply_evaluate_cfg`), `Reset`, `StepChunk`, `EndRollout`,
`Stats` (with `finish_rollout` and `restore_evaluate_cfg`). `config.backend` says which class; the two
have the same structure and differ in chunks, copies and tasks. What a simulator does in a step
is one bit: success, which is worth a reward and ends the episode. A chunk is a fold of `Advance`
over its outcomes, since LiberoEnv goes on with a chunk after an end. `ids`, `descriptions` and
`simulator` are the three places where LiberoEnv keeps the task of a simulator. `truth` is the
episode as the engine saw it, from the rewards that were handed out, and `records` pairs it with
what the worker recorded.

### L. `DataParallel` (over `Placement`)

What the placement of H leads to. `BuildTable` is `EpisodeTable`: environments and train workers
are dealt out to the storages, in turn and in blocks or by the node they are on, or the table is
refused. `Sample` is `DataBuffer.sample` with each sampler: `Drawn` is how many indices a storage
draws, `RowsFor` the places `local_rank::world_size` of them, after the cut or the padding. `Train` is the training
step of the train workers, each alone until it enters a collective operation: `entered[w]` counts
them, one for every backward pass and one for the metrics, and nobody leaves an operation before
all are in it (`Met`). A worker that raises enters none.

## 4. Runs

| Run | Question | Instance | Result |
|---|---|---|---|
| `async_engine` | Do the events keep the threads apart, and the models where they are used? Do the threads implement the pipeline? Does the run end? | 3 epochs, batch 2, capacity 3, offloading, checkpoint every 2nd epoch, the rollout and data threads may raise | holds: unless the first announcement is lost or a worker raises, every epoch is trained; once the training thread leaves its loop, everybody ends (`RunEnds`) |
| `async_epochs` | Are the configured epochs run? | no failures | **violated**, finding 1 |
| `eval_policy` | Gate, freshness, answers and delivery of a policy used by two threads | 3 versions, rollouts and loads may raise, a wait for the first version | holds |
| `async_eval_policy` | Counter, wake-ups, gate, turns, with waits that block the loop | 2 requests, one of which may raise | holds |
| `data_container` | Whole episodes, nothing lost early, fresh reads | ring of 5, items of 1, 2 and 6 rows, pairs of 2 and of 4, empty items, lists of two | holds |
| `rollout` | Whole and paired episodes, nothing lost, samples once, all that was rolled out in a sample, samples not refused, rollouts end | 2 environments in a shard each, with two sub-environments each, 3 loops, the synchronous one with two rollouts for each sample, episodes that end by themselves, with and without `auto_truncate_episode` | holds, with the exception `Broken` names |
| `env_server` | Answers match, nobody waits for ever, close ends | 2 clients, each 2 runs | holds, with the two exceptions the properties name |
| `dispatch` | Bound on pending tasks, even shares, idle policies, complete batches | 3 policies on 2 nodes, 2 threads, 2 batches of 4, each router | holds |
| `placement` | Dedicated GPUs, no overcommitment, bound as packed, no refusal after validation; the same once more from the saved pools. Even shares of the data, and training steps that end together | 6 clusters, 437 requests, 4 strategies, every order of node ids; for 5 requests 160 setups of buffer, table and training step | holds, with the exceptions named in `RaisesOnlyIfUneven` and `PadsShort` |
| `weight_transfer` | Are all groups formed, on the right GPUs? Do syncs end, with the current weights everywhere? | all placements of up to 6 policies, at most 2 of a kind on a node, on up to 3 nodes, each strategy and both orders of GPUs, 2 syncs | groups are formed and fit the GPUs; syncs: holds where a node has a train policy for each group it sends in |
| `sync_engine` | Do rollouts use whole weights of one training step, and training steps the rollouts of their epoch? Is what is used on its device? | 2 evaluation policies, 2 epochs, every combination of strategy, copies, offloading, warm-up, kind of buffer and evaluation | holds, with the exceptions `SentOffloaded` and `Unprotected` name |
| `auto_reset_env` | Are recorded episodes those the engine saw? Does every simulator run the task it is described with? | 2 simulators, 2 tasks, 20 settings of both backends, 2 rollouts or evaluations of 2 calls | holds, with the exceptions `stale` and `RewardsLost` |

### Bounds, and why they are enough

* **A**: two epochs are the first with a predecessor whose weights must be pushed; three let a late thread of one epoch meet the next but one. A batch of 2 with growth 0, 1 or 2 makes the buffer empty, partly filled and full. `Capacity` is the code's own bound on rows.
* **B**: `MaxVersion` caps the versions sent. Three let a notification fall into an update that was itself delayed by one.
* **C**: two requests give every order of one that is admitted and one that waits. At most one notification is queued at a time (`NotifyArrives`), since further ones only set an event that is already about to be set.
* **D**: `MaxRows` = 11 over 5 rows is more than two laps, so an episode placed by an early wrap is itself evicted by a later one; `MaxReads` = 1 read tells a counter that was carried over from one that was not. The sizes are 1, 2, exactly fitting combinations, a pair that fits only alone, a single episode and a pair larger than the ring.
* **E**: `MaxSteps` = 2 makes an episode of three returns, with a first, a middle and a last one; two environments can be in different episodes and answer in any order; `BatchSize` = 3 rows are reached by one shard before the other. Two epochs (`epochs` of a configuration) bring the second rollout that meets what the first left; the loop with `auto_truncate_episode`, where a call may raise half-way, and the asynchronous one have one. Two rollouts per sample (`rollout_epoch`) let a sample find several episodes of an environment. Both environments have the same two sub-environments, so that every unsplit episode is one of two, and the shards, with one environment each, are dealt as many sub-environments (`EvenlyDealt`): otherwise the engine stops at its first sample (section 5) and there is no second epoch to look at. `SyncSampleWhole` and `EpochsComplete` are about that case; the others hold with unequal numbers as well (`SubEnvs` changed to one and two). An environment with a single sub-environment differs in that its episodes are never split and count once; the proofs include it. `MaxResets` and `MaxSamples` bound the asynchronous loop.
* **F**: two runs per client give one reconnection under the same identity. `MaxEnvs` = 4 has room for a message of every run, as 32 has for the deployments of the repository; with more clients than room `close()` may hang (section 5).
* **G**: three policies on two nodes are a node with a choice and one without; `MaxPending` = 2 is reached by batches of four; two threads race for every choice.
* **H**: quarters of a GPU give workers that fill one, that do not divide it and that share it; clusters with equal, unequal and empty nodes.
* **L**: two, three and four train workers, on one node or on both; as many environments on each node or not; fewer rows than workers and more; batches that are divided by the storages and the workers or not; one and two micro-batches.
* **I**: two train policies can share a node's transfers and one cannot; three nodes let two without train policies be dealt out to one or to two (five policies are enough for that, `MaxPolicies` is 6). Two syncs let the second meet buffers that hold the first.

* **J**: two epochs are a first and one that has a predecessor, two policies a called and a not yet called one; evaluation every second epoch gives an epoch with and one without.
* **K**: a limit of 2 lets an episode end in the last step of a rollout of 2, one of 3 lets every rollout interrupt it; chunks of 2 with a limit of 3 are truncated inside a chunk. Two rollouts bring the one that meets what the first left, two simulators the restart of one beside the other, two tasks a restart with and without another task.

Deadlock is checked in `async_epochs`, `async_eval_policy` and `data_container`. In the
others the system may stop: a dead worker may leave the others waiting, a raised
rollout may leave everybody in front of a closed gate, the number of epochs, batches,
runs or syncs is bounded, or a single plan is made. Where stopping early would be wrong, a liveness
property says so.

### Fairness, and why the code justifies it

* **A**: weak fairness of each thread: the interpreter runs a thread that is not blocked, and calls into the libraries return or raise. Strong fairness of a rollout iteration that adds rows: environments finish episodes, so iterations with nothing to add do not go on for ever. No fairness of `Raise`.
* **B**: weak fairness of the updater and of the steps of a rollout that has begun (inference ends). Strong fairness of receiving, notifying and waiting: these calls come through the same FIFO mailbox as rollouts and are not overtaken for ever. Nothing obliges a new request to come, or a wait to time out.
* **E**: weak fairness of the rollout and the sampling thread, of every environment's step and of every shard's next call: actors run. Nothing makes the trainer stop.
* **F**: weak fairness of the threads, of the clients' answers and of the driver, which steps or closes. A client need not connect. Strong fairness of receiving from each client: ZMQ serves its connections in turn.
* **G**: weak fairness of actors and threads; strong fairness of taking the lock, which is free again and again. A probe that finds an idle actor returns.
* **H**, **J** and **K** need none, having no liveness property. **L**: weak fairness of each train worker, an actor that runs unless it waits for the others. **I**: weak fairness of the next step, since every actor and the driver work until nothing is left to do.
* **C**: weak fairness of the event loop, of each inference and of the updater. Requests and notifications come as they like.

## 5. Findings

1. **A first announcement can be lost** (`engine/async_rl_engine.py:41`). `start()` runs in the training thread after the data set thread has been started, sets `ready_for_update_dataset` in its second statement and clears `dataset_ready` in its last. A data set made in between is announced on an event that is then cleared; both threads wait for each other and no epoch is trained. `RunEnds` shows that this is the only way in which the events hang a run without exceptions: it excepts nothing but a first announcement that is lost before any training step (`DatasetLost`).

### Known disagreements without a run

Each can be reproduced by adding the property to a configuration of its module.

* `WorkerExceptionReachesRun` (`AsyncRLEngine`): an exception of a worker does not reach `run()` (`engine/async_rl_engine.py:286`); `Thread.join()` does not re-raise, and `epoch_last` is saved after a failed run.
* `FreshWhenDone` (`EvalPolicy`, with `Waited <- SecondVersion`, one actor that rolls out and sends): a notification during an update is erased by the update's post hook (`policy/base_policy.py:360`), and the wait returns `True` with the new weights never loaded. With a wait for the first version only, as `SyncRLEngine.__init__` does, it cannot happen (proved). The guide (`docs/source/user_guide/core_components/policy_policygroup.rst:135`) promises two buffers in turn and "the latest complete snapshot"; the code has one, cleared while it is received.
* `Exclusive` (`EvalPolicy`): the gate's `wait()` and `clear()` are two calls and the updater and a rollout can both pass (`:344`). It still reopens (`GateNeverLost`, proved).
* `NoneInFlightDuringLoad` (`AsyncEvalPolicy`): closing the gate is only scheduled (`:348`); what the loop runs before the callback is admitted, and the load goes on beside it.
* `LenCountsStored` (`DataContainer`): in unit `transition`, a batch that is split by the end of a ring that is not yet full adds only its second part to `size` (`buffer/utils/storage.py:448`); the newest rows are stored (`NothingLostEarly`) but some cannot be read.
* `ValidatedIsPlaced` (`Placement`, with `Colocated` and `PlainRequests`): with several nodes, colocation and dedicated evaluation GPUs, `gpus_on_node` is read before the evaluation share is taken (`utils/placement/resource_pool.py:828`), and a validated request raises.

Met while modelling:

* A `fixed` container that is filled exactly wraps its pointer and overwrites on the next push instead of refusing it (`storage.py:461`; `docs/source/user_guide/configuration.rst:95` says "stop accepting new data").
* Shards of unequal length refuse every sample (`buffer/base_buffer.py:536`), and the table that is to prevent it counts environments (`buffer/utils/table.py:106`), not their sub-environments. Two shards with one environment each, of two and of one sub-environment, hold 4 rows and 2 after a rollout of two steps: the first sample of the synchronous engines raises `RuntimeError` (set `SubEnvs` so in `Rollout.cfg` and drop `EvenlyDealt`).
* With more clients than `MAX_ENVS`, `close()` of the server can wait for a receive thread that is blocked in a full queue; a collect without timeout hangs once all clients have left (`tests/integration/env/test_remote_env.py` has a FIXME on it); a client that reconnects before its last run was answered reads the old answer.
* Abandoned `check_idle` probes stay in the actors' queues; while a submission waits for one busy actor, submissions to every other one wait too, although `policy/policy_group.py:362` calls the pool concurrent across nodes; mode `async` with a separate postprocess calls a method that `SimpleRouter` does not have.
* Saved pools carry no `node_ids`, so pools on nodes of different sizes are refused when they are loaded (`utils/placement/resource_pool.py:435`), although `to_yaml_dict` keeps the sizes "for reversibility" (`:334`). A range written by hand that goes beyond the last GPU of its pool keeps `_split_global_range_by_nodes` in its loop for ever (`:394`).
* With `drop_last=False` a split is padded by `indices[:pad]`, which is too short if fewer indices were drawn than are missing (`buffer/base_buffer.py:559`); the workers' shares differ, and those that have one wait for those that raised (`PadsShort`). No engine passes it; a test (`tests/unit/test_base_buffer.py:690`) says it "pads indices to make splits even".
* A storage that is given GPUs enlarges the train slice, so bundle indices shift or a key is missing; a share is cut to whole GPUs (`int()`), so the verification at the end may raise (`RaisesOnlyIfUneven` excepts both).
* Strategy `None` without colocation has no entry "all" in the transfer information, so the first `sync_weights` raises `KeyError`; strategy `Sharded` is offered in the guide and refused by `init_weight_buffer`.
* A train policy remembers one transfer group (`utils/distributed/comm_context.py:117`): groups are kept in a dictionary by mode. One that sends to two sets of receivers broadcasts in the group formed last for both, the receivers of the other wait, and `sync_weights` does not return. Strategy `Double`, one train policy, an evaluation policy beside it and another node with an evaluation policy are enough. `SyncEnds` shows that nothing else hangs a sync.
* A sub-environment that ends by itself is popped by `add_transition`; if its step is the truncated one, `truncate_one_episode` pops it again and raises `KeyError` (`buffer/utils/storage.py:112`), and one that ends in the first step of an episode has no rows and is refused (`storage.py:673`). Either way episodes of its siblings are lost or go on across the reset (`Broken` in `Rollout`).
* With offloading and no warm-up, `__init__` offloads the parameters before the first sync, which then sends freed ones (`policy/policy_group.py:603` suspects so); later syncs do not (`SentOffloaded`).
* The weight buffer of a local policy holds the trainer's tensors (`weights/weight_transfer_manager.py:172`): the update thread may load parameters that are being trained or were offloaded. `offload_model` and `reload_model` move the evaluation model without the gate, beside a load (`Unprotected`).
* Nothing waits for an update but `SyncRLEngine.__init__`: with a weight buffer a rollout or an evaluation may use the weights of an earlier epoch.
* The RSL engine with `eval_interval` above 0 goes on from `last_batched_env_ret` although `evaluate()` has reset the environments. `EvaluationEngine.run` makes 5 rollouts where its docstring says "the configured number of episodes".
* `ManiskillEnv._calc_step_reward` returns the tensor `prev_step_reward` itself; with absolute rewards the restart of a simulator zeroes it in place, so the last reward of an episode is handed out as 0 (`env/maniskill_env.py:194`, `RewardsLost`). The examples use relative rewards. `ManiskillEnv.reset` does not call `_reset_metrics`: the return and success of an interrupted episode count for the next one (`stale`).
* `LiberoEnv` does not implement `apply_evaluate_cfg` although its configuration has an `evaluate_cfg`; `use_fixed_reset_state_ids` holds for its first reset and its automatic restarts only; without `auto_reset` it records a truncated episode again in every further chunk. Ordered reset states of several workers are dealt out of a list that each worker shuffles anew by itself, so that they overlap once one has done so.
* The checkpoint is guarded by `eval_interval` and divides by `save_interval` (`engine/sync_rl_engine.py:223`).

## 6. Proofs

All hold for every value of the constants that meets the named assumptions of the
modules: `EngineAssumption` (A), `PolicyAssumption` (B), `AsyncPolicyAssumption` (C),
`CapacityAssumption`, `ConfigAssumption`, `ItemsAssumption`, `BoundsAssumption` (D),
`EnvsAssumption`, `SubEnvsAssumption`, `MaxStepsAssumption`, `EnvOrderAssumption`, `NumShardsAssumption`,
`OwnIdAssumption`, `UnitAssumption`,
`ConfigsAssumption`, `RolloutAssumption` (E),
`ClientsAssumption`, `MaxEnvsAssumption`, `TotalStepsAssumption`, `RunsAssumption` (F),
`PoliciesAssumption`, `NodesAssumption`, `BatchAssumption`, `ThreadsAssumption`,
`MaxPendingAssumption`, `ModesAssumption`, `BatchesAssumption` (G),
`TransferPlanAssumption`, `MaxSyncsAssumption` (I), `SyncEngineAssumption` (J),
`AutoResetAssumption` (K), `PartsAssumption`, `ClustersAssumption`, `RequestsAssumption`,
`StrategiesAssumption` (H), `SetupsAssumption` (L). They give
the constants their types, let sets of actors be finite, and say that queues, rings and
episodes have room for something. `TransferPlanAssumption` also says that every node has a
policy and one of them a train policy: `placement_info` has an entry for a node
only once a policy is on it (`policy/policy_group.py:137-159`), and the plan is refused
with "No train policy found" otherwise (`:741-742`). TLC evaluates each of them in the run of its module.

**`AsyncRLEngine_proofs`.** `Exclusive` is not inductive: that the data set thread is
not loading says nothing unless one knows where the permission to load is. The
argument follows two tokens. The *data token* is at `ready_for_update_dataset`, with
the data set thread, at `dataset_ready` or with the training thread; the *weights
token* is at `ready_for_sync_weights`, with the weights thread, at
`weights_updated` or with the training thread. While the engine runs each is in one
place at most, and its place says how far `datasets` and `pushed` are from
`trained`. `stop()` sets every event and so multiplies the tokens, but only after
`done`, which every thread tests between taking a token and acting on it. Hence
`IInv == TypeOK /\ DoneInv /\ EpochInv /\ DataInv /\ WeightsInv /\ ResidentInv`, proved
to be preserved thread by thread, from which `TypeCorrect`, `MutualExclusion`,
`Residency` and, with one step per action, `Refinement` (every step is a step of
`TrainingPipeline` or a stutter) follow.

**`DataContainer_proofs`.** `TypeCorrect`, `EpisodesStayIntact`, `NewestStayAndAreRead`, and
`KeepsYoungest`, the refinement of `EpisodeWindow`, for any capacity and any items.
`EpisodesIntact` is inductive with the types. The rest is about where rows lie.
`Numbered` and `Logged` say that rows and episodes are numbered as they arrive. In unit
`transition`, `Ring` gives the row at each position by its distance from the pointer. In
unit `episode`, `Laid` says that intervals are apart, that none spans the pointer and that
those behind it are older than those in front of it, and `Tiled` that, as long as no item
exceeded the ring, there are two gaps at most, each shorter than the biggest item. So
what a push overwrites are the oldest episodes, in order, which is the step of
`EpisodeWindow`, and what is left fills the ring up to those gaps, which is
`NothingLostEarly`. `Counted` is the use counters.

**`Rollout_proofs`.** `TypeCorrect`, `WholeEpisodes` and `OneDelivery`, for any environments and
sub-environments, shards, lengths of episodes and of runs. `EpisodesWhole` relates containers to
simulators through five stations: the loop's batch, the queue of calls, the open episodes, the
containers and the samples. The invariant `IInv` follows one environment through them (`Piped`). A
*stance* is what has been done for it when a call has run: its last complete row, the return that
waits for a response, which call is next, and whether its episodes are closed. There are two stances
at a time. Stance `a`, at the shard, says what the open episodes and the containers hold
(`AtShard`: each open episode is a run of consecutive returns that ends with the last row;
`Pure`: what was pushed is whole). Stance `b`, at the front end, fits where the loop
and the simulator are (`AtFront`, with a part for each loop: `SyncFront`, `AsyncFront`,
`RslFront`), and every return up to it is kept somewhere (`PastKept`). The calls in the queue lead
from `a` to `b` (`Leads`). So a step of the rollout thread has to be shown to append calls that
lead on (`SyncRolls`, `AsyncRolls`, `RslRolls`), and a shard's step to do for the open episodes what
the call at the head of its queue says (`ExecuteKeeps`), whatever waits behind it; what a call does
for other environments of that shard is `KeepsSame`. `SamplerInv` follows the sampling
thread at each shard: the calls of one sample are in order among those of the rollout (`Line`),
a size that was told counts a prefix of what the shard holds now (`Told`), and what was
delivered is gone before the shard is asked again (`Got`). Registration, the sizes and the pops are
folds: `FoldSteps` and `Flattened` turn them into sequences, by an induction stated with a set.

`WholeEpisodes` and `OneDelivery` assume `RslUntruncated`: no configuration runs the rsl loop with
`auto_truncate_episode`. That loop starts a rollout by storing the last return of the previous one
again (`engine/rsl_rl_engine.py:86`), which a truncating buffer has pushed already if it ended an
episode; the examples of that engine set `auto_truncate_episode: false`
(`examples/wbc_tracking/conf/buffer/rollout.yaml:3`, beside `src/rlightning`). `TypeCorrect` needs
no such assumption. `OneDelivery` is the half of `SampledOnce` that holds for any
distribution, with lengths in rows or in episodes and environments of any numbers of
sub-environments: that a size which was told covers a prefix of the container, and which, rests on
`LengthAppend` and `LengthRises`. The other half, `SyncSampleWhole`, that a sample between rollouts
takes all of them and is refused only if the shards were dealt unequal numbers of
sub-environments, stays with the run.

**`EnvWorkers_proofs`**, of F: `TypeCorrect` and `ClientsAreAnswered`. A client reads the answer
to its last return because it has one message at most under way, wherever that is: on
either connection, in a thread's hands, in a queue or with the driver. `Answered`
counts: messages under way and dropped are as many as runs were begun. `Conserved` proves
for each action that it moves messages and makes none, from four lemmas on what
appending to and taking from a queue does to the number of a client's messages in it.
`Borne` says that what is under way bears the number of the client's last return, unless
it came back too early once, and `Numbered` bounds the numbers.

Of K: `WorkerTypeCorrect`, `TasksMatch` and `StatisticsAreTrue`, for any number of simulators and any
lengths of chunks, episodes and rollouts. A chunk is a fold, which is recursive: `FoldSteps` turns it
into a sequence of calls, by an induction stated with a set, and `After` says what the metrics
are after the first of them. `ChunkMade` puts that together with what is restarted and reported.
`Tracked` then ties the metrics of a simulator to the episode that the engine sees, except
for what `reset()` leaves behind (`stale`), and `LengthsCounted` the length of an episode that is not
restarted to the steps left, so that the step which records it is the only one.

**`PolicyCalls_proofs`**, of G: `TypeCorrect` and `LoadIsSpreadAndBounded`, for any nodes, policies,
threads, batches and bound. `Placed` says where each request is: with the pool, a thread,
or in one queue, once. `Remembered` says that the submitter remembers every task that an
actor has not finished, and `MaxPending` at most, because the lock is held from the
wait to the append; with an injection from the queue, that is `PendingBound`. `Spread` has
a part for each router: by turns, who was passed in this round is one request ahead of who
was not (`InTurn`); simple, what is in the deque is idle (`IdleFree`); asynchronous, who
got a request was at the top of the heap (`Level`).

Of B: `EvalTypeCorrect`. `GateCorrect`: `GateNeverLost` is inductive
together with the type invariant, since every thread that clears the gate is then
inside it, and setting it is one step with leaving. `FreshCorrect`: if the engine
waits for no version but the first, a wait returns `True` only when the newest
delivered version is loaded or a load raised. `FirstInv` says that the updater
does not move before the first notification, and that from then on until the wait
returns it is on the one round that loads version 1 (`Round`), during which `done`
is clear.

**`DataParallel_proofs`**, of H and L: `TypeCorrect`, `RaisesRarely`, `PlacedRight` and `SplitRight`, for any
nodes, requests, strategies, orders of node ids, setups and samples. The invariant of H is
`PlacementInv`. For the planner, `InLine` gives the slices of a node by three lengths, which is
what keeps components apart. `Account` is its books: the GPUs that a component was given and the parts that it still
asks for are, when whole GPUs are asked for, what it required. `ByPhase` says that a node which is passed
was left with something only if it was taken up (`Covered`); with the validated total this makes the
last node enough, which is `RaisesOnlyIfUneven`. For the packing, `PlacedBy` says how many workers of a
component are placed after k nodes, `Located` on which GPU each of them is, `Stored` and `Bundled` the storages and the
bundles, and `Used` that, without storages on GPUs, every GPU given away has a worker, so that removing the
empty bundles shifts no index. For the second run, `LoadedSliceIs`: on nodes of one size, the k-th in the order
of the ids is given what the k-th in packing order had; `Moved` carries the plan
over, and `AsSaved` the units of the workers.

`DataInv` adds the table (`DealtWith`) and the sample (`HandedOut`). `WorkersDealt` says that every storage has
as many trainers and every trainer one storage, in blocks or by node. The rest is
arithmetic: `LengthIs` (a cut or padded split is a multiple of the workers), `Strided` and
`RowsCounted` (ranks take equal shares of it), `UsedRows` and `BothHave` (together they take all, and
only padding twice). The sums and lists of H are folds; `SumSteps` and `FilteredBy` turn them into
sequences, by an induction stated with a set. No theorem has a hypothesis beside the assumptions.

**`WeightUpdates_proofs`**, of I: `TypeCorrect`, `GroupsFitTheGpus` and `EvalPoliciesAreCurrent`, for
any placement of any number of policies, any strategy and any number of syncs. It has three parts.
The first is about the operators the plan is built from. `FlattenSeq` is recursive and
`InOrder` chooses a list that has to exist; `SetInduction`, induction over the natural
numbers stated with a set, gives `Flattened` (what is in a flattened sequence and where it
comes from), `FlattenAligned` (the same for two at a time) and `InOrderLists`. The second is
about the plan: `Planned` says that its transfers reach every evaluation policy and
that two which reach the same one are the same, proved for pairs (`PlannedColocated`) and for nodes
dealt out to nodes (`PlannedApart`); `GroupsFollowPlan` that every group of the script is that of a
transfer. The third is the protocol. `TransferInv` follows a sync: who sends was given the
transfer (`OwnTasks`), who receives was called by a sender that still waits for it
(`Receives`), after a broadcast a receiver has the weights or has stored them (`Sent`), and a buffer that is
not current yet has a transfer still to come or under way (`AllSupplied`); when nothing is
left to send, that is `AllHoldCurrent`. `CommInv` follows the forming of the groups: a
mailbox holds steps that the driver has come to (`CommShape`); a policy has its rank
once it is through with the first step (`Ranked`); and it remembers, for a mode, a group it is
a member of, or else every step that forms one for it is still in its mailbox
(`Remembers`). That a place in a node's group is a GPU is `Seats`, about
`sorted_policy_actors` and the local ranks counted from it. The run checks `GroupsFit` and
`AllHoldCurrent`; the types are left to the proof.

Of C: `AsyncTypeCorrect`, and `UpdaterStaysInStep`: the updater sleeps
exactly while requests are in flight, and the gate always settles open. Both halves are
inductive beside the types of the other variables; the range of `num_requests` follows
from what it counts. What needs an argument is the queue: `LeavesOpen` says of any
queue of handles where it leaves the gate once it has run, and the lemmas `AppendOther`,
`AppendSet` and `TailGates` say what scheduling and running a handle does to that.

**`SyncRLEngine_proofs`.** `TypeCorrect`, `WhatIsUsedIsResident` and `EpochsUseTheirOwn`, for
any policies, settings and number of epochs. What the engine has done is a function of
the statement it is at, the epoch and the settings: `Course` gives the statements of an
epoch and the version at each, `Residence` what is on its device, `Data` what the buffer
and the data set hold. What an evaluation policy has loaded depends on its thread as
well: `Direct` is for policies that load at once, `Buffered` follows a version from the
send over the buffer to the update thread, and is why the wait of `__init__` suffices for
the first rollout.

## 7. What is only model-checked

Liveness and everything under fairness (`RunEnds`, `EveryoneServed`, `AllGetTheirTurn`,
`EpochsComplete`, `NobodyWaitsForEver`, `BatchHandedOut`, `SyncEnds`, `TrainingEnds`) is
out of the proof system's reach, as is `ENABLED`.

Of E, `SyncSampleWhole`, the part of `SampledOnce` about what a sample finds: the length of a shard after
a rollout is the value of a fold over all episodes of its environments.

The library's induction theorems have an operator as a parameter, which the provers cannot
instantiate; every induction here is stated with a set instead. What a fold computes is proved where
it is needed, by the sequence of its steps. Modules with `RECURSIVE` operators cannot be proved
about; none is used.

## 8. What is not modelled, and why

* Inside the modelled components: metrics (but for K), profiling and progress; the contents of transitions and tensors; device copies; the timing of polling. In B and C the training side of a policy; in C the weight buffer. In A the warm-up, which runs before the threads start.
* In D, `_ensure_schema` (the first item's keys), string keys, and negative indices, which in unit `transition` count from the capacity and not from the length.
* In E, `add_episode`, samplers other than `AllDataSampler` and several train workers (both in L), environments in the engine's own process, and the use of a storage by two threads of one process, where a read can fall inside a push.
* In F, queues that fill are modelled (`PutReturn`, `PutResponse`), but the run gives them room for every message, since with less `close()` may hang, as section 5 says. Left out is the use of one ZMQ socket by two threads, which the library leaves undefined: each socket call is one step. `auto_reset` refuses a group with servers, so E has none. In a group with servers `collect_async` counts and flags one result per server where one per client comes back (`env/env_group.py:735`, `:807`); no engine collects from such a group with flags.
* In G, `NodeAffinityRouter`, which no configuration selects, and calls with `_block`, which are not counted in the bound.
* In H, CPUs, pools that were written by hand or are pinned by `node_ids`, the default strategy, which leaves placement to Ray, and components with several kinds of environments.
* In L, more than one data set, environments with unequal numbers of rows, which rows are drawn, the optimizer, time limits of collective operations, and the training loops of the other policies.
* In J, exceptions, the inside of a rollout (E) and of a load (B), and what the RSL engines compute between a rollout and the data set. In K, what a simulator computes, offloading, videos, groups of simulators that share a reset state, and the Atari, MuJoCo and Isaac wrappers, which forward calls.
* In I, the local path (no process group; B models it), the sharded strategy, a time limit of `init_process_group`, and what DDP does with its group. The groups for tensor, sequence and plain data parallelism and between nodes, and the collectives on them, are called by nothing.
* Policies, losses, models and humanoid tools are numerical; the vLLM client adapts an external program; configuration, builders, registry and launch run once before anything interacts; logging has no influence.
