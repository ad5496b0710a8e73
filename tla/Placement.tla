----------------------------- MODULE Placement -----------------------------
(***************************************************************************)
(* From a request for workers to the bundles they run in:                  *)
(* GlobalResourceManager.initialize.  In the automatic mode                *)
(* ResourcePoolPlanner validates the request against the cluster and       *)
(* slices the GPUs of its nodes (utils/placement/resource_pool.py);        *)
(* ResourcePoolPlacementStrategy packs the workers on the slices           *)
(* (utils/placement/placement_strategies.py), and the pools are saved.  A  *)
(* later run may load them again, in the manual mode (Reload).             *)
(*                                                                         *)
(* A GPU is Parts parts: a worker needs 1/Parts, 2/Parts, ... of one.      *)
(* CPUs are not counted: every worker needs one.                           *)
(***************************************************************************)
EXTENDS Integers, Sequences, SequencesExt, FiniteSetsExt

CONSTANTS
    Clusters,       \* GPUs of the nodes, in the planner's order: most GPUs first
    Parts,          \* parts of a GPU
    Requests,       \* [workers, need : [GpuComponents -> Nat], storageGpus : Nat]
    Strategies      \* [kind, shared]: shared is env_strategy "device-colocate"

GpuComponents == {"train", "eval", "env"}

ASSUME PartsAssumption == Parts \in Nat \ {0}
ASSUME ClustersAssumption ==
    \A g \in Clusters : g \in Seq(Nat) /\ \A i \in 2..Len(g) : g[i - 1] >= g[i]
ASSUME RequestsAssumption ==
    \A r \in Requests :
        /\ r.workers \in [GpuComponents -> Nat]
        /\ r.need \in [GpuComponents -> 0..Parts]
        /\ r.storageGpus \in Nat
ASSUME StrategiesAssumption ==
    Strategies \subseteq [kind : {"disaggregate", "colocate"}, shared : BOOLEAN]

VARIABLES
    mode,           \* "auto" or "manual"
    order,          \* the nodes in the order of the planner; in manual mode, of their ids
    planned,        \* what Placements was when the pools were saved; guards nothing
    gpus,           \* total_gpus of each node
    request,
    strategy,
    phase,          \* what the planner, then the strategy, does next
    node,           \* the node its loop is at
    remaining,      \* parts that each component still asks for
    cursor,         \* gpu_cursor of each node
    slice,          \* allocations: the units of each node that a component may use
    pool,           \* the pool each node belongs to, or "none"
    placed,         \* _workers_placed
    location,       \* _worker_locations: [node, index] of each worker
    bundles,        \* the bundles of each node's placement group: a unit, or CpuBundle
    storage         \* _storage_to_train_workers: the node and the workers of each storage

runVars == <<mode, order, planned>>
inputVars == <<gpus, request, strategy, runVars>>
planVars == <<remaining, cursor, slice, pool>>
packVars == <<placed, location, bundles, storage>>
vars == <<inputVars, phase, node, planVars, packVars>>

Nodes == DOMAIN gpus

\* The buffer workers of a storage on GPUs are counted with the train workers.
Required(c) ==
    request.workers[c] * request.need[c] + IF c = "train" THEN request.storageGpus * Parts ELSE 0

Smaller(a, b) == IF a < b THEN a ELSE b
Larger(a, b) == IF a < b THEN b ELSE a

Init ==
    /\ gpus \in Clusters /\ request \in Requests /\ strategy \in Strategies
    /\ mode = "auto" /\ order = [n \in Nodes |-> n] /\ planned = <<>>
    /\ phase = "validate" /\ node = 1
    /\ remaining = [c \in GpuComponents |-> Required(c)]
    /\ cursor = [n \in Nodes |-> 0]
    /\ slice = [n \in Nodes |-> [c \in GpuComponents |-> {}]]
    /\ pool = [n \in Nodes |-> "none"]
    /\ placed = [c \in GpuComponents |-> 0]
    /\ location = [c \in GpuComponents |-> <<>>]
    /\ bundles = [n \in Nodes |-> <<>>]
    /\ storage = <<>>

Goto(p, n) == phase' = p /\ node' = n

----------------------------------------------------------------------------
\* Planning.

RolloutParts ==
    IF strategy.shared THEN Larger(Required("env"), Required("eval"))
    ELSE Required("env") + Required("eval")

RequestedParts ==
    IF strategy.kind = "disaggregate" THEN Required("train") + RolloutParts
    ELSE Larger(Required("train"), RolloutParts)

Sum(numbers) == FoldLeft(LAMBDA a, b : a + b, 0, numbers)

ClusterParts == Parts * Sum(gpus)

\* validate_scheduling, and the choice of the plan.
Validate ==
    /\ phase = "validate"
    /\ IF RequestedParts > ClusterParts THEN Goto("rejected", 1)
       ELSE IF strategy.kind = "disaggregate" THEN Goto("trainPool", 1)
       ELSE Goto("globalPool", 1)
    /\ UNCHANGED <<inputVars, planVars, packVars>>

Available(n, cursors) == gpus[n] - cursors[n]

\* A step of a plan on one node: the fields of planVars it works on, and
\* whether allocate raised.
PlanOf(left, cursors, slices, raised) ==
    [remaining |-> left, cursor |-> cursors, slice |-> slices, failed |-> raised]

Plan == PlanOf(remaining, cursor, slice, FALSE)

\* Mutant: allocate accepts whatever it is asked for.
AllocateUnchecked(plan, n, c, parts, consume) ==
    LET units == parts \div Parts
        from == plan.cursor[n]
    IN  [plan EXCEPT !.remaining[c] = @ - parts,
                     !.slice[n][c] = from..(from + units - 1),
                     !.cursor[n] = IF consume THEN @ + units ELSE @]

\* Mutant: every slice starts at the first GPU of the node.
AllocateFromFirst(plan, n, c, parts, consume) ==
    LET units == parts \div Parts
    IN  [plan EXCEPT !.remaining[c] = @ - parts,
                     !.slice[n][c] = 0..(units - 1),
                     !.cursor[n] = IF consume THEN @ + units ELSE @]

\* NodeResource.allocate, and the caller's subtraction: int() drops a fraction of
\* a GPU, but the caller takes it as allocated.  A failed plan stays as it is.
Allocate(plan, n, c, parts, consume) ==
    LET units == parts \div Parts
        from == plan.cursor[n]
    IN  IF plan.failed THEN plan
        ELSE IF units > Available(n, plan.cursor)
        THEN PlanOf(plan.remaining, plan.cursor, plan.slice, TRUE)
        ELSE PlanOf([plan.remaining EXCEPT ![c] = @ - parts],
                    IF consume THEN [plan.cursor EXCEPT ![n] = @ + units] ELSE plan.cursor,
                    [plan.slice EXCEPT ![n][c] = from..(from + units - 1)],
                    FALSE)

\* Mutant: what a node has left does not bound what it is asked for.
AskedUnbounded(plan, n, c) == plan.remaining[c]

Asked(plan, n, c) == Smaller(Parts * Available(n, plan.cursor), plan.remaining[c])

\* The plan after a node, or the RuntimeError of allocate.
Carry(plan, name) ==
    /\ remaining' = plan.remaining /\ cursor' = plan.cursor /\ slice' = plan.slice
    /\ pool' = IF pool[node] = "none" THEN [pool EXCEPT ![node] = name] ELSE pool
    /\ IF plan.failed THEN Goto("failed", 1) ELSE Goto(phase, node + 1)
    /\ UNCHANGED <<inputVars, packVars>>

Asking(components) == \E c \in components : remaining[c] > 0
AtEmptyNode == node <= Len(gpus) /\ gpus[node] = cursor[node]
LoopEnds(components) == node > Len(gpus) \/ (~AtEmptyNode /\ ~Asking(components))

\* A node without a free GPU is skipped; a loop ends when nothing is asked for.
NextPhase(from, components, to) ==
    /\ phase = from
    /\ LoopEnds(components)
    /\ Goto(to, 1)
    /\ UNCHANGED <<inputVars, planVars, packVars>>

SkipNode ==
    /\ phase \in {"trainPool", "rolloutPool", "globalPool"}
    /\ AtEmptyNode
    /\ Goto(phase, node + 1)
    /\ UNCHANGED <<inputVars, planVars, packVars>>

TrainPool ==
    /\ phase = "trainPool" /\ ~AtEmptyNode /\ ~LoopEnds({"train"})
    /\ Carry(Allocate(Plan, node, "train", Asked(Plan, node, "train"), TRUE), "train_pool")

RolloutPool ==
    /\ phase = "rolloutPool" /\ ~AtEmptyNode /\ ~LoopEnds({"eval", "env"})
    /\ LET eval == Allocate(Plan, node, "eval", Asked(Plan, node, "eval"), ~strategy.shared)
           env == Allocate(eval, node, "env", Asked(eval, node, "env"), TRUE)
       IN  Carry(env, "rollout_pool")

\* Every share of the node is bounded by the GPUs that were free before the first.
GlobalPool ==
    /\ phase = "globalPool" /\ ~AtEmptyNode /\ ~LoopEnds(GpuComponents)
    /\ LET Share(c) == Asked(Plan, node, c)
           train == Allocate(Plan, node, "train", Share("train"), FALSE)
           eval == Allocate(train, node, "eval", Share("eval"), ~strategy.shared)
           env == Allocate(eval, node, "env", Share("env"), TRUE)
       IN  Carry(env, "global_pool")

----------------------------------------------------------------------------
\* Packing: one placement group for each node of a pool.

\* The bundle of a storage worker, which has no GPU.
CpuBundle == -1

\* How many workers of c fit on one GPU.
Fits(c) == IF request.need[c] = 0 THEN request.workers[c] ELSE Parts \div request.need[c]

\* _pack_workers_on_gpu_units: the workers of c, not yet placed, that node n takes.
Packable(n, c) ==
    Smaller(request.workers[c] - placed[c], Cardinality(slice[n][c]) * Fits(c))

\* Mutant: a worker's unit follows from its id, not from its place on the node.
UnitOfId(n, c, k) == (placed[c] + k - 1) \div Fits(c)

UnitOf(n, c, k) == Min(slice[n][c]) + (k - 1) \div Fits(c)
Packed(n, c) == [k \in 1..Packable(n, c) |-> UnitOf(n, c, k)]
UnitsUsed(n) == UNION {Range(Packed(n, c)) : c \in GpuComponents}

\* The ids of the train workers that the node's storage serves.
StorageFor(n) ==
    [node |-> n, trainers |-> (placed["train"] + 1)..(placed["train"] + Packable(n, "train"))]

\* What a list holds of a set, in the order of the list.
Filtered(list, set) == FlattenSeq([i \in DOMAIN list |-> IF list[i] \in set THEN <<list[i]>> ELSE <<>>])

PoolOrder == <<"train_pool", "rollout_pool", "global_pool">>

PoolNodes(p) == Filtered(order, {n \in Nodes : pool[n] = p})

\* The nodes in the order of the pools.
PackingOrder == PoolNodes("train_pool") \o PoolNodes("rollout_pool") \o PoolNodes("global_pool")

Pack ==
    /\ phase = "pack" /\ node <= Len(PackingOrder)
    /\ LET n == PackingOrder[node]
           serves == slice[n]["train"] # {}
       IN  /\ placed' = [c \in GpuComponents |-> placed[c] + Packable(n, c)]
           /\ location' = [c \in GpuComponents |->
                  location[c] \o [k \in 1..Packable(n, c) |->
                      [node |-> n, index |-> UnitOf(n, c, k)]]]
           /\ bundles' = [bundles EXCEPT ![n] =
                  Filtered([i \in 1..gpus[n] |-> i - 1], UnitsUsed(n)) \o IF serves THEN <<CpuBundle>> ELSE <<>>]
           /\ IF serves /\ Packable(n, "train") = 0
              THEN Goto("failed", 1) /\ UNCHANGED storage        \* KeyError 'train'
              ELSE /\ storage' = IF serves THEN Append(storage, StorageFor(n)) ELSE storage
                   /\ Goto("pack", node + 1)
    /\ UNCHANGED <<inputVars, planVars>>

\* The components a pool knows of: those with a slice on one of its nodes.
Tracked(c) == \E n \in Nodes : pool[n] # "none" /\ slice[n][c] # {}

\* _verify_workers_placed.
Verify ==
    /\ phase = "pack" /\ node > Len(PackingOrder)
    /\ IF \A c \in GpuComponents : Tracked(c) => placed[c] = request.workers[c]
       THEN Goto("done", 1)
       ELSE Goto("failed", 1)
    /\ UNCHANGED <<inputVars, planVars, packVars>>

----------------------------------------------------------------------------
\* Saving the pools and loading them: to_yaml_config, load_manual_resource_pools.

\* Mutant: nodes are counted by the GPUs that were given away.
OffsetUsed(nodes, k) == Sum([i \in 1..(k - 1) |-> cursor[nodes[i]]])

\* Where the GPUs of the k-th of some nodes start when the nodes are counted through.
Offset(nodes, k) == Sum([i \in 1..(k - 1) |-> gpus[nodes[i]]])

\* num_node of a pool, and the indices of each component in the pool.
SavedPool(p) ==
    [nodes |-> Len(PoolNodes(p)),
     indices |-> [c \in GpuComponents |->
         UNION {{Offset(PoolNodes(p), k) + u : u \in slice[PoolNodes(p)[k]][c]} :
                    k \in DOMAIN PoolNodes(p)}]]

SavedNodes(i) == Sum([j \in 1..i |-> SavedPool(PoolOrder[j]).nodes])

\* A pool without node_ids takes the first nodes, by id, that no pool before it took.
PoolAt(k) ==
    IF \E i \in DOMAIN PoolOrder : k <= SavedNodes(i)
    THEN Min({i \in DOMAIN PoolOrder : k <= SavedNodes(i)})
    ELSE 0

\* The part of a pool's indices that falls on the k-th node in the order ids.
LoadedSlice(ids, k) ==
    LET i == PoolAt(k)
        from == Offset(SubSeq(ids, SavedNodes(i - 1) + 1, k), k - SavedNodes(i - 1))
    IN  [c \in GpuComponents |->
            IF i = 0 THEN {}
            ELSE {u \in 0..(gpus[ids[k]] - 1) : from + u \in SavedPool(PoolOrder[i]).indices[c]}]

Orders == {ids \in [Nodes -> Nodes] : Range(ids) = Nodes}

Homogeneous == \A m, n \in Nodes : gpus[m] = gpus[n]

\* A unit of a worker, its node counted in packing order.
Placements ==
    [c \in GpuComponents |-> [i \in DOMAIN location[c] |->
        <<Min({k \in DOMAIN PackingOrder : PackingOrder[k] = location[c][i].node}),
          location[c][i].index>>]]

\* A run in manual mode on the pools saved by this one, which numbers the nodes anew.
Reload ==
    /\ phase = "done" /\ mode = "auto"
    /\ mode' = "manual"
    /\ planned' = Placements
    /\ cursor' = [n \in Nodes |-> 0]
    /\ placed' = [c \in GpuComponents |-> 0]
    /\ location' = [c \in GpuComponents |-> <<>>]
    /\ bundles' = [n \in Nodes |-> <<>>]
    /\ storage' = <<>>
    /\ IF Homogeneous
       THEN \E ids \in Orders :
                LET At(n) == CHOOSE k \in DOMAIN ids : ids[k] = n
                IN  /\ order' = ids
                    /\ slice' = [n \in Nodes |-> LoadedSlice(ids, At(n))]
                    /\ pool' = [n \in Nodes |->
                           IF PoolAt(At(n)) = 0 THEN "none" ELSE PoolOrder[PoolAt(At(n))]]
                    /\ Goto("pack", 1)
       ELSE Goto("rejected", 1) /\ UNCHANGED <<order, slice, pool>>
    /\ UNCHANGED <<gpus, request, strategy, remaining>>

Next ==
    \/ Validate \/ SkipNode
    \/ TrainPool \/ NextPhase("trainPool", {"train"}, "rolloutPool")
    \/ RolloutPool \/ NextPhase("rolloutPool", {"eval", "env"}, "pack")
    \/ GlobalPool \/ NextPhase("globalPool", GpuComponents, "pack")
    \/ Pack \/ Verify
    \/ Reload

Spec == Init /\ [][Next]_vars

----------------------------------------------------------------------------
\* Properties.

\* Slices lie inside their node, cursors as well, and the records keep their shape.
TypeOK ==
    /\ phase \in {"validate", "trainPool", "rolloutPool", "globalPool", "pack",
                  "done", "rejected", "failed"}
    /\ mode \in {"auto", "manual"} /\ order \in Orders
    /\ node \in 1..(Len(gpus) + 1)
    /\ remaining \in [GpuComponents -> Nat]
    /\ \A n \in Nodes :
           /\ cursor[n] \in 0..gpus[n]
           /\ \A c \in GpuComponents : slice[n][c] \subseteq 0..(gpus[n] - 1)
           /\ pool[n] \in {"none"} \cup Range(PoolOrder)
           /\ Range(bundles[n]) \subseteq 0..(gpus[n] - 1) \cup {CpuBundle}
    /\ \A c \in GpuComponents :
           /\ placed[c] \in 0..request.workers[c]
           /\ Len(location[c]) = placed[c]
           /\ \A at \in Range(location[c]) : at.node \in Nodes /\ at.index \in slice[at.node][c]
    /\ \A s \in Range(storage) : s.node \in Nodes /\ s.trainers \subseteq 1..placed["train"]

MayShare(c, d) ==
    \/ strategy.kind = "colocate" /\ "train" \in {c, d}
    \/ strategy.shared /\ {c, d} = {"eval", "env"}

PartsOn(n, u, c) ==
    request.need[c] * Cardinality({i \in DOMAIN location[c] : location[c][i] = [node |-> n, index |-> u]})

\* What a strategy keeps apart has GPUs of its own on every node: "Env and Eval each
\* get dedicated GPUs" unless they share the device, train and rollout unless they are
\* colocated (the cursor of NodeResource.allocate).  And no GPU is promised more than
\* once: the workers of one component on a GPU need at most all of it.
DedicatedGpus ==
    \A n \in Nodes, c \in GpuComponents :
        /\ \A d \in GpuComponents \ {c} : ~MayShare(c, d) => slice[n][c] \cap slice[n][d] = {}
        /\ \A u \in 0..(gpus[n] - 1) : PartsOn(n, u, c) <= Parts

\* A component asks for whole GPUs, each filled by whole workers.
Whole(c) ==
    /\ Required(c) % Parts = 0
    /\ request.need[c] > 0 => Parts % request.need[c] = 0

StaleLimits == strategy.kind = "colocate" /\ ~strategy.shared /\ Len(gpus) > 1

\* A request that passed validation is planned and packed whenever it asks for
\* whole GPUs and its storages need none.  The other case that raises: a global
\* pool on several nodes in which eval and env do not share (GlobalPool).  Pools that
\* were placed once are placed again.
RaisesOnlyIfUneven ==
    phase = "failed" =>
        /\ mode = "auto"
        /\ \/ \E c \in GpuComponents : ~Whole(c)
           \/ request.storageGpus > 0
           \/ StaleLimits

\* Workers end where the plan wants them: the index recorded while packing still names
\* the bundle of the GPU a worker was packed on after the empty bundles are removed,
\* and every train worker is served by one storage, the one of its node.
BoundAsPacked ==
    phase = "done" =>
        /\ request.storageGpus = 0 =>
            \A c \in GpuComponents : \A at \in Range(location[c]) :
                /\ at.index < Len(bundles[at.node])
                /\ bundles[at.node][at.index + 1] = at.index
        /\ \A w \in 1..placed["train"] :
            /\ \E s \in Range(storage) : w \in s.trainers /\ s.node = location["train"][w].node
            /\ Cardinality({i \in DOMAIN storage : w \in storage[i].trainers}) = 1

\* "Heterogeneous pools: keep per-node gpus list for reversibility": on nodes of one
\* size, a saved placement is the same when it is loaded, whichever nodes come first:
\* indices are counted through the nodes of a pool, and split over other nodes again.
ReloadedAsPlanned ==
    mode = "manual" =>
        /\ Homogeneous => phase # "rejected"
        /\ phase = "done" => Placements = planned

\* Placement, binding and a second placement agree with the plan.
PlacedAsPlanned == DedicatedGpus /\ BoundAsPacked /\ ReloadedAsPlanned

\* "Validate that cluster resources can satisfy scheduling requirements": a
\* request of whole GPUs that passed is never refused afterwards.
ValidatedIsPlaced == phase = "failed" => \E c \in GpuComponents : ~Whole(c)
=============================================================================
