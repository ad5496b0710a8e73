--------------------------- MODULE TransferPlan ---------------------------
(***************************************************************************)
(* The train and evaluation policies on the nodes, the weight buffers, and *)
(* the plan which policy sends its weights to which (policy_group.py).     *)
(***************************************************************************)
EXTENDS Naturals, Sequences, FiniteSets, SequencesExt

CONSTANTS
    Placements, \* sequences of nodes, each with its numbers of train and eval policies
    Strategies  \* weight_buffer.buffer_strategy

ASSUME TransferPlanAssumption ==
    /\ Placements \subseteq Seq([train : Nat, eval : Nat] \ {[train |-> 0, eval |-> 0]})
    /\ \A pl \in Placements : \E n \in DOMAIN pl : pl[n].train > 0
    /\ Strategies \subseteq {"None", "Double", "Shared"}

VARIABLES
    placement, strategy,
    transferInfo \* sequence of the transfers that make up a sync

planVars == <<placement, strategy, transferInfo>>

Nodes == DOMAIN placement
TrainOn(n) == [i \in 1..placement[n].train |-> <<n, "train", i>>]
EvalOn(n) == [i \in 1..placement[n].eval |-> <<n, "eval", i>>]
TrainList == FlattenSeq([n \in Nodes |-> TrainOn(n)])
EvalList == FlattenSeq([n \in Nodes |-> EvalOn(n)])
Policies == ToSet(TrainList) \cup ToSet(EvalList)

\* One weight buffer per evaluation policy, or one per node.
Buffer(e) == IF strategy = "Shared" THEN <<e[1], "buffer", 1>> ELSE e
Buffers == {Buffer(e) : e \in ToSet(EvalList)}

---------------------------------------------------------------------------
\* The numbers of a set in ascending order.
InOrder(numbers) ==
    CHOOSE s \in [1..Cardinality(numbers) -> numbers] : \A i, j \in DOMAIN s : i < j => s[i] < s[j]

TrainNodes == InOrder({n \in Nodes : placement[n].train > 0 /\ placement[n].eval = 0})
EvalNodes == InOrder({n \in Nodes : placement[n].train = 0})
MixedNodes == InOrder({n \in Nodes : placement[n].train > 0 /\ placement[n].eval > 0})

\* Nodes without train policies are dealt out to nodes that only train or, if there
\* are none, to the mixed ones.
RouterOf(k) ==
    LET routers == IF TrainNodes # <<>> THEN TrainNodes ELSE MixedNodes
    IN  routers[((k - 1) % Len(routers)) + 1]

\* Mutant: the last node without train policies is not dealt out.
ReceiverNodesButLast(n) ==
    LET own == IF placement[n].eval > 0 THEN <<n>> ELSE <<>>
        served == InOrder({k \in DOMAIN EvalNodes :
                              RouterOf(k) = n /\ (k = 1 \/ k < Len(EvalNodes))})
    IN  own \o [i \in DOMAIN served |-> EvalNodes[served[i]]]

\* router_map: a mixed node sends to itself first.
ReceiverNodes(n) ==
    LET own == IF placement[n].eval > 0 THEN <<n>> ELSE <<>>
        served == InOrder({k \in DOMAIN EvalNodes : RouterOf(k) = n})
    IN  own \o [i \in DOMAIN served |-> EvalNodes[served[i]]]

\* Mutant: the first train policy of the node sends all.
SenderFirst(n, i) == TrainOn(n)[1]

\* The receiving nodes are dealt out to the train policies of the node.
Sender(n, i) == TrainOn(n)[((i - 1) % placement[n].train) + 1]

\* One transfer for each receiving node of n.  Policies that share a buffer receive
\* once, or not at all when the sender can write to it.
TransfersOf(n) ==
    [i \in DOMAIN ReceiverNodes(n) |->
        LET to == ReceiverNodes(n)[i]
        IN  [sender |-> Sender(n, i), to |-> to, intra |-> to = n,
             receivers |-> IF strategy = "Double" THEN EvalOn(to)
                           ELSE IF to = n THEN <<>>
                           ELSE <<EvalOn(to)[1]>>]]

\* Colocated: the i-th train policy sends to the i-th evaluation policy.
Pairs ==
    [i \in DOMAIN EvalList |->
        [sender |-> TrainList[i], to |-> EvalList[i][1], intra |-> FALSE, receivers |-> <<EvalList[i]>>]]

Transfers ==
    IF strategy = "None" THEN Pairs
    ELSE LET order == MixedNodes \o TrainNodes
         IN  FlattenSeq([j \in DOMAIN order |-> TransfersOf(order[j])])

PlanInit ==
    /\ placement \in Placements /\ strategy \in Strategies
    /\ strategy = "None" => Len(TrainList) >= Len(EvalList)
    /\ transferInfo = Transfers
===========================================================================
