---------------------------- MODULE CommGroups ----------------------------
(***************************************************************************)
(* The communication groups of the policies: the driver numbers them,      *)
(* has them form one group after another and meet at barriers              *)
(* (PolicyGroup.init_comm_group), and init_train has the train policies    *)
(* meet in theirs.  Every policy executes its calls in the order in which  *)
(* they were submitted; a collective call ends when everyone concerned has *)
(* entered it.                                                             *)
(***************************************************************************)
EXTENDS TransferPlan

VARIABLES
    evalFirst, \* do the evaluation policies have the lower GPUs of their node?
    script,    \* what the driver has the policies do, step after step
    driver,    \* number of its next step
    calls,     \* policy -> the steps it was called for and has not finished
    entered,   \* policies that have entered the collective of their first call
    rank,      \* policy -> RANK, from 1, or 0 before init_process_group
    group      \* policy -> mode -> the step that formed the group it remembers, or 0

commVars == <<evalFirst, script, driver, calls, entered, rank, group>>

Modes == {"INTRA_NODE", "WEIGHT_TRANSFER", "TRAIN_DATA_PARALLEL"}

---------------------------------------------------------------------------
\* Colocated, only the train policies communicate.
AllPolicies == IF strategy = "None" THEN TrainList ELSE TrainList \o EvalList

\* actors_by_node, each node's sorted by GPU.
SortedOn(n) ==
    IF strategy = "None" THEN TrainOn(n)
    ELSE IF evalFirst THEN EvalOn(n) \o TrainOn(n)
    ELSE TrainOn(n) \o EvalOn(n)
SortedActors == FlattenSeq([n \in Nodes |-> SortedOn(n)])
LocalRanks == FlattenSeq([n \in Nodes |-> [i \in DOMAIN SortedOn(n) |-> i]])

NodesInUse == InOrder({n \in Nodes : SortedOn(n) # <<>>})

\* Mutant: each node's policies in the order of the lists.
UnsortedNodeActors == [i \in DOMAIN NodesInUse |->
                          SelectSeq(AllPolicies, LAMBDA p : p[1] = NodesInUse[i])]
NodeActors == [i \in DOMAIN NodesInUse |-> SortedOn(NodesInUse[i])]

\* Transfers without receivers need no group.
TransferActors ==
    LET sends == InOrder({i \in DOMAIN transferInfo : transferInfo[i].receivers # <<>>})
    IN  [j \in DOMAIN sends |->
            <<transferInfo[sends[j]].sender>> \o transferInfo[sends[j]].receivers]

---------------------------------------------------------------------------
Meeting(call) == <<[call |-> call, mode |-> "GLOBAL", of |-> <<>>]>>
Form(mode, groups) ==
    [i \in DOMAIN groups |-> [call |-> "init_single_comm_group", mode |-> mode, of |-> groups[i]]]

Script ==
    Meeting("init_distributed_env")
        \o Form("INTRA_NODE", NodeActors) \o Meeting("dist_barrier")
        \o (IF strategy = "None" \/ transferInfo = <<>> THEN <<>>
            ELSE Form("WEIGHT_TRANSFER", TransferActors) \o Meeting("dist_barrier"))
        \o (IF TrainList = <<>> THEN <<>>
            ELSE Form("TRAIN_DATA_PARALLEL", <<TrainList>>) \o Meeting("dist_barrier")
                     \o Meeting("init_train"))

CommInit ==
    /\ evalFirst \in BOOLEAN
    /\ script = Script /\ driver = 1
    /\ calls = [p \in ToSet(AllPolicies) |-> <<>>] /\ entered = {}
    /\ rank = [p \in ToSet(AllPolicies) |-> 0]
    /\ group = [p \in ToSet(AllPolicies) |-> [m \in Modes |-> 0]]

\* Groups of a mode are formed without a wait between them; but the driver asks the
\* members for their rank first, and get_rank takes its turn after earlier calls.
AwaitedBefore(k) ==
    IF k > 1 /\ script[k].mode # "GLOBAL" /\ script[k - 1].mode # "GLOBAL"
    THEN ToSet(script[k].of)
    ELSE DOMAIN calls

\* Mutant: a group is formed by its members.
CalledMembers(k) ==
    IF script[k].call = "init_train" THEN ToSet(TrainList)
    ELSE IF script[k].mode = "GLOBAL" THEN DOMAIN calls
    ELSE ToSet(script[k].of)

\* new_group is called by all, whether they are members or not.
Called(k) == IF script[k].call = "init_train" THEN ToSet(TrainList) ELSE DOMAIN calls

Submit ==
    /\ driver <= Len(script) /\ \A p \in AwaitedBefore(driver) : calls[p] = <<>>
    /\ calls' = [p \in DOMAIN calls |->
                    IF p \in Called(driver) THEN Append(calls[p], driver) ELSE calls[p]]
    /\ driver' = driver + 1
    /\ UNCHANGED <<evalFirst, script, entered, rank, group>>

Enter(p) ==
    /\ calls[p] # <<>> /\ p \notin entered
    /\ entered' = entered \cup {p}
    /\ UNCHANGED <<evalFirst, script, driver, calls, rank, group>>

RanksOf(k) == [i \in DOMAIN script[k].of |-> rank[script[k].of[i]]]

\* init_train meets in the group its policy remembers, all else in that of everyone.
Concerned(k, p) ==
    IF script[k].call = "init_train"
    THEN {q \in DOMAIN rank : rank[q] \in ToSet(RanksOf(group[p]["TRAIN_DATA_PARALLEL"]))}
    ELSE DOMAIN calls

\* _register_group: who is not in the group remembers nothing of it.
Remembered(k, p) ==
    IF script[k].mode # "GLOBAL" /\ rank[p] \in ToSet(RanksOf(k))
    THEN [group[p] EXCEPT ![script[k].mode] = k]
    ELSE group[p]

\* The collective that p is in ends when all concerned have entered the same one.
Meet(p) ==
    /\ p \in entered
    /\ LET k == Head(calls[p])
           all == Concerned(k, p)
       IN  /\ all \subseteq entered /\ \A q \in all : Head(calls[q]) = k
           /\ entered' = entered \ all
           /\ calls' = [q \in DOMAIN calls |-> IF q \in all THEN Tail(calls[q]) ELSE calls[q]]
           /\ rank' = IF script[k].call # "init_distributed_env" THEN rank
                      ELSE [q \in DOMAIN rank |-> CHOOSE r \in DOMAIN SortedActors : SortedActors[r] = q]
           /\ group' = [q \in DOMAIN group |-> IF q \in all THEN Remembered(k, q) ELSE group[q]]
    /\ UNCHANGED <<evalFirst, script, driver>>

SetUp == driver > Len(script) /\ \A p \in DOMAIN calls : calls[p] = <<>>

CommNext == Submit \/ \E p \in DOMAIN calls : Enter(p) \/ Meet(p)

---------------------------------------------------------------------------
\* Properties

LocalRankIn(k, p) == CHOOSE i \in DOMAIN RanksOf(k) : RanksOf(k)[i] = rank[p]

CommTypes ==
    /\ driver \in 1..Len(script) + 1 /\ entered \subseteq ToSet(AllPolicies)
    /\ calls \in [ToSet(AllPolicies) -> Seq(DOMAIN script)]
    /\ rank \in [ToSet(AllPolicies) -> 0..Len(SortedActors)]
    /\ group \in [ToSet(AllPolicies) -> [Modes -> 0..driver - 1]]

\* After the set-up every policy is on the GPU, by its rank in the group of its node
\* (init_train), that LOCAL_RANK gave it (init_distributed_env), no two of a node on
\* the same one, and remembers the groups that it is a member of.
GroupsFit ==
    SetUp => \A p \in DOMAIN group :
        /\ \A m \in Modes :
               IF group[p][m] = 0
               THEN \A k \in DOMAIN script : script[k].mode = m => p \notin ToSet(script[k].of)
               ELSE script[group[p][m]].mode = m /\ p \in ToSet(script[group[p][m]].of)
        /\ LocalRankIn(group[p]["INTRA_NODE"], p) = LocalRanks[rank[p]]
        /\ \A q \in DOMAIN group \ {p} :
               /\ rank[p] # rank[q]
               /\ p[1] = q[1] => LocalRanks[rank[p]] # LocalRanks[rank[q]]
===========================================================================
