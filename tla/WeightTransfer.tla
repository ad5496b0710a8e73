-------------------------- MODULE WeightTransfer --------------------------
(***************************************************************************)
(* How weights get from the train policies to the evaluation policies:     *)
(* once the groups are formed (CommGroups), the sends, receives and        *)
(* broadcasts of one sync_weights after another, along the plan of         *)
(* TransferPlan (weight_transfer_manager.py).  What an evaluation policy   *)
(* does with the notification that ends a sync is EvalPolicy's subject.    *)
(***************************************************************************)
EXTENDS CommGroups

CONSTANT MaxSyncs \* how often sync_weights is called

ASSUME MaxSyncsAssumption == MaxSyncs \in Nat \ {0}

VARIABLES
    phase,
    version,   \* of the parameters of the train policies
    tasks,     \* train policy -> the transfers it still has to send
    sending,   \* train policy -> where it is in send_weights
    receiving, \* evaluation policy -> where it is in recv_weights
    holds      \* weight buffer (with strategy "None": policy) -> the version in it, or Empty

taskVars == <<tasks, sending, receiving>>
vars == <<planVars, commVars, phase, version, taskVars, holds>>

Empty == 0

Init ==
    /\ PlanInit /\ CommInit
    /\ phase = "setup" /\ version = 1
    /\ tasks = [p \in ToSet(TrainList) |-> <<>>]
    /\ sending = [p \in ToSet(TrainList) |-> "no"]
    /\ receiving = [e \in ToSet(EvalList) |-> "no"]
    /\ holds = [b \in Buffers |-> Empty]

FormGroups ==
    /\ phase = "setup" /\ CommNext
    /\ UNCHANGED <<planVars, phase, version, taskVars, holds>>

SetupEnds ==
    /\ phase = "setup" /\ SetUp
    /\ phase' = "trained"
    /\ UNCHANGED <<planVars, commVars, version, taskVars, holds>>

---------------------------------------------------------------------------
\* sync_weights submits every send at once; an actor executes its calls in order.
StartSync ==
    /\ phase = "trained" /\ phase' = "sync"
    /\ tasks' = [p \in DOMAIN tasks |->
                    InOrder({i \in DOMAIN transferInfo : transferInfo[i].sender = p})]
    /\ UNCHANGED <<planVars, commVars, version, sending, receiving, holds>>

Current(p) == transferInfo[Head(tasks[p])]
Idle(p) == tasks[p] # <<>> /\ sending[p] = "no"
TaskDone(p) == tasks' = [tasks EXCEPT ![p] = Tail(@)]
Calls(receivers, state) ==
    receiving' = [e \in DOMAIN receiving |-> IF e \in ToSet(receivers) THEN state ELSE receiving[e]]

\* send_weights_cpu: the sender fills the shared buffer of its own node.
WriteShared(p) ==
    /\ Idle(p) /\ strategy = "Shared" /\ Current(p).intra
    /\ holds' = [holds EXCEPT ![<<Current(p).to, "buffer", 1>>] = version]
    /\ TaskDone(p)
    /\ UNCHANGED <<planVars, commVars, phase, version, sending, receiving>>

\* send_weights calls recv_weights of the receivers and joins the broadcast.
Send(p) ==
    /\ Idle(p) /\ strategy # "None" /\ Current(p).receivers # <<>>
    /\ Calls(Current(p).receivers, "called")
    /\ sending' = [sending EXCEPT ![p] = "broadcasting"]
    /\ UNCHANGED <<planVars, commVars, phase, version, tasks, holds>>

\* send_weights_ipc returns the serialised weights, which are passed to the receiver.
SendIpc(p) ==
    /\ Idle(p) /\ strategy = "None"
    /\ Calls(Current(p).receivers, "received")
    /\ TaskDone(p)
    /\ UNCHANGED <<planVars, commVars, phase, version, sending, holds>>

\* Clearing makes room for the weights that come.
Receive(e) ==
    /\ receiving[e] = "called"
    /\ receiving' = [receiving EXCEPT ![e] = "broadcasting"]
    /\ holds' = [holds EXCEPT ![Buffer(e)] = Empty]
    /\ UNCHANGED <<planVars, commVars, phase, version, tasks, sending>>

\* The transfers that a group was formed for, as the steps that formed it.
Groups == {k \in DOMAIN script : script[k].mode = "WEIGHT_TRANSFER"}
SenderIn(k) == Head(script[k].of)
ReceiversIn(k) == Tail(script[k].of)

Joined(k) ==
    {p \in DOMAIN sending : group[p]["WEIGHT_TRANSFER"] = k /\ sending[p] = "broadcasting"}
        \cup {e \in DOMAIN receiving : group[e]["WEIGHT_TRANSFER"] = k /\ receiving[e] = "broadcasting"}

\* A broadcast, from the first rank of the group, is over when all members joined it.
Broadcast(k) ==
    /\ Joined(k) = ToSet(script[k].of)
    /\ sending' = [sending EXCEPT ![SenderIn(k)] = "sent"]
    /\ Calls(ReceiversIn(k), "received")
    /\ UNCHANGED <<planVars, commVars, phase, version, tasks, holds>>

\* add_state_dict or, with strategy "None", load_state_dict.
Store(e) ==
    /\ receiving[e] = "received"
    /\ receiving' = [receiving EXCEPT ![e] = "no"]
    /\ holds' = [holds EXCEPT ![Buffer(e)] = version]
    /\ UNCHANGED <<planVars, commVars, phase, version, tasks, sending>>

\* Mutant: the sender does not wait for its receivers.
SendEndsAtOnce(p) ==
    /\ sending[p] = "sent"
    /\ sending' = [sending EXCEPT ![p] = "no"] /\ TaskDone(p)
    /\ UNCHANGED <<planVars, commVars, phase, version, receiving, holds>>

\* ray.get(refs): the receivers have stored what they got.
SendEnds(p) ==
    /\ sending[p] = "sent" /\ \A e \in ToSet(Current(p).receivers) : receiving[e] = "no"
    /\ sending' = [sending EXCEPT ![p] = "no"] /\ TaskDone(p)
    /\ UNCHANGED <<planVars, commVars, phase, version, receiving, holds>>

\* All sends have returned (strategy "None": all receives), the policies are notified.
EndSync ==
    /\ phase = "sync" /\ phase' = "notified"
    /\ \A p \in DOMAIN tasks : tasks[p] = <<>>
    /\ strategy = "None" => \A e \in DOMAIN receiving : receiving[e] = "no"
    /\ UNCHANGED <<planVars, commVars, version, taskVars, holds>>

Train ==
    /\ phase = "notified" /\ version < MaxSyncs
    /\ phase' = "trained" /\ version' = version + 1
    /\ UNCHANGED <<planVars, commVars, taskVars, holds>>

Next ==
    \/ FormGroups \/ SetupEnds \/ StartSync \/ EndSync \/ Train
    \/ \E p \in DOMAIN tasks : WriteShared(p) \/ Send(p) \/ SendIpc(p) \/ SendEnds(p)
    \/ \E e \in DOMAIN receiving : Receive(e) \/ Store(e)
    \/ \E k \in Groups : Broadcast(k)

Spec == Init /\ [][Next]_vars

\* Actors work on their calls and the driver runs.
FairSpec == Spec /\ WF_vars(Next)

---------------------------------------------------------------------------
\* Properties

\* The types, and that an evaluation policy answers one sender at a time: nobody
\* receives outside a sync.
TypeOK ==
    /\ phase \in {"setup", "trained", "sync", "notified"}
    /\ version \in 1..MaxSyncs /\ CommTypes
    /\ \A p \in ToSet(TrainList) :
           /\ tasks[p] \in Seq(DOMAIN transferInfo)
           /\ sending[p] \in {"no", "broadcasting", "sent"}
           /\ sending[p] # "no" => tasks[p] # <<>>
    /\ receiving \in [ToSet(EvalList) -> {"no", "called", "broadcasting", "received"}]
    /\ phase # "sync" => \A e \in ToSet(EvalList) : receiving[e] = "no"
    /\ holds \in [Buffers -> Empty..version]

\* When the evaluation policies are notified, the buffer each of them loads from
\* holds the weights of this very sync, wherever policies and buffers are placed
\* ("Broadcasts weight sync from the TRAIN worker to all EVAL workers after each epoch").
AllHoldCurrent ==
    phase = "notified" => \A e \in ToSet(EvalList) : holds[Buffer(e)] = version

\* Some node sends in more groups than it has train policies: one of them sends in
\* two groups and remembers the second only.
TooFewSenders ==
    \E n \in Nodes :
        Cardinality({k \in Groups : SenderIn(k)[1] = n}) > placement[n].train

\* The groups are formed and init_train returns, whoever shares a group.  A sync comes
\* to its end, sender and receivers of a transfer meet in one group, wherever a node
\* has a train policy for each group it sends in.
SyncEnds ==
    /\ <>(phase # "setup")
    /\ (phase = "sync") ~> (phase = "notified" \/ TooFewSenders)
===========================================================================
