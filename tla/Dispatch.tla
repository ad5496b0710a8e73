------------------------------ MODULE Dispatch ------------------------------
(***************************************************************************)
(* How PolicyGroup hands a batch of requests to its evaluation policies:   *)
(* rollout_batch and postprocess (policy/policy_group.py), the routers     *)
(* (policy/utils/router.py) and TaskSubmitter (utils/ray/task_submitter).  *)
(*                                                                         *)
(* "affinity": the threads of an executor select a policy on the request's *)
(* node, in turn, and submit through one submitter.  "simple": one thread  *)
(* selects idle policies.  "async": all requests of a batch are assigned   *)
(* by load, without a submitter.                                           *)
(***************************************************************************)
EXTENDS Integers, Sequences, SequencesExt, FiniteSetsExt

CONSTANTS
    Policies,       \* the evaluation actors, 1..n as in eval_list
    Nodes,          \* the nodes with evaluation policies
    PoliciesOn,     \* _node_to_eval_policies: those of each node, in turn
    Batch,          \* the node of each request of a batch, or Elsewhere
    Elsewhere,      \* no node: the global counter is used
    Threads,        \* workers of _rollout_executor
    MaxPending,     \* max_pending_tasks of the evaluation submitter
    Modes,          \* subset of {"affinity", "simple", "async"}
    Batches         \* bound: batches handed out

ASSUME PoliciesAssumption ==
    IsFiniteSet(Policies) /\ Policies # {} /\ Policies = 1..Cardinality(Policies)
ASSUME NodesAssumption ==
    /\ Elsewhere \notin Nodes
    /\ PoliciesOn \in [Nodes -> Seq(Policies) \ {<<>>}]
    /\ \A n \in Nodes : IsInjective(PoliciesOn[n])
ASSUME BatchAssumption == Batch \in Seq({Elsewhere} \cup Nodes)
ASSUME ThreadsAssumption == Threads # {} /\ IsFiniteSet(Threads)
ASSUME MaxPendingAssumption == MaxPending \in Nat \ {0}
ASSUME ModesAssumption == Modes \subseteq {"affinity", "simple", "async"}
ASSUME BatchesAssumption == Batches \in Nat

VARIABLES
    mode,
    batches,        \* batches begun
    todo,           \* requests no thread has taken
    thread,         \* [pc, request, policy] of each thread
    lock,           \* the threads in the submitter's lock
    pending,        \* worker_ref_to_pending_tasks: tasks it remembers of each policy
    queue,          \* what each actor has not finished, in order
    turns,          \* _rr_counters and, at Elsewhere, _global_rr_counter
    idle,           \* _idle_deque
    loads,          \* current_loads that an async batch read; <<>> before
    given           \* requests of each node that each policy was given (a history);
                    \* in async mode those of this batch, all at Elsewhere (in the heap)

vars == <<mode, batches, todo, thread, lock, pending, queue, turns, idle, loads, given>>

Targets == {Elsewhere} \cup Nodes
Target(r) == Batch[((r - 1) % Len(Batch)) + 1]
None == 0
EvalPolicies == [p \in Policies |-> p]
Resting == [pc |-> "rest", request |-> None, policy |-> None]
NothingGiven == [n \in Targets |-> [p \in Policies |-> 0]]

\* The executor has many threads; without it the caller's thread does the work.
Workers == IF mode = "affinity" THEN Threads ELSE {CHOOSE t \in Threads : TRUE}

Init ==
    /\ mode \in Modes /\ batches = 0 /\ todo = <<>>
    /\ thread = [t \in Threads |-> Resting]
    /\ lock = {} /\ pending = [p \in Policies |-> {}]
    /\ queue = [p \in Policies |-> <<>>]
    /\ turns = [n \in Targets |-> 0]
    /\ idle = EvalPolicies
    /\ loads = <<>> /\ given = NothingGiven

\* map() has returned: the results are futures, which need not be ready.
HandedOut == todo = <<>> /\ \A t \in Threads : thread[t] = Resting

\* rollout_batch or postprocess is called with the next batch.
BeginBatch ==
    /\ HandedOut /\ batches < Batches
    /\ batches' = batches + 1
    /\ todo' = [i \in 1..Len(Batch) |-> batches * Len(Batch) + i]
    /\ loads' = <<>>
    /\ given' = IF mode = "async" THEN NothingGiven ELSE given
    /\ UNCHANGED <<mode, thread, lock, pending, queue, turns, idle>>

Take(t) ==
    /\ mode # "async" /\ t \in Workers /\ thread[t].pc = "rest" /\ todo # <<>>
    /\ thread' = [thread EXCEPT ![t] = [pc |-> "select", request |-> Head(todo), policy |-> None]]
    /\ todo' = Tail(todo)
    /\ UNCHANGED <<mode, batches, lock, pending, queue, turns, idle, loads, given>>

----------------------------------------------------------------------------
\* The routers of the sync mode.

Selected(t, p) ==
    /\ thread' = [thread EXCEPT ![t].pc = "submit", ![t].policy = p]
    /\ given' = [given EXCEPT ![Target(thread[t].request)][p] = @ + 1]

PoliciesOf(n) == IF n = Elsewhere THEN EvalPolicies ELSE PoliciesOn[n]

\* Mutant: one counter serves all nodes.
SelectByGlobalTurn(t) ==
    /\ mode = "affinity" /\ thread[t].pc = "select"
    /\ LET n == Target(thread[t].request)
           on == PoliciesOf(n)
       IN  /\ Selected(t, on[(turns[Elsewhere] % Len(on)) + 1])
           /\ turns' = [turns EXCEPT ![Elsewhere] = @ + 1]
    /\ UNCHANGED <<mode, batches, todo, lock, pending, queue, idle, loads>>

\* SyncNodeAffinityRouter.select_policy, under the lock of the node.
SelectByTurn(t) ==
    /\ mode = "affinity" /\ thread[t].pc = "select"
    /\ LET n == Target(thread[t].request)
           on == PoliciesOf(n)
       IN  /\ Selected(t, on[(turns[n] % Len(on)) + 1])
           /\ turns' = [turns EXCEPT ![n] = @ + 1]
    /\ UNCHANGED <<mode, batches, todo, lock, pending, queue, idle, loads>>

\* SyncSimpleRouter.select_policy, when a policy is known to be idle.
SelectIdle(t) ==
    /\ mode = "simple" /\ thread[t].pc = "select" /\ idle # <<>>
    /\ Selected(t, Head(idle))
    /\ idle' = Tail(idle)
    /\ UNCHANGED <<mode, batches, todo, lock, pending, queue, turns, loads>>

\* _flush_idle: check_idle is queued behind an actor's tasks, so it is answered in
\* time by some of those that finished theirs.
FlushIdle(t) ==
    /\ mode = "simple" /\ thread[t].pc = "select" /\ idle = <<>>
    /\ \E free \in SUBSET {p \in Policies : queue[p] = <<>>} : idle' \in SetToSeqs(free)
    /\ UNCHANGED <<mode, batches, todo, thread, lock, pending, queue, turns, loads, given>>

----------------------------------------------------------------------------
\* TaskSubmitter.submit.

Finished(p) == pending[p] \ Range(queue[p])

\* ray.wait without a number of returns: one finished task, if there is one.
Forgettable(p) == IF Finished(p) = {} THEN {{}} ELSE {{task} : task \in Finished(p)}

\* Mutant: a thread does not wait for the lock that another holds.
AcquireShared(t) ==
    /\ thread[t].pc = "submit"
    /\ lock' = lock \cup {t}
    /\ thread' = [thread EXCEPT ![t].pc = "wait"]
    /\ \E forgotten \in Forgettable(thread[t].policy) :
           pending' = [pending EXCEPT ![thread[t].policy] = @ \ forgotten]
    /\ UNCHANGED <<mode, batches, todo, queue, turns, idle, loads, given>>

\* Under the lock: forget a task that is finished.
Acquire(t) ==
    /\ thread[t].pc = "submit" /\ lock = {}
    /\ lock' = {t}
    /\ thread' = [thread EXCEPT ![t].pc = "wait"]
    /\ \E forgotten \in Forgettable(thread[t].policy) :
           pending' = [pending EXCEPT ![thread[t].policy] = @ \ forgotten]
    /\ UNCHANGED <<mode, batches, todo, queue, turns, idle, loads, given>>

Enqueue(p, rs) == queue' = [queue EXCEPT ![p] = @ \o rs]

\* How many of the tasks it remembers of p the submitter waits for.
Excess(p) == Max({0, Cardinality(pending[p]) - (MaxPending - 1)})

\* Mutant: the list of pending tasks is replaced by the new one.
SubmitForgets(t) ==
    /\ thread[t].pc = "wait"
    /\ LET p == thread[t].policy
       IN  \E done \in SUBSET Finished(p) :
               /\ Cardinality(done) = Excess(p)
               /\ pending' = [pending EXCEPT ![p] = {thread[t].request}]
               /\ Enqueue(p, <<thread[t].request>>)
    /\ lock' = {} /\ thread' = [thread EXCEPT ![t] = Resting]
    /\ UNCHANGED <<mode, batches, todo, turns, idle, loads, given>>

\* Mutant: the lock is not given back.
SubmitKeepsLock(t) ==
    /\ thread[t].pc = "wait"
    /\ LET p == thread[t].policy
       IN  \E done \in SUBSET Finished(p) :
               /\ Cardinality(done) = Excess(p)
               /\ pending' = [pending EXCEPT ![p] = (@ \ done) \cup {thread[t].request}]
               /\ Enqueue(p, <<thread[t].request>>)
    /\ thread' = [thread EXCEPT ![t] = Resting]
    /\ UNCHANGED <<mode, batches, todo, lock, turns, idle, loads, given>>

\* Still under the lock: wait until so many tasks are finished that one more fits
\* (ray.wait names exactly that many), call the actor, remember the task.
Submit(t) ==
    /\ thread[t].pc = "wait"
    /\ LET p == thread[t].policy
       IN  \E done \in SUBSET Finished(p) :
               /\ Cardinality(done) = Excess(p)
               /\ pending' = [pending EXCEPT ![p] = (@ \ done) \cup {thread[t].request}]
               /\ Enqueue(p, <<thread[t].request>>)
    /\ lock' = {} /\ thread' = [thread EXCEPT ![t] = Resting]
    /\ UNCHANGED <<mode, batches, todo, turns, idle, loads, given>>

----------------------------------------------------------------------------
\* The async mode.

\* get_num_requests of every policy: requests that wait for admission do not count.
ReadLoads ==
    /\ mode = "async" /\ todo # <<>> /\ loads = <<>>
    /\ loads' \in [Policies -> 0..Len(todo)]
    /\ \A p \in Policies : loads'[p] <= Len(queue[p])
    /\ UNCHANGED <<mode, batches, todo, thread, lock, pending, queue, turns, idle, given>>

\* The entry of a policy in the heap: the load that was read and what it got since.
Entry(p) == loads[p] + given[Elsewhere][p]

\* The top of the heap: the least load, then the first policy.
Lightest ==
    CHOOSE p \in Policies :
        \A q \in Policies : Entry(p) < Entry(q) \/ (Entry(p) = Entry(q) /\ p <= q)

\* SimpleRouter.assign and the call of the actor, request by request: the heap is
\* local to the caller, and so are the loads once they are read.
Assign ==
    /\ mode = "async" /\ loads # <<>> /\ todo # <<>>
    /\ queue' = [queue EXCEPT ![Lightest] = Append(@, Head(todo))]
    /\ given' = [given EXCEPT ![Elsewhere][Lightest] = @ + 1]
    /\ todo' = Tail(todo)
    /\ UNCHANGED <<mode, batches, thread, lock, pending, turns, idle, loads>>

----------------------------------------------------------------------------
\* An actor finishes a task: the first, or in async mode any it works on.
Finish(p) ==
    /\ queue[p] # <<>>
    /\ \E i \in IF mode = "async" THEN DOMAIN queue[p] ELSE {1} :
           queue' = [queue EXCEPT ![p] = RemoveAt(@, i)]
    /\ UNCHANGED <<mode, batches, todo, thread, lock, pending, turns, idle, loads, given>>

Work(t) ==
    Take(t) \/ SelectByTurn(t) \/ SelectIdle(t) \/ FlushIdle(t) \/ Acquire(t) \/ Submit(t)

Next ==
    \/ BeginBatch
    \/ \E t \in Threads : Work(t)
    \/ ReadLoads \/ Assign
    \/ \E p \in Policies : Finish(p)

Spec == Init /\ [][Next]_vars

\* Actors work on, threads run, a lock that is free again and again is given to each
\* that waits for it, and an idle actor is found idle by some probe.
Fairness ==
    /\ \A p \in Policies : WF_vars(Finish(p))
    /\ \A t \in Threads :
           /\ WF_vars(Take(t)) /\ WF_vars(SelectByTurn(t)) /\ WF_vars(SelectIdle(t))
           /\ SF_vars(Acquire(t)) /\ WF_vars(Submit(t))
           /\ WF_vars(FlushIdle(t) /\ idle' # <<>>)
    /\ WF_vars(ReadLoads) /\ WF_vars(Assign)

FairSpec == Spec /\ Fairness

----------------------------------------------------------------------------
\* Properties.

Tasks == 1..(Batches * Len(Batch))

\* A thread is in the lock exactly while it waits for a slot, and no task is in two places.
TypeOK ==
    /\ mode \in Modes /\ batches \in 0..Batches
    /\ \A t \in Threads :
           /\ thread[t].pc \in {"rest", "select", "submit", "wait"}
           /\ thread[t].pc = "wait" <=> t \in lock
    /\ Cardinality(lock) <= 1
    /\ \A p \in Policies : Range(queue[p]) \subseteq Tasks /\ pending[p] \subseteq Tasks
    /\ \A p, q \in Policies : p # q => Range(queue[p]) \cap Range(queue[q]) = {}
    /\ Range(idle) \subseteq Policies

\* "ensuring that the number of pending tasks does not exceed a specified limit":
\* whatever threads submit at once, an actor has at most MaxPending unfinished tasks.
PendingBound == mode # "async" => \A p \in Policies : Len(queue[p]) <= MaxPending

\* What each router promises.
\*  - "distribute tasks evenly across eval policies on the correct node": over all
\*    batches and threads, the policies of a node differ by at most one request.
\*  - simple: no policy is given a request while it works on another; what the deque
\*    holds is idle, and in it once.
\*  - async, "assigns tasks to policies with minimum load": at no time of a batch would
\*    a policy that got a request be better off as another one, by the loads as read.
Balanced ==
    /\ mode = "affinity" =>
        \A n \in Targets : \A p, q \in Policies :
            /\ p \in Range(PoliciesOf(n)) /\ q \in Range(PoliciesOf(n))
                   => given[n][p] <= given[n][q] + 1
            /\ p \notin Range(PoliciesOf(n)) => given[n][p] = 0
    /\ mode = "simple" =>
        /\ \A p \in Range(idle) : queue[p] = <<>>
        /\ Cardinality(Range(idle)) = Len(idle)
        /\ \A t \in Threads : thread[t].policy # None =>
               queue[thread[t].policy] = <<>> /\ thread[t].policy \notin Range(idle)
    /\ mode = "async" /\ loads # <<>> =>
        \A p, q \in Policies : given[Elsewhere][p] > 0 => Entry(p) - 1 <= Entry(q)

\* Load is spread as promised and bounded, whichever threads submit at once.
SpreadAndBounded == PendingBound /\ Balanced

\* Every batch is handed out completely, whatever the actors' queues are.
BatchHandedOut == \A b \in 1..Batches : (batches = b) ~> (batches > b \/ HandedOut)
=============================================================================
