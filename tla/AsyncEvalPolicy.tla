-------------------------- MODULE AsyncEvalPolicy --------------------------
(***************************************************************************)
(* One eval policy with rollout_mode "async" (policy/base_policy.py): an   *)
(* actor whose event loop runs the _rollout_async coroutines, and the      *)
(* daemon thread of update_weights() that must load weights only when no   *)
(* request is in flight.  "ready" is the loop's queue of handles, run in   *)
(* FIFO order: a request whose coroutine can go on, or one of the names    *)
(* "clear", "set" (callbacks on _accept_new_requests that the updater      *)
(* schedules with call_soon_threadsafe), "notify" and "wait" (calls of     *)
(* notify_update_weights and wait_for_weight_update_done, plain methods,   *)
(* which an asynchronous actor runs in its loop: the second blocks it), or *)
(* "signal", the second statement of a notification that is being run.     *)
(***************************************************************************)
EXTENDS Integers, Sequences, FiniteSets

CONSTANTS
    Request,    \* requests that may be in the actor at a time: max_concurrency
    Fallible    \* requests whose rollout_step may raise

ASSUME AsyncPolicyAssumption ==
    /\ Request \cap {"clear", "set", "notify", "signal", "wait"} = {}
    /\ IsFiniteSet(Request)
    /\ Fallible \subseteq Request

VARIABLES
    ready,          \* handles the event loop has still to run
    task,           \* where each request's coroutine is
    accept,         \* _accept_new_requests
    waiters,        \* requests waiting for that event, oldest first
    num_requests,
    signal,         \* _update_weights_signal
    done,           \* _weight_update_done
    awaited,        \* the engine waits for an update: "no", "asked", or it blocks the loop
    pc              \* the statement update_weights() is about to execute

loop == <<ready, task, waiters>>
events == <<signal, done>>
asyncVars == <<loop, accept, num_requests, events, awaited, pc>>

Goto(from, to) == pc = from /\ pc' = to

-----------------------------------------------------------------------------
(***************************************************************************)
(* The event loop.                                                         *)
(***************************************************************************)
Schedule(h) == ready' = Append(ready, h)

\* The engine sends requests when a wait it asked for has returned.
Arrive(r) ==
    /\ task[r] = "away" /\ awaited = "no"
    /\ task' = [task EXCEPT ![r] = "starting"]
    /\ Schedule(r)
    /\ UNCHANGED <<accept, waiters, num_requests, events, awaited, pc>>

Infer(r) ==
    /\ task[r] = "running"
    /\ task' = [task EXCEPT ![r] = "finishing"]
    /\ Schedule(r)
    /\ UNCHANGED <<accept, waiters, num_requests, events, awaited, pc>>

NotifyArrives ==
    /\ \A i \in DOMAIN ready : ready[i] # "notify"
    /\ Schedule("notify")
    /\ UNCHANGED <<task, accept, waiters, num_requests, events, awaited, pc>>

\* verify_eval_weight_consistency, between rollouts.
WaitArrives ==
    /\ awaited = "no" /\ \A r \in Request : task[r] \in {"away", "failed"}
    /\ awaited' = "asked"
    /\ Schedule("wait")
    /\ UNCHANGED <<task, accept, waiters, num_requests, events, pc>>

Runs(h) == awaited # "blocks" /\ ready # <<>> /\ Head(ready) = h
Run(h) == Runs(h) /\ ready' = Tail(ready)

\* A coroutine that has waited for the event goes on whatever its value now.
Admit(r) ==
    /\ Run(r)
    /\ task[r] = "waiting" \/ (task[r] = "starting" /\ accept)
    /\ task' = [task EXCEPT ![r] = "running"]
    /\ num_requests' = num_requests + 1
    /\ UNCHANGED <<accept, waiters, events, awaited, pc>>

Await(r) ==
    /\ Run(r)
    /\ task[r] = "starting" /\ ~accept
    /\ task' = [task EXCEPT ![r] = "waiting"]
    /\ waiters' = Append(waiters, r)
    /\ UNCHANGED <<accept, num_requests, events, awaited, pc>>

\* Mutant: the updater is not notified when the last request leaves.
FinishSilently(r) ==
    /\ Run(r)
    /\ task[r] = "finishing"
    /\ task' = [task EXCEPT ![r] = "away"]
    /\ num_requests' = num_requests - 1
    /\ UNCHANGED <<accept, waiters, events, awaited, pc>>

\* Mutant: the counter is not decremented.
FinishUncounted(r) ==
    /\ Run(r)
    /\ task[r] = "finishing"
    /\ task' = [task EXCEPT ![r] = "away"]
    /\ UNCHANGED <<accept, waiters, num_requests, events, awaited, pc>>

\* _post_rollout_hook_async: the last request to leave wakes the updater.
Finish(r) ==
    /\ Run(r)
    /\ task[r] = "finishing"
    /\ task' = [task EXCEPT ![r] = "away"]
    /\ num_requests' = num_requests - 1
    /\ pc' = IF num_requests' = 0 /\ pc = "blocked" THEN "drain" ELSE pc
    /\ UNCHANGED <<accept, waiters, events, awaited>>

\* An exception of rollout_step is raised before the post hook; the caller,
\* who gets it, does not send that request again.
Fail(r) ==
    /\ r \in Fallible
    /\ Run(r)
    /\ task[r] = "finishing"
    /\ task' = [task EXCEPT ![r] = "failed"]
    /\ UNCHANGED <<accept, waiters, num_requests, events, awaited, pc>>

Coroutine(r) == Admit(r) \/ Await(r) \/ Finish(r)

RunClear ==
    /\ Run("clear")
    /\ accept' = FALSE
    /\ UNCHANGED <<task, waiters, num_requests, events, awaited, pc>>

\* Event.set() schedules every waiter.
RunSet ==
    /\ Runs("set")
    /\ accept' = TRUE
    /\ ready' = Tail(ready) \o waiters
    /\ waiters' = <<>>
    /\ UNCHANGED <<task, num_requests, events, awaited, pc>>

\* notify_update_weights clears one event and sets the other; the loop runs nothing in
\* between, the updater does.
RunNotify ==
    /\ Runs("notify")
    /\ done' = FALSE
    /\ ready' = [ready EXCEPT ![1] = "signal"]
    /\ UNCHANGED <<task, accept, waiters, num_requests, signal, awaited, pc>>

RunSignal ==
    /\ Run("signal")
    /\ signal' = TRUE
    /\ UNCHANGED <<task, accept, waiters, num_requests, done, awaited, pc>>

RunWait ==
    /\ Run("wait")
    /\ awaited' = "blocks"
    /\ UNCHANGED <<task, accept, waiters, num_requests, events, pc>>

WaitReturns ==
    /\ awaited = "blocks" /\ done
    /\ awaited' = "no"
    /\ UNCHANGED <<loop, accept, num_requests, events, pc>>

WaitTimesOut ==
    /\ awaited = "blocks" /\ ~done
    /\ awaited' = "no"
    /\ UNCHANGED <<loop, accept, num_requests, events, pc>>

EventLoop ==
    \/ RunWait \/ WaitReturns \/ RunClear \/ RunSet \/ RunNotify \/ RunSignal
    \/ \E r \in Request : Coroutine(r)

-----------------------------------------------------------------------------
(***************************************************************************)
(* update_weights() in its own thread.                                     *)
(***************************************************************************)
AwaitSignal ==
    /\ signal
    /\ Goto("await", "close")
    /\ UNCHANGED <<loop, accept, num_requests, events, awaited>>

CloseGate ==
    /\ Goto("close", "drain")
    /\ Schedule("clear")
    /\ UNCHANGED <<task, accept, waiters, num_requests, events, awaited>>

\* "while self.num_requests > 0: self._inflight_zero_cv.wait()"
Drain ==
    /\ Goto("drain", IF num_requests > 0 THEN "blocked" ELSE "load")
    /\ UNCHANGED <<loop, accept, num_requests, events, awaited>>

\* update_weights_from_buffer() succeeds or its exception is logged.
Load ==
    /\ Goto("load", "open")
    /\ UNCHANGED <<loop, accept, num_requests, events, awaited>>

\* Mutant: the event is set from this thread instead of through the loop.
OpenGateDirectly ==
    /\ Goto("open", "unsignal")
    /\ accept' = TRUE
    /\ ready' = ready \o waiters
    /\ waiters' = <<>>
    /\ UNCHANGED <<task, num_requests, events, awaited>>

\* Mutant: the gate is not opened again.
OpenGateNot ==
    /\ Goto("open", "unsignal")
    /\ UNCHANGED <<loop, accept, num_requests, events, awaited>>

OpenGate ==
    /\ Goto("open", "unsignal")
    /\ Schedule("set")
    /\ UNCHANGED <<task, accept, waiters, num_requests, events, awaited>>

ClearSignal ==
    /\ Goto("unsignal", "set_done")
    /\ signal' = FALSE
    /\ UNCHANGED <<loop, accept, num_requests, done, awaited>>

SetDone ==
    /\ Goto("set_done", "await")
    /\ done' = TRUE
    /\ UNCHANGED <<loop, accept, num_requests, signal, awaited>>

UpdateWeights ==
    AwaitSignal \/ CloseGate \/ Drain \/ Load \/ OpenGate \/ ClearSignal \/ SetDone

-----------------------------------------------------------------------------
\* init_eval(): the gate open, nothing in flight, no update under way.
AsyncInit ==
    /\ ready = <<>>
    /\ task = [r \in Request |-> "away"]
    /\ accept = TRUE
    /\ waiters = <<>>
    /\ num_requests = 0
    /\ signal = FALSE /\ done = TRUE
    /\ awaited = "no"
    /\ pc = "await"

AsyncNext ==
    \/ \E r \in Request : Arrive(r) \/ Infer(r) \/ Fail(r)
    \/ NotifyArrives \/ WaitArrives \/ WaitTimesOut
    \/ EventLoop
    \/ UpdateWeights

AsyncSpec == AsyncInit /\ [][AsyncNext]_asyncVars

\* The loop runs its handles, inference ends, the updater runs when it can.  No wait has
\* to time out.
Fairness ==
    /\ WF_asyncVars(EventLoop)
    /\ \A r \in Request : WF_asyncVars(Infer(r))
    /\ WF_asyncVars(UpdateWeights)

FairAsyncSpec == AsyncSpec /\ Fairness

-----------------------------------------------------------------------------
TaskState == {"away", "starting", "waiting", "running", "finishing",
              "failed"}

AsyncTypeOK ==
    /\ ready \in Seq(Request \cup {"clear", "set", "notify", "signal", "wait"})
    /\ task \in [Request -> TaskState]
    /\ accept \in BOOLEAN
    /\ waiters \in Seq(Request)
    /\ num_requests \in 0..Cardinality(Request)
    /\ signal \in BOOLEAN /\ done \in BOOLEAN
    /\ awaited \in {"no", "asked", "blocks"}
    /\ pc \in {"await", "close", "drain", "blocked", "load", "open", "unsignal",
              "set_done"}

InFlight == {r \in Request : task[r] \in {"running", "finishing"}}

Failed == {r \in Request : task[r] = "failed"}

(***************************************************************************)
(* num_requests, by which the router balances the load and the updater     *)
(* knows that it may load, is the number of requests in flight (one that   *)
(* has raised is never uncounted), and no wake-up is lost: the updater     *)
(* blocks on the condition only while a request is counted, whose end will *)
(* notify it.                                                              *)
(***************************************************************************)
BlockedWhileInFlight ==
    /\ num_requests = Cardinality(InFlight \cup Failed)
    /\ pc = "blocked" => num_requests > 0

GateCallback == {i \in DOMAIN ready : ready[i] \in {"clear", "set"}}

(***************************************************************************)
(* Outside its update window the updater leaves the gate open, although it *)
(* opens and closes it through callbacks that run later, in another thread.*)
(***************************************************************************)
GateSettlesOpen ==
    pc \in {"await", "close", "unsignal", "set_done"} =>
        IF GateCallback = {} THEN accept
        ELSE \E i \in GateCallback : ready[i] = "set" /\ \A j \in GateCallback : j <= i

\* The updater, in a thread of its own, and the event loop agree on who is in flight
\* and on where the gate will be.
UpdaterInStep == BlockedWhileInFlight /\ GateSettlesOpen

\* Requests keep being answered through any number of updates and, however many
\* requests keep coming, a notified update gets its turn, as long as none has raised;
\* and a wait that blocks the event loop, through which the updater opens and closes
\* the gate, comes to its end before its timeout.
AllGetTheirTurn ==
    /\ \A r \in Request : task[r] = "starting" ~> (task[r] = "away" \/ Failed # {})
    /\ (signal /\ pc = "await") ~> (pc = "load" \/ Failed # {})
    /\ awaited = "blocks" ~> (awaited = "no" \/ Failed # {})

-----------------------------------------------------------------------------
\* "stop accepting new requests at the very beginning of the update window",
\* then "Wait until there are no in-flight requests": none runs during a load.
NoneInFlightDuringLoad == pc = "load" => InFlight = {}
=============================================================================
