----------------------------- MODULE EvalPolicy -----------------------------
(***************************************************************************)
(* One eval policy with rollout_mode "sync" (policy/base_policy.py) and    *)
(* its weight buffer (weights/weight_buffer.py).  Client threads run       *)
(* rollouts and deliver weights; the daemon thread of update_weights()     *)
(* loads what was delivered.  A remote policy has one client thread, the   *)
(* actor's (Sender \in Roller); in the single-process asynchronous engine  *)
(* the rollout thread and the sync thread are two clients.                 *)
(*                                                                         *)
(* Weights are version numbers; a buffer holding 0 is the empty dict.      *)
(* Every access to an event, to the buffer or to its ready flag is a step  *)
(* of its own.  The buffer's lock guards single assignments only.          *)
(***************************************************************************)
EXTENDS Integers

CONSTANTS
    Roller,     \* client threads that run _rollout and _postprocess
    Sender,     \* client thread that receives weights and is notified
    Updater,    \* the thread of update_weights()
    Waited,     \* versions the engine waits for: verify_eval_weight_consistency
    MaxVersion, \* bound on the versions sent
    Fallible    \* what may raise: "rollout", "load"

Client == Roller \cup {Sender}

Thread == Client \cup {Updater}

ASSUME PolicyAssumption ==
    /\ Updater \notin Client
    /\ MaxVersion \in Nat
    /\ Waited \subseteq Nat
    /\ Fallible \subseteq {"rollout", "load"}

VARIABLES
    pc,         \* the statement each thread is about to execute
    idleAsInfer, \* _idle_as_infer
    signal,     \* _update_weights_signal
    done,       \* _weight_update_done
    buffer,     \* version in the weight buffer, 0 when it is cleared
    ready,      \* WeightBuffer._is_ready
    order,      \* what the engine asks of the Sender next
    pushed,     \* last version put into the buffer
    held,       \* version the updater took from the buffer
    loaded,     \* version of the model's weights
    raised      \* what has raised so far

gate == <<idleAsInfer>>
update == <<signal, done>>
weights == <<buffer, ready, order, pushed, held, loaded>>
evalVars == <<pc, gate, update, weights, raised>>

Goto(t, from, to) == pc[t] = from /\ pc' = [pc EXCEPT ![t] = to]

-----------------------------------------------------------------------------
(***************************************************************************)
(* The idle gate.  Event.wait() returns once the event was set, even when  *)
(* it has been cleared again since: set() wakes every blocked thread.      *)
(***************************************************************************)
Gate(t) ==
    /\ Goto(t, "gate", IF idleAsInfer THEN "close" ELSE "blocked")
    /\ UNCHANGED <<gate, update, weights, raised>>

Close(t) ==
    /\ Goto(t, "close", IF t = Updater THEN "assert" ELSE "infer")
    /\ idleAsInfer' = FALSE
    /\ UNCHANGED <<update, weights, raised>>

\* Mutant: a woken thread goes on without closing the gate.
AwakeOpen(label) == IF label = "blocked" THEN "infer" ELSE
    IF label = "probing" THEN "free" ELSE label

Awake(label) == CASE label = "blocked" -> "close"
                  [] label = "probing" -> "free"
                  [] OTHER -> label

Open(t, from, to) ==
    /\ pc[t] = from
    /\ idleAsInfer' = TRUE
    /\ pc' = [u \in Thread |-> IF u = t THEN to ELSE Awake(pc[u])]

-----------------------------------------------------------------------------
(***************************************************************************)
(* _rollout() and _postprocess(), which go through the same gate, and      *)
(* check_idle(), which only waits at it.                                   *)
(***************************************************************************)
Request(r) ==
    /\ Goto(r, "free", "gate")
    /\ UNCHANGED <<gate, update, weights, raised>>

CheckIdle(r) ==
    /\ ~idleAsInfer
    /\ Goto(r, "free", "probing")
    /\ UNCHANGED <<gate, update, weights, raised>>

Respond(r) == Open(r, "infer", "free") /\ UNCHANGED <<update, weights, raised>>

\* An exception in rollout_step is logged and raised: the gate stays closed.
RolloutRaises(r) ==
    /\ "rollout" \in Fallible
    /\ Goto(r, "infer", "free")
    /\ raised' = raised \cup {"rollout"}
    /\ UNCHANGED <<gate, update, weights>>

Rollout(r) == Request(r) \/ CheckIdle(r) \/ Gate(r) \/ Close(r) \/ Respond(r)

-----------------------------------------------------------------------------
(***************************************************************************)
(* Receiving weights: WeightBuffer.clear() and add_state_dict(), two       *)
(* assignments each.                                                       *)
(***************************************************************************)
ClearBuffer ==
    /\ order = "send"
    /\ pushed < MaxVersion
    /\ Goto(Sender, "free", "unready")
    /\ buffer' = 0
    /\ UNCHANGED <<gate, update, ready, order, pushed, held, loaded, raised>>

Unready ==
    /\ Goto(Sender, "unready", "add")
    /\ ready' = FALSE
    /\ UNCHANGED <<gate, update, buffer, order, pushed, held, loaded, raised>>

AddStateDict ==
    /\ Goto(Sender, "add", "ready")
    /\ buffer' = pushed + 1
    /\ pushed' = pushed + 1
    /\ UNCHANGED <<gate, update, ready, order, held, loaded, raised>>

\* Mutant: the flag that clear() has reset is not set again.
MarkReadyNot ==
    /\ Goto(Sender, "ready", "free")
    /\ order' = "notify"
    /\ UNCHANGED <<gate, update, buffer, ready, pushed, held, loaded, raised>>

MarkReady ==
    /\ Goto(Sender, "ready", "free")
    /\ ready' = TRUE
    /\ order' = "notify"
    /\ UNCHANGED <<gate, update, buffer, pushed, held, loaded, raised>>

RecvWeights == ClearBuffer \/ Unready \/ AddStateDict \/ MarkReady

(***************************************************************************)
(* notify_update_weights() and wait_for_weight_update_done(), which the    *)
(* engine calls for the first version only.                                *)
(***************************************************************************)
\* Mutant: the notification leaves the "done" event of the last update set.
ClearDoneNot ==
    /\ order = "notify"
    /\ Goto(Sender, "free", "signal")
    /\ UNCHANGED <<gate, update, weights, raised>>

ClearDone ==
    /\ order = "notify"
    /\ Goto(Sender, "free", "signal")
    /\ done' = FALSE
    /\ UNCHANGED <<gate, signal, weights, raised>>

SetSignal ==
    /\ Goto(Sender, "signal", "free")
    /\ signal' = TRUE
    /\ order' = IF pushed \in Waited THEN "wait" ELSE "send"
    /\ UNCHANGED <<gate, done, buffer, ready, pushed, held, loaded, raised>>

Notify == ClearDone \/ SetSignal

BeginWait ==
    /\ order = "wait"
    /\ Goto(Sender, "free", "wait_done")
    /\ UNCHANGED <<gate, update, weights, raised>>

\* With the event set the wait returns True; else it may time out.
WaitReturns ==
    /\ Goto(Sender, "wait_done", "free")
    /\ order' = "send"
    /\ UNCHANGED <<gate, update, buffer, ready, pushed, held, loaded, raised>>

WaitForWeightUpdateDone == BeginWait \/ (done /\ WaitReturns)

-----------------------------------------------------------------------------
(***************************************************************************)
(* update_weights(): the pre hook, update_weights_from_buffer() and the    *)
(* post hook.                                                              *)
(***************************************************************************)
AwaitSignal ==
    /\ signal
    /\ Goto(Updater, "await", "gate")
    /\ UNCHANGED <<gate, update, weights, raised>>

\* Mutant: the post hook is skipped when the assertion fails.
AssertReadyNoFinally ==
    /\ Goto(Updater, "assert", IF ready THEN "take" ELSE "await")
    /\ UNCHANGED <<gate, update, weights, raised>>

\* get_state_dict() asserts that the buffer is ready, then reads it.
AssertReady ==
    /\ Goto(Updater, "assert", IF ready THEN "take" ELSE "open")
    /\ UNCHANGED <<gate, update, weights, raised>>

TakeWeights ==
    /\ Goto(Updater, "take", "load")
    /\ held' = buffer
    /\ UNCHANGED <<gate, update, buffer, ready, order, pushed, loaded, raised>>

\* An empty dict loads nothing (a KeyError or a warning).
Load ==
    /\ Goto(Updater, "load", "open")
    /\ loaded' = IF held = 0 THEN loaded ELSE held
    /\ UNCHANGED <<gate, update, buffer, ready, order, pushed, held, raised>>

\* Exceptions are logged; the "finally" clause runs the post hook.
LoadRaises ==
    /\ "load" \in Fallible
    /\ Goto(Updater, "load", "open")
    /\ raised' = raised \cup {"load"}
    /\ UNCHANGED <<gate, update, weights>>

Reopen == Open(Updater, "open", "unsignal") /\ UNCHANGED <<update, weights, raised>>

ClearSignal ==
    /\ Goto(Updater, "unsignal", "redone")
    /\ signal' = FALSE
    /\ UNCHANGED <<gate, done, weights, raised>>

SetDone ==
    /\ Goto(Updater, "redone", "await")
    /\ done' = TRUE
    /\ UNCHANGED <<gate, signal, weights, raised>>

UpdateWeights ==
    \/ AwaitSignal
    \/ Gate(Updater)
    \/ Close(Updater)
    \/ AssertReady
    \/ TakeWeights
    \/ Load
    \/ Reopen
    \/ ClearSignal
    \/ SetDone

-----------------------------------------------------------------------------
\* init_eval(): the policy idle, no update under way, the buffer empty.
EvalInit ==
    /\ pc = [t \in Thread |-> IF t = Updater THEN "await" ELSE "free"]
    /\ idleAsInfer = TRUE
    /\ signal = FALSE
    /\ done = TRUE
    /\ buffer = 0
    /\ ready = FALSE
    /\ order = "send"
    /\ pushed = 0
    /\ held = 0
    /\ loaded = 0
    /\ raised = {}

EvalNext ==
    \/ \E r \in Roller : Rollout(r) \/ RolloutRaises(r)
    \/ RecvWeights
    \/ Notify
    \/ WaitForWeightUpdateDone
    \/ (~done /\ WaitReturns)
    \/ UpdateWeights
    \/ LoadRaises

EvalSpec == EvalInit /\ [][EvalNext]_evalVars

(***************************************************************************)
(* Threads run when they can, inference ends, and the engine goes on       *)
(* sending.  When a client thread serves several callers, its calls come   *)
(* from a FIFO mailbox, so the sends are not overtaken for ever.           *)
(***************************************************************************)
EvalFairness ==
    /\ \A r \in Roller : WF_evalVars(Gate(r)) /\ WF_evalVars(Close(r)) /\ WF_evalVars(Respond(r))
    /\ SF_evalVars(RecvWeights)
    /\ SF_evalVars(Notify)
    /\ SF_evalVars(WaitForWeightUpdateDone)
    /\ WF_evalVars(UpdateWeights)

EvalFairSpec == EvalSpec /\ EvalFairness

-----------------------------------------------------------------------------
RollerLabel == {"free", "gate", "blocked", "close", "infer", "probing"}

SenderLabel == {"free", "unready", "add", "ready", "signal", "wait_done"}

UpdaterLabel == {"await", "gate", "blocked", "close", "assert", "take", "load", "open",
                 "unsignal", "redone"}

Label == RollerLabel \cup SenderLabel \cup UpdaterLabel

EvalTypeOK ==
    /\ pc \in [Thread -> Label]
    /\ \A t \in Client : pc[t] \in RollerLabel \cup SenderLabel
    /\ pc[Updater] \in UpdaterLabel
    /\ idleAsInfer \in BOOLEAN
    /\ signal \in BOOLEAN
    /\ done \in BOOLEAN
    /\ ready \in BOOLEAN
    /\ buffer \in 0..MaxVersion
    /\ order \in {"send", "notify", "wait"}
    /\ pushed \in 0..MaxVersion
    /\ pc[Sender] \in {"unready", "add"} => pushed < MaxVersion
    /\ held \in 0..MaxVersion
    /\ loaded \in 0..MaxVersion
    /\ raised \subseteq Fallible

Inferring(t) == t \in Client /\ pc[t] = "infer"

Updating == pc[Updater] \in {"assert", "take", "load", "open"}

(***************************************************************************)
(* The gate is never left closed with nobody inside, although closing it   *)
(* is two steps and two threads may close it at once: no thread waits at   *)
(* an idle policy.  Only an exception of rollout_step leaves it closed.    *)
(***************************************************************************)
GateNeverLost ==
    idleAsInfer \/ Updating \/ (\E t \in Client : Inferring(t)) \/ "rollout" \in raised

(***************************************************************************)
(* wait_for_weight_update_done() returns True only once the version last   *)
(* delivered is loaded, or has failed to load.                             *)
(***************************************************************************)
FreshWhenDone ==
    [][(pc[Sender] = "wait_done" /\ pc'[Sender] = "free" /\ done)
            => (loaded = pushed \/ "load" \in raised)]_evalVars

(***************************************************************************)
(* Every request that reaches the gate is answered, whatever updates come  *)
(* and fail, unless an earlier one raised.                                 *)
(***************************************************************************)
RolloutsAnswered ==
    \A r \in Roller :
        pc[r] \in {"gate", "probing"} ~> (pc[r] = "free" \/ "rollout" \in raised)

Notified(v) == pushed = v /\ order # "notify" /\ pc[Sender] # "ready"

(***************************************************************************)
(* A version whose notification finds the updater waiting is loaded,       *)
(* unless a newer version takes its place in the buffer or a call raises.  *)
(***************************************************************************)
DeliveredWhenAwaited ==
    \A v \in 1..MaxVersion :
        (Notified(v) /\ signal /\ pc[Updater] = "await")
            ~> (loaded >= v \/ pushed > v \/ raised # {})

\* Rollouts and updates share the gate, and each side gets what it waits for.
EveryoneServed == RolloutsAnswered /\ DeliveredWhenAwaited

-----------------------------------------------------------------------------
(***************************************************************************)
(* What a comment says, and the code does not do.                          *)
(***************************************************************************)
\* "wait until policy is idle", then close the gate: no weights are loaded
\* into a model that is inferring.
Exclusive == pc[Updater] = "load" => \A t \in Client : ~Inferring(t)
=============================================================================
