----------------------------- MODULE EnvServer -----------------------------
(***************************************************************************)
(* RemoteEnvServer (env/env_server.py), its clients                        *)
(* (env/remote_env/env_client.py) and a driver that resets, steps,         *)
(* collects and closes the group, as tests/integration/env/                *)
(* test_remote_env.py does.  The server is an actor with two threads: one  *)
(* receives returns into a bounded queue, one sends responses from another.*)
(*                                                                         *)
(* A return is <<client, k>>, the k-th that its client sends; the response *)
(* to it has the same name.  ZMQ keeps the order of one client's messages  *)
(* and drops what is sent to an identity that is not connected.            *)
(***************************************************************************)
EXTENDS Integers, Sequences, SequencesExt, FiniteSetsExt

CONSTANTS
    Clients,
    MaxEnvs,        \* maxsize of both queues
    TotalSteps,     \* steps after which the environment of a client is finished
    Runs            \* bound: times a client connects and runs

ASSUME ClientsAssumption == IsFiniteSet(Clients)
ASSUME MaxEnvsAssumption == MaxEnvs \in Nat \ {0}
ASSUME TotalStepsAssumption == TotalSteps \in Nat \ {0}
ASSUME RunsAssumption == Runs \in Nat \ {0}

VARIABLES
    client,         \* state of each client: "away", "running", "finishing"
    runs,           \* runs each client started
    steps,          \* step_cnt of its environment
    sent,           \* history: returns it sent
    late,           \* history: it reconnected while a message of an earlier run was under way
    dropped,        \* history: responses that found it away
    toServer,       \* messages on their way, the k of a return or Closed
    toClient,       \* responses on their way, or received and not read
    returnQueue,    \* env_ret_queue
    sendQueue,      \* send_msg_queue
    event,          \* the threads are to end
    receiver,       \* _recv_thread: "check", "poll", "put", "ended"
    received,       \* the return it is putting
    sender,         \* _send_thread: "check", "get", "send", "ended"
    sending,        \* the response it took
    actor,          \* what the actor does: "collect", "drain", "idle", "put", "join", "closed"
    batch           \* returns collected, or the responses it still has to put

clientVars == <<client, runs, steps, sent, late>>
wireVars == <<toServer, toClient, dropped>>
threadVars == <<receiver, received, sender, sending>>
actorVars == <<event, actor, batch>>
vars == <<clientVars, wireVars, returnQueue, sendQueue, threadVars, actorVars>>

Closed == 0

Init ==
    /\ client = [c \in Clients |-> "away"] /\ runs = [c \in Clients |-> 0]
    /\ steps = [c \in Clients |-> 0] /\ sent = [c \in Clients |-> 0]
    /\ late = [c \in Clients |-> FALSE] /\ dropped = [c \in Clients |-> 0]
    /\ toServer = [c \in Clients |-> <<>>] /\ toClient = [c \in Clients |-> <<>>]
    /\ returnQueue = <<>> /\ sendQueue = <<>>
    /\ event = FALSE
    /\ receiver = "check" /\ received = <<>>
    /\ sender = "check" /\ sending = <<>>
    /\ actor = "collect" /\ batch = <<>>

----------------------------------------------------------------------------
\* Messages of c that are somewhere between its sending a return and its reading
\* the response.
HowMany(s, S) == Cardinality({i \in DOMAIN s : s[i] \in S})
UnderWay(c) ==
    LET OfC(s) == HowMany(s, {c} \X Nat)
    IN  HowMany(toServer[c], Nat \ {Closed}) + Len(toClient[c])
        + OfC(received) + OfC(returnQueue) + OfC(batch) + OfC(sendQueue) + OfC(sending)

----------------------------------------------------------------------------
\* The clients.

SendReturn(c) ==
    /\ sent' = [sent EXCEPT ![c] = @ + 1]
    /\ toServer' = [toServer EXCEPT ![c] = Append(@, sent[c] + 1)]

\* connect, and the start of run: reset the environment, send its return.
Connect(c) ==
    /\ client[c] = "away" /\ runs[c] < Runs
    /\ client' = [client EXCEPT ![c] = "running"]
    /\ runs' = [runs EXCEPT ![c] = @ + 1]
    /\ steps' = [steps EXCEPT ![c] = 0]
    /\ late' = [late EXCEPT ![c] = @ \/ UnderWay(c) > 0]
    /\ SendReturn(c)
    /\ UNCHANGED <<toClient, dropped, returnQueue, sendQueue, threadVars, actorVars>>

\* A turn of the loop of run: read a response, step, send the return, is_finish.
Answer(c) ==
    /\ client[c] = "running" /\ toClient[c] # <<>>
    /\ steps' = [steps EXCEPT ![c] = @ + 1]
    /\ toClient' = [toClient EXCEPT ![c] = Tail(@)]
    /\ SendReturn(c)
    /\ client' = [client EXCEPT ![c] = IF steps'[c] >= TotalSteps THEN "finishing" ELSE @]
    /\ UNCHANGED <<runs, late, dropped, returnQueue, sendQueue, threadVars, actorVars>>

\* close: what the socket still held for the client is gone.
CloseClient(c) ==
    /\ client[c] = "finishing"
    /\ client' = [client EXCEPT ![c] = "away"]
    /\ toServer' = [toServer EXCEPT ![c] = Append(@, Closed)]
    /\ dropped' = [dropped EXCEPT ![c] = @ + Len(toClient[c])]
    /\ toClient' = [toClient EXCEPT ![c] = <<>>]
    /\ UNCHANGED <<runs, steps, sent, late, returnQueue, sendQueue, threadVars, actorVars>>

----------------------------------------------------------------------------
\* The threads of the server.

\* The test of the event at the head of either loop.
ReceiverChecks ==
    /\ receiver = "check"
    /\ receiver' = IF event THEN "ended" ELSE "poll"
    /\ UNCHANGED <<received, sender, sending, clientVars, wireVars, returnQueue, sendQueue, actorVars>>

SenderChecks ==
    /\ sender = "check"
    /\ sender' = IF event THEN "ended" ELSE "get"
    /\ UNCHANGED <<receiver, received, sending, clientVars, wireVars, returnQueue, sendQueue, actorVars>>

\* recv_multipart of a message of c; that of a closed client is only logged.
Receive(c) ==
    /\ receiver = "poll" /\ toServer[c] # <<>>
    /\ toServer' = [toServer EXCEPT ![c] = Tail(@)]
    /\ IF Head(toServer[c]) = Closed
       THEN receiver' = "check" /\ UNCHANGED received
       ELSE receiver' = "put" /\ received' = <<<<c, Head(toServer[c])>>>>
    /\ UNCHANGED <<clientVars, toClient, dropped, returnQueue, sendQueue, sender, sending, actorVars>>

\* zmq.Again.
NothingToReceive ==
    /\ receiver = "poll" /\ \A c \in Clients : toServer[c] = <<>>
    /\ receiver' = "check"
    /\ UNCHANGED <<received, sender, sending, clientVars, wireVars, returnQueue, sendQueue, actorVars>>

\* Mutant: a queue for a single return.
PutReturnInOne ==
    /\ receiver = "put" /\ Len(returnQueue) < 1
    /\ returnQueue' = returnQueue \o received
    /\ received' = <<>> /\ receiver' = "check"
    /\ UNCHANGED <<sender, sending, clientVars, wireVars, sendQueue, actorVars>>

\* env_ret_queue.put, which blocks while the queue is full.
PutReturn ==
    /\ receiver = "put" /\ Len(returnQueue) < MaxEnvs
    /\ returnQueue' = returnQueue \o received
    /\ received' = <<>> /\ receiver' = "check"
    /\ UNCHANGED <<sender, sending, clientVars, wireVars, sendQueue, actorVars>>

\* send_msg_queue.get with a timeout.
TakeResponse ==
    /\ sender = "get"
    /\ IF sendQueue = <<>>
       THEN sender' = "check" /\ UNCHANGED <<sending, sendQueue>>
       ELSE sender' = "send" /\ sending' = <<Head(sendQueue)>> /\ sendQueue' = Tail(sendQueue)
    /\ UNCHANGED <<receiver, received, clientVars, wireVars, returnQueue, actorVars>>

\* Mutant: the identity is taken from the response that is next in the queue.
SendToNext ==
    /\ sender = "send" /\ sender' = "check" /\ sending' = <<>>
    /\ LET c == IF sendQueue = <<>> THEN sending[1][1] ELSE sendQueue[1][1]
       IN  IF client[c] = "away"
           THEN dropped' = [dropped EXCEPT ![c] = @ + 1] /\ UNCHANGED toClient
           ELSE toClient' = [toClient EXCEPT ![c] = Append(@, sending[1][2])] /\ UNCHANGED dropped
    /\ UNCHANGED <<receiver, received, clientVars, toServer, returnQueue, sendQueue, actorVars>>

\* send_multipart to the client whose environment the response names.
Send ==
    /\ sender = "send" /\ sender' = "check" /\ sending' = <<>>
    /\ LET c == sending[1][1]
       IN  IF client[c] = "away"
           THEN dropped' = [dropped EXCEPT ![c] = @ + 1] /\ UNCHANGED toClient
           ELSE toClient' = [toClient EXCEPT ![c] = Append(@, sending[1][2])] /\ UNCHANGED dropped
    /\ UNCHANGED <<receiver, received, clientVars, toServer, returnQueue, sendQueue, actorVars>>

----------------------------------------------------------------------------
\* The actor: reset and collect_async wait for a first return and take the rest;
\* the driver then steps all of them or closes the group.

Collect ==
    /\ actor \in {"collect", "drain"} /\ returnQueue # <<>>
    /\ actor' = "drain"
    /\ batch' = Append(batch, Head(returnQueue)) /\ returnQueue' = Tail(returnQueue)
    /\ UNCHANGED <<event, clientVars, wireVars, sendQueue, threadVars>>

CollectEnds ==
    /\ actor = "drain" /\ returnQueue = <<>>
    /\ actor' = "idle"
    /\ UNCHANGED <<event, batch, clientVars, wireVars, returnQueue, sendQueue, threadVars>>

StepAsync ==
    /\ actor = "idle" /\ actor' = "put"
    /\ UNCHANGED <<event, batch, clientVars, wireVars, returnQueue, sendQueue, threadVars>>

PutResponse ==
    /\ actor = "put" /\ batch # <<>> /\ Len(sendQueue) < MaxEnvs
    /\ sendQueue' = Append(sendQueue, Head(batch)) /\ batch' = Tail(batch)
    /\ UNCHANGED <<event, actor, clientVars, wireVars, returnQueue, threadVars>>

\* The collect_async that the group submits after step_async.
StepEnds ==
    /\ actor = "put" /\ batch = <<>> /\ actor' = "collect"
    /\ UNCHANGED <<event, batch, clientVars, wireVars, returnQueue, sendQueue, threadVars>>

\* Mutant: the threads are not told.
CloseUnset ==
    /\ actor = "idle" /\ actor' = "join"
    /\ UNCHANGED <<event, batch, clientVars, wireVars, returnQueue, sendQueue, threadVars>>

\* close: set the event, wait for both threads, close the socket.
Close ==
    /\ actor = "idle" /\ actor' = "join" /\ event' = TRUE
    /\ UNCHANGED <<batch, clientVars, wireVars, returnQueue, sendQueue, threadVars>>

Join ==
    /\ actor = "join" /\ receiver = "ended" /\ sender = "ended"
    /\ actor' = "closed"
    /\ UNCHANGED <<event, batch, clientVars, wireVars, returnQueue, sendQueue, threadVars>>

Next ==
    \/ \E c \in Clients : Connect(c) \/ Answer(c) \/ CloseClient(c) \/ Receive(c)
    \/ ReceiverChecks \/ SenderChecks \/ NothingToReceive \/ PutReturn \/ TakeResponse \/ Send
    \/ Collect \/ CollectEnds \/ StepAsync \/ PutResponse \/ StepEnds \/ Close \/ Join

Spec == Init /\ [][Next]_vars

\* Threads, clients and the actor keep running, and the driver steps or closes; a
\* client need not connect.  ZMQ reads its connections in turn.
Fairness ==
    /\ \A c \in Clients :
           SF_vars(Receive(c)) /\ WF_vars(Answer(c)) /\ WF_vars(CloseClient(c))
    /\ WF_vars(ReceiverChecks) /\ WF_vars(SenderChecks)
    /\ WF_vars(PutReturn) /\ WF_vars(TakeResponse) /\ WF_vars(Send) /\ WF_vars(NothingToReceive)
    /\ WF_vars(Collect) /\ WF_vars(CollectEnds) /\ WF_vars(PutResponse) /\ WF_vars(StepEnds)
    /\ WF_vars(StepAsync \/ Close) /\ WF_vars(Join)

FairSpec == Spec /\ Fairness

----------------------------------------------------------------------------
\* Properties.

Names == {<<c, k>> : c \in Clients, k \in 1..(Runs * (TotalSteps + 1))}

\* The queues keep to their sizes and everything under way names a return sent.
TypeOK ==
    /\ client \in [Clients -> {"away", "running", "finishing"}]
    /\ runs \in [Clients -> 0..Runs] /\ steps \in [Clients -> 0..TotalSteps]
    /\ \A c \in Clients :
           /\ Range(toServer[c]) \subseteq 0..sent[c] /\ Range(toClient[c]) \subseteq 1..sent[c]
           /\ sent[c] <= runs[c] * (TotalSteps + 1)
    /\ Len(returnQueue) <= MaxEnvs /\ Len(sendQueue) <= MaxEnvs
    /\ \A s \in {returnQueue, sendQueue, batch, received, sending} : Range(s) \subseteq Names
    /\ receiver \in {"check", "poll", "put", "ended"} /\ (receiver = "put" <=> received # <<>>)
    /\ sender \in {"check", "get", "send", "ended"} /\ (sender = "send" <=> sending # <<>>)
    /\ actor \in {"collect", "drain", "idle", "put", "join", "closed"}
    /\ event <=> actor \in {"join", "closed"}

\* A client and the server pass one message to and fro: for each run of a client one
\* return or its response is under way, or it was dropped because the client had left.
\* And the response a client reads is the one to the return it sent last, unless it
\* reconnected under the same identity before its previous run was answered.
AnswersLastReturn ==
    \A c \in Clients :
        /\ UnderWay(c) + dropped[c] = runs[c]
        /\ toClient[c] # <<>> /\ ~late[c] => toClient[c] = <<sent[c]>>

Gone == \A c \in Clients : client[c] = "away" /\ UnderWay(c) = 0

\* A client that runs gets all the responses it waits for and finishes, unless the
\* group is closed, and a collect without timeout returns unless every client has
\* left for good and was answered ("if not receive enough, the test will hang here
\* forever").  And close() comes to an end although nobody takes returns any more: the
\* receive thread never blocks in put while the queue has room for a message of every run.
NobodyWaitsForEver ==
    /\ \A c \in Clients : (client[c] = "running") ~> (client[c] # "running" \/ event)
    /\ (actor = "collect") ~> (actor # "collect" \/ Gone)
    /\ (actor = "join") ~> (actor = "closed")
=============================================================================
