-------------------------- MODULE EnvWorkers_proofs -------------------------
(***************************************************************************)
(* Proofs about the two kinds of environment workers.                      *)
(*                                                                         *)
(* EnvServer, for any number of clients and runs and any size of the       *)
(* queues: the types, and that the messages under way are those of the     *)
(* runs begun, the one a client reads answering what it sent last.  The    *)
(* inductive invariant counts messages wherever they are, and says of a    *)
(* client that never came back too early that all of its messages bear the *)
(* number of its last return.                                              *)
(*                                                                         *)
(* AutoResetEnv, for any number of simulators, settings and lengths of     *)
(* chunks and rollouts: the types, that every simulator runs the task it   *)
(* is told, and that what is recorded of an episode is what the engine saw *)
(* of it.  The invariant ties the metrics of a simulator to its episode;   *)
(* what a chunk does to them is shown by induction over its calls.         *)
(***************************************************************************)
EXTENDS EnvServer, AutoResetEnv, FiniteSetTheorems, SequenceTheorems, WellFoundedInduction, TLAPS

----------------------------------------------------------------------------
\* Counting the elements of a sequence.

LEMMA CountType ==
    ASSUME NEW T, NEW s \in Seq(T), NEW S
    PROVE  /\ IsFiniteSet({i \in DOMAIN s : s[i] \in S})
           /\ HowMany(s, S) \in Nat
           /\ HowMany(s, S) = 0 <=> \A i \in DOMAIN s : s[i] \notin S
           /\ HowMany(s, S) = 1 => \A i, j \in DOMAIN s : s[i] \in S /\ s[j] \in S => i = j
<1> DEFINE found == {i \in DOMAIN s : s[i] \in S}
<1>1. Len(s) \in Nat /\ found \subseteq 1..Len(s)
      OBVIOUS
<1>2. IsFiniteSet(1..Len(s))
      BY <1>1, FS_Interval
<1>3. IsFiniteSet(found) /\ HowMany(s, S) = Cardinality(found)
      BY <1>1, <1>2, FS_Subset DEF HowMany
<1>4. HowMany(s, S) \in Nat
      BY <1>3, FS_CardinalityType
<1>5. HowMany(s, S) = 0 <=> found = {}
      BY <1>3, FS_EmptySet
<1>6. ASSUME HowMany(s, S) = 1 PROVE \A i, j \in found : i = j
  <2> HIDE DEF found
  <2>1. \E x : found = {x}
        BY <1>3, <1>6, FS_Singleton
  <2> QED BY <2>1
<1> QED BY <1>3, <1>4, <1>5, <1>6

LEMMA CountEmpty ==
    ASSUME NEW S
    PROVE  HowMany(<<>>, S) = 0
<1>1. {i \in DOMAIN <<>> : <<>>[i] \in S} = {}
      OBVIOUS
<1> QED BY <1>1, FS_EmptySet DEF HowMany

LEMMA CountAppend ==
    ASSUME NEW T, NEW s \in Seq(T), NEW x \in T, NEW S
    PROVE  HowMany(Append(s, x), S) = HowMany(s, S) + (IF x \in S THEN 1 ELSE 0)
<1> DEFINE found == {i \in DOMAIN s : s[i] \in S}
           new == {i \in DOMAIN Append(s, x) : Append(s, x)[i] \in S}
           n == Len(s) + 1
<1>1. /\ Len(s) \in Nat /\ DOMAIN Append(s, x) = 1..n /\ DOMAIN s = 1..Len(s)
      /\ \A i \in 1..Len(s) : Append(s, x)[i] = s[i]
      /\ Append(s, x)[n] = x
      OBVIOUS
<1>2. new = IF x \in S THEN found \cup {n} ELSE found
      BY <1>1
<1>3. n \notin found
      BY <1>1
<1>4. /\ IsFiniteSet(found) /\ HowMany(s, S) = Cardinality(found) /\ Cardinality(found) \in Nat
      /\ HowMany(Append(s, x), S) = Cardinality(new)
      BY CountType DEF HowMany
<1> HIDE DEF found, new, n
<1>5. Cardinality(found \cup {n}) = Cardinality(found) + 1
      BY <1>3, <1>4, FS_AddElement
<1> QED BY <1>2, <1>4, <1>5

LEMMA CountTail ==
    ASSUME NEW T, NEW s \in Seq(T), s # <<>>, NEW S
    PROVE  HowMany(s, S) = HowMany(Tail(s), S) + (IF Head(s) \in S THEN 1 ELSE 0)
<1> DEFINE found == {i \in DOMAIN s : s[i] \in S}
           rest == {i \in DOMAIN Tail(s) : Tail(s)[i] \in S}
           later == found \ {1}
           f == [i \in rest |-> i + 1]
<1>1. /\ Tail(s) \in Seq(T) /\ DOMAIN Tail(s) = 1..(Len(s) - 1) /\ DOMAIN s = 1..Len(s)
      /\ Len(s) \in Nat \ {0} /\ Head(s) = s[1]
      /\ \A i \in 1..(Len(s) - 1) : Tail(s)[i] = s[i + 1]
      OBVIOUS
<1>2. /\ IsFiniteSet(found) /\ HowMany(s, S) = Cardinality(found) /\ Cardinality(found) \in Nat
      BY CountType DEF HowMany
<1>3. /\ IsFiniteSet(rest) /\ HowMany(Tail(s), S) = Cardinality(rest)
      BY <1>1, CountType DEF HowMany
<1>4. f \in Bijection(rest, later)
  <2>1. f \in [rest -> later]
        BY <1>1
  <2>2. \A i, j \in rest : f[i] = f[j] => i = j
        BY <1>1
  <2>3. \A j \in later : \E i \in rest : f[i] = j
    <3> SUFFICES ASSUME NEW j \in later PROVE j - 1 \in rest /\ f[j - 1] = j
        OBVIOUS
    <3> QED BY <1>1
  <2> HIDE DEF f, rest, later
  <2> QED BY <2>1, <2>2, <2>3 DEF Bijection, Injection, Surjection, IsInjective
<1>5. Cardinality(later) = Cardinality(rest)
  <2>1. ExistsBijection(rest, later)
        BY <1>4 DEF ExistsBijection
  <2> HIDE DEF rest, later
  <2> QED BY <1>3, <2>1, FS_Bijection
<1>6. Cardinality(later) = IF 1 \in found THEN Cardinality(found) - 1 ELSE Cardinality(found)
  <2> HIDE DEF found
  <2> QED BY <1>2, FS_RemoveElement
<1>7. 1 \in found <=> Head(s) \in S
      BY <1>1
<1> HIDE DEF found, rest, later
<1> QED BY <1>2, <1>3, <1>5, <1>6, <1>7

----------------------------------------------------------------------------
\* The types.
Message == Clients \X (Nat \ {0})

Typed ==
    /\ client \in [Clients -> {"away", "running", "finishing"}]
    /\ runs \in [Clients -> 0..Runs] /\ steps \in [Clients -> 0..TotalSteps]
    /\ \A c \in Clients : client[c] = "running" => steps[c] < TotalSteps
    /\ sent \in [Clients -> Nat] /\ late \in [Clients -> BOOLEAN] /\ dropped \in [Clients -> Nat]
    /\ toServer \in [Clients -> Seq(Nat)] /\ toClient \in [Clients -> Seq(Nat \ {0})]
    /\ returnQueue \in Seq(Message) /\ Len(returnQueue) <= MaxEnvs
    /\ sendQueue \in Seq(Message) /\ Len(sendQueue) <= MaxEnvs
    /\ batch \in Seq(Message)
    /\ received \in Seq(Message) /\ Len(received) <= 1
    /\ sending \in Seq(Message) /\ Len(sending) <= 1
    /\ receiver \in {"check", "poll", "put", "ended"} /\ (receiver = "put" <=> received # <<>>)
    /\ sender \in {"check", "get", "send", "ended"} /\ (sender = "send" <=> sending # <<>>)
    /\ actor \in {"collect", "drain", "idle", "put", "join", "closed"}
    /\ event \in BOOLEAN /\ (event <=> actor \in {"join", "closed"})

LEMMA TypedInit == Init => Typed
<1> SUFFICES ASSUME Init PROVE Typed
    OBVIOUS
<1>1. <<>> \in Seq(Message) /\ <<>> \in Seq(Nat) /\ <<>> \in Seq(Nat \ {0}) /\ Len(<<>>) = 0
      OBVIOUS
<1>2. 0 \in 0..Runs /\ 0 \in 0..TotalSteps /\ 0 <= MaxEnvs
      BY MaxEnvsAssumption, TotalStepsAssumption, RunsAssumption
<1>3. /\ client = [c \in Clients |-> "away"] /\ runs = [c \in Clients |-> 0]
      /\ steps = [c \in Clients |-> 0] /\ sent = [c \in Clients |-> 0]
      /\ late = [c \in Clients |-> FALSE] /\ dropped = [c \in Clients |-> 0]
      /\ toServer = [c \in Clients |-> <<>>] /\ toClient = [c \in Clients |-> <<>>]
      BY DEF Init
<1>4. /\ client \in [Clients -> {"away", "running", "finishing"}]
      /\ runs \in [Clients -> 0..Runs] /\ steps \in [Clients -> 0..TotalSteps]
      /\ sent \in [Clients -> Nat] /\ late \in [Clients -> BOOLEAN] /\ dropped \in [Clients -> Nat]
      /\ toServer \in [Clients -> Seq(Nat)] /\ toClient \in [Clients -> Seq(Nat \ {0})]
      /\ \A c \in Clients : client[c] = "running" => steps[c] < TotalSteps
      BY <1>1, <1>2, <1>3
<1>5. /\ returnQueue = <<>> /\ sendQueue = <<>> /\ ~event /\ receiver = "check"
      /\ received = <<>> /\ sender = "check" /\ sending = <<>> /\ actor = "collect" /\ batch = <<>>
      BY DEF Init
<1>6. event \in BOOLEAN
      BY DEF Init
<1> QED BY <1>1, <1>2, <1>4, <1>5, <1>6 DEF Typed

LEMMA TypedStep == ASSUME Typed, [Next]_vars PROVE Typed'
<1> USE DEF Typed, clientVars, wireVars, threadVars, actorVars
<1>0. /\ MaxEnvs \in Nat \ {0} /\ TotalSteps \in Nat \ {0} /\ Runs \in Nat \ {0}
      /\ <<>> \in Seq(Message) /\ Len(<<>>) = 0
      BY MaxEnvsAssumption, TotalStepsAssumption, RunsAssumption
<1>1. ASSUME NEW c \in Clients, Connect(c) PROVE Typed'
  <2>1. /\ sent' \in [Clients -> Nat] /\ toServer' \in [Clients -> Seq(Nat)]
        BY <1>1 DEF Connect, SendReturn
  <2>2. /\ client' \in [Clients -> {"away", "running", "finishing"}]
        /\ runs' \in [Clients -> 0..Runs] /\ steps' \in [Clients -> 0..TotalSteps]
        /\ \A d \in Clients : client'[d] = "running" => steps'[d] < TotalSteps
        BY <1>0, <1>1 DEF Connect
  <2>3. late' \in [Clients -> BOOLEAN]
    <3>1. \A b \in BOOLEAN : (b \/ UnderWay(c) > 0) \in BOOLEAN
          OBVIOUS
    <3>2. late' = [late EXCEPT ![c] = late[c] \/ UnderWay(c) > 0]
          BY <1>1 DEF Connect
    <3> QED BY <3>1, <3>2
  <2> QED BY <1>1, <2>1, <2>2, <2>3 DEF Connect
<1>2. ASSUME NEW c \in Clients, Answer(c) PROVE Typed'
  <2>1. /\ sent' \in [Clients -> Nat] /\ toServer' \in [Clients -> Seq(Nat)]
    <3>1. sent \in [Clients -> Nat] /\ toServer \in [Clients -> Seq(Nat)]
          BY DEF Typed
    <3>2. /\ sent' = [sent EXCEPT ![c] = sent[c] + 1]
          /\ toServer' = [toServer EXCEPT ![c] = Append(toServer[c], sent[c] + 1)]
          BY <1>2 DEF Answer, SendReturn
    <3>3. sent[c] + 1 \in Nat /\ Append(toServer[c], sent[c] + 1) \in Seq(Nat)
          BY <3>1
    <3> QED BY <3>1, <3>2, <3>3
  <2>2. toClient' \in [Clients -> Seq(Nat \ {0})]
        BY <1>2 DEF Answer
  <2>3. /\ client' \in [Clients -> {"away", "running", "finishing"}]
        /\ steps' \in [Clients -> 0..TotalSteps]
        /\ \A d \in Clients : client'[d] = "running" => steps'[d] < TotalSteps
    <3>1. /\ client[c] = "running" /\ steps' = [steps EXCEPT ![c] = @ + 1]
          /\ client' = [client EXCEPT ![c] = IF steps'[c] >= TotalSteps THEN "finishing" ELSE @]
          BY <1>2 DEF Answer
    <3>2. /\ steps'[c] = steps[c] + 1 /\ steps[c] + 1 \in 0..TotalSteps
          /\ \A d \in Clients \ {c} : steps'[d] = steps[d] /\ client'[d] = client[d]
          BY <1>0, <3>1
    <3>3. client'[c] = IF steps[c] + 1 >= TotalSteps THEN "finishing" ELSE "running"
          BY <3>1, <3>2
    <3>4. \A d \in Clients : client'[d] = "running" => steps'[d] < TotalSteps
      <4> SUFFICES ASSUME NEW d \in Clients, client'[d] = "running"
                   PROVE  steps'[d] < TotalSteps
          OBVIOUS
      <4>1. CASE d = c
        <5>1. ~(steps[c] + 1 >= TotalSteps) /\ steps[c] + 1 \in Nat
              BY <3>2, <3>3, <4>1
        <5> QED BY <1>0, <3>2, <4>1, <5>1
      <4>2. CASE d # c
            BY <3>2, <4>2
      <4> QED BY <4>1, <4>2
    <3> QED BY <3>1, <3>2, <3>4
  <2> QED BY <1>2, <2>1, <2>2, <2>3 DEF Answer
<1>3. ASSUME NEW c \in Clients, CloseClient(c) PROVE Typed'
  <2>1. /\ toServer' \in [Clients -> Seq(Nat)] /\ toClient' \in [Clients -> Seq(Nat \ {0})]
        BY <1>3 DEF CloseClient, Closed
  <2>2. dropped' \in [Clients -> Nat]
    <3>1. dropped[c] + Len(toClient[c]) \in Nat
          OBVIOUS
    <3>2. dropped' = [dropped EXCEPT ![c] = dropped[c] + Len(toClient[c])]
          BY <1>3 DEF CloseClient
    <3> QED BY <3>1, <3>2
  <2>3. /\ client' \in [Clients -> {"away", "running", "finishing"}]
        /\ \A d \in Clients : client'[d] = "running" => client[d] = "running"
        BY <1>3 DEF CloseClient
  <2> QED BY <1>3, <2>1, <2>2, <2>3 DEF CloseClient
<1>4. ASSUME NEW c \in Clients, Receive(c) PROVE Typed'
  <2>1. /\ toServer' \in [Clients -> Seq(Nat)] /\ Head(toServer[c]) \in Nat
        BY <1>4 DEF Receive
  <2>2. Head(toServer[c]) # Closed => <<c, Head(toServer[c])>> \in Message
        BY <2>1 DEF Message, Closed
  <2>3. \A m \in Message : <<m>> \in Seq(Message) /\ Len(<<m>>) <= 1 /\ <<m>> # <<>>
        OBVIOUS
  <2>4. received' \in Seq(Message) /\ Len(received') <= 1
        BY <1>4, <2>2, <2>3 DEF Receive
  <2>5. receiver' \in {"check", "put"} /\ (receiver' = "put" <=> received' # <<>>)
        BY <1>4, <2>2, <2>3 DEF Receive
  <2> QED BY <1>4, <2>1, <2>4, <2>5 DEF Receive
<1>5. CASE ReceiverChecks
  BY <1>5 DEF ReceiverChecks
<1>6. CASE SenderChecks
  BY <1>6 DEF SenderChecks
<1>7. CASE NothingToReceive
  BY <1>7 DEF NothingToReceive
<1>8. CASE PutReturn
  BY <1>0, <1>8 DEF PutReturn
<1>9. CASE TakeResponse
  <2>1. CASE sendQueue = <<>>
        BY <1>9, <2>1 DEF TakeResponse
  <2>2. CASE sendQueue # <<>>
    <3>1. /\ Head(sendQueue) \in Message /\ Tail(sendQueue) \in Seq(Message)
          /\ Len(Tail(sendQueue)) <= MaxEnvs
          BY <1>0, <2>2
    <3>2. /\ sender' = "send" /\ sending' = <<Head(sendQueue)>> /\ sendQueue' = Tail(sendQueue)
          /\ UNCHANGED <<receiver, received, clientVars, wireVars, returnQueue, actorVars>>
          BY <1>9, <2>2 DEF TakeResponse
    <3>3. sending' \in Seq(Message) /\ Len(sending') = 1 /\ sending' # <<>>
          BY <3>1, <3>2
    <3> QED BY <3>1, <3>2, <3>3
  <2> QED BY <2>1, <2>2
<1>10. CASE Send
  <2> DEFINE c == sending[1][1]
             k == sending[1][2]
  <2>1. c \in Clients /\ k \in Nat \ {0}
    <3>1. sending \in Seq(Message) /\ sending # <<>>
          BY <1>10 DEF Send, Typed
    <3>2. sending[1] \in Message
          BY <3>1
    <3> QED BY <3>2 DEF Message
  <2>2. /\ sender' = "check" /\ sending' = <<>>
        /\ \/ dropped' = [dropped EXCEPT ![c] = dropped[c] + 1] /\ UNCHANGED toClient
           \/ toClient' = [toClient EXCEPT ![c] = Append(toClient[c], k)] /\ UNCHANGED dropped
        BY <1>10 DEF Send
  <2> HIDE DEF c, k
  <2>3. dropped[c] + 1 \in Nat /\ Append(toClient[c], k) \in Seq(Nat \ {0})
        BY <2>1
  <2>4. dropped' \in [Clients -> Nat]
        BY <2>2, <2>3
  <2>5. toClient' \in [Clients -> Seq(Nat \ {0})]
        BY <2>2, <2>3
  <2>6. UNCHANGED <<receiver, received, clientVars, toServer, returnQueue, sendQueue, actorVars>>
        BY <1>10 DEF Send
  <2>7. /\ sending' \in Seq(Message) /\ Len(sending') <= 1
        /\ sender' \in {"check", "get", "send", "ended"} /\ (sender' = "send" <=> sending' # <<>>)
        BY <1>0, <2>2
  <2> QED BY <2>4, <2>5, <2>6, <2>7
<1>11. CASE Collect
  BY <1>0, <1>11 DEF Collect
<1>12. CASE CollectEnds
  BY <1>12 DEF CollectEnds
<1>13. CASE StepAsync
  BY <1>13 DEF StepAsync
<1>14. CASE PutResponse
  BY <1>0, <1>14 DEF PutResponse
<1>15. CASE StepEnds
  BY <1>15 DEF StepEnds
<1>16. CASE Close
  BY <1>16 DEF Close
<1>17. CASE Join
  BY <1>17 DEF Join
<1>18. CASE UNCHANGED vars
  BY <1>18 DEF vars
<1> QED BY <1>1, <1>2, <1>3, <1>4, <1>5, <1>6, <1>7, <1>8, <1>9, <1>10, <1>11, <1>12, <1>13,
           <1>14, <1>15, <1>16, <1>17, <1>18 DEF Next

----------------------------------------------------------------------------
\* Where the messages of a client are.
Returns == Nat \ {Closed}
Of(c) == {c} \X Nat

LEMMA Parts ==
    ASSUME NEW c \in Clients
    PROVE  UnderWay(c) =
               HowMany(toServer[c], Returns) + Len(toClient[c])
               + HowMany(received, Of(c)) + HowMany(returnQueue, Of(c)) + HowMany(batch, Of(c))
               + HowMany(sendQueue, Of(c)) + HowMany(sending, Of(c))
BY DEF UnderWay, Returns, Of

LEMMA PartsNext ==
    ASSUME NEW c \in Clients
    PROVE  UnderWay(c)' =
               HowMany(toServer'[c], Returns) + Len(toClient'[c])
               + HowMany(received', Of(c)) + HowMany(returnQueue', Of(c)) + HowMany(batch', Of(c))
               + HowMany(sendQueue', Of(c)) + HowMany(sending', Of(c))
BY DEF UnderWay, Returns, Of, HowMany

\* Every part is a number.
LEMMA PartTypes ==
    ASSUME Typed, NEW c \in Clients
    PROVE  /\ HowMany(toServer[c], Returns) \in Nat /\ Len(toClient[c]) \in Nat
           /\ HowMany(received, Of(c)) \in Nat /\ HowMany(returnQueue, Of(c)) \in Nat
           /\ HowMany(batch, Of(c)) \in Nat /\ HowMany(sendQueue, Of(c)) \in Nat
           /\ HowMany(sending, Of(c)) \in Nat
           /\ UnderWay(c) \in Nat
<1>1. /\ toServer[c] \in Seq(Nat) /\ toClient[c] \in Seq(Nat \ {0})
      /\ received \in Seq(Message) /\ returnQueue \in Seq(Message) /\ batch \in Seq(Message)
      /\ sendQueue \in Seq(Message) /\ sending \in Seq(Message)
      BY DEF Typed
<1>2. \A T : \A q \in Seq(T) : \A S : HowMany(q, S) \in Nat
      BY CountType
<1>3. /\ HowMany(toServer[c], Returns) \in Nat /\ Len(toClient[c]) \in Nat
      /\ HowMany(received, Of(c)) \in Nat /\ HowMany(returnQueue, Of(c)) \in Nat
      /\ HowMany(batch, Of(c)) \in Nat /\ HowMany(sendQueue, Of(c)) \in Nat
      /\ HowMany(sending, Of(c)) \in Nat
      BY <1>1, <1>2
<1>4. UnderWay(c) \in Nat
  <2> DEFINE p1 == HowMany(toServer[c], Returns)
             p2 == Len(toClient[c])
             p3 == HowMany(received, Of(c))
             p4 == HowMany(returnQueue, Of(c))
             p5 == HowMany(batch, Of(c))
             p6 == HowMany(sendQueue, Of(c))
             p7 == HowMany(sending, Of(c))
  <2>1. /\ p1 \in Nat /\ p2 \in Nat /\ p3 \in Nat /\ p4 \in Nat
        /\ p5 \in Nat /\ p6 \in Nat /\ p7 \in Nat
        BY <1>3
  <2>2. UnderWay(c) = p1 + p2 + p3 + p4 + p5 + p6 + p7
        BY Parts
  <2> HIDE DEF p1, p2, p3, p4, p5, p6, p7
  <2> QED BY <2>1, <2>2
<1> QED BY <1>3, <1>4

\* What the threads hand over: the one message they hold.
LEMMA CountOne ==
    ASSUME NEW m \in Message, NEW c \in Clients
    PROVE  /\ HowMany(<<m>>, Of(c)) = IF m[1] = c THEN 1 ELSE 0
           /\ m \in Of(c) <=> m[1] = c
<1>1. m \in Of(c) <=> m[1] = c
      BY DEF Message, Of
<1> DEFINE none == <<>>
           one == <<m>>
<1>2. one = Append(none, m) /\ none \in Seq(Message)
      OBVIOUS
<1>3. HowMany(none, Of(c)) = 0
      BY CountEmpty
<1> HIDE DEF none
<1>4. HowMany(Append(none, m), Of(c)) = HowMany(none, Of(c)) + (IF m \in Of(c) THEN 1 ELSE 0)
      BY <1>2, CountAppend
<1> HIDE DEF one
<1>5. HowMany(one, Of(c)) = IF m[1] = c THEN 1 ELSE 0
      BY <1>1, <1>2, <1>3, <1>4
<1> QED BY <1>1, <1>5 DEF one

LEMMA CountMoved ==
    ASSUME NEW q \in Seq(Message), NEW c \in Clients
    PROVE  /\ \A m \in Message :
                  HowMany(Append(q, m), Of(c)) = HowMany(q, Of(c)) + (IF m[1] = c THEN 1 ELSE 0)
           /\ q # <<>> =>
                  HowMany(q, Of(c)) = HowMany(Tail(q), Of(c)) + (IF Head(q)[1] = c THEN 1 ELSE 0)
<1>1. ASSUME NEW m \in Message
      PROVE  HowMany(Append(q, m), Of(c)) = HowMany(q, Of(c)) + (IF m[1] = c THEN 1 ELSE 0)
  <2>1. HowMany(Append(q, m), Of(c)) = HowMany(q, Of(c)) + (IF m \in Of(c) THEN 1 ELSE 0)
        BY CountAppend
  <2> QED BY <2>1, CountOne
<1>2. ASSUME q # <<>>
      PROVE  HowMany(q, Of(c)) = HowMany(Tail(q), Of(c)) + (IF Head(q)[1] = c THEN 1 ELSE 0)
  <2>1. Head(q) \in Message
        BY <1>2
  <2>2. HowMany(q, Of(c)) = HowMany(Tail(q), Of(c)) + (IF Head(q) \in Of(c) THEN 1 ELSE 0)
        BY <1>2, CountTail
  <2> QED BY <2>1, <2>2, CountOne
<1> QED BY <1>1, <1>2

LEMMA HeldIsOne ==
    ASSUME NEW q \in Seq(Message), Len(q) <= 1, q # <<>>
    PROVE  q[1] \in Message /\ q = <<q[1]>>
<1>1. Len(q) = 1
      BY Len(q) \in Nat, Len(q) # 0
<1> QED BY <1>1

\* A message is never lost but at a client that is away, and a run begins with one.
Kept(c) == UnderWay(c)' + dropped'[c] = UnderWay(c) + dropped[c] + (runs'[c] - runs[c])

LEMMA Conserved == ASSUME Typed, [Next]_vars, NEW d \in Clients PROVE Kept(d)
<1> USE DEF clientVars, wireVars, threadVars, actorVars
<1> DEFINE wire == HowMany(toServer[d], Returns)     wireN == HowMany(toServer'[d], Returns)
           back == Len(toClient[d])                  backN == Len(toClient'[d])
           recv == HowMany(received, Of(d))          recvN == HowMany(received', Of(d))
           ret == HowMany(returnQueue, Of(d))        retN == HowMany(returnQueue', Of(d))
           bat == HowMany(batch, Of(d))              batN == HowMany(batch', Of(d))
           que == HowMany(sendQueue, Of(d))          queN == HowMany(sendQueue', Of(d))
           out == HowMany(sending, Of(d))            outN == HowMany(sending', Of(d))
           mine(b) == IF b THEN 1 ELSE 0
<1>1. Typed'
      BY TypedStep
<1>2. /\ wire \in Nat /\ back \in Nat /\ recv \in Nat /\ ret \in Nat /\ bat \in Nat
      /\ que \in Nat /\ out \in Nat
      BY PartTypes
<1>3. /\ wireN \in Nat /\ backN \in Nat /\ recvN \in Nat /\ retN \in Nat /\ batN \in Nat
      /\ queN \in Nat /\ outN \in Nat
  <2>1. /\ toServer'[d] \in Seq(Nat) /\ toClient'[d] \in Seq(Nat \ {0})
        /\ received' \in Seq(Message) /\ returnQueue' \in Seq(Message)
        /\ batch' \in Seq(Message) /\ sendQueue' \in Seq(Message) /\ sending' \in Seq(Message)
        BY <1>1 DEF Typed
  <2>2. \A T : \A q \in Seq(T) : \A S : HowMany(q, S) \in Nat
        BY CountType
  <2> QED BY <2>1, <2>2
<1>4. /\ runs \in [Clients -> Nat] /\ dropped \in [Clients -> Nat]
      /\ runs'[d] \in Nat /\ dropped'[d] \in Nat
      /\ toServer \in [Clients -> Seq(Nat)] /\ toClient \in [Clients -> Seq(Nat \ {0})]
  <2>1. 0..Runs \subseteq Nat
        BY RunsAssumption
  <2>2. runs' \in [Clients -> Nat] /\ dropped' \in [Clients -> Nat]
        BY <1>1, <2>1 DEF Typed
  <2>3. runs \in [Clients -> Nat] /\ dropped \in [Clients -> Nat]
        BY <2>1 DEF Typed
  <2> QED BY <2>2, <2>3 DEF Typed
<1>5. ASSUME wireN + backN + recvN + retN + batN + queN + outN + dropped'[d]
                 = wire + back + recv + ret + bat + que + out + dropped[d] + (runs'[d] - runs[d])
      PROVE  Kept(d)
  <2>1. UnderWay(d) = wire + back + recv + ret + bat + que + out
        BY Parts
  <2>2. UnderWay(d)' = wireN + backN + recvN + retN + batN + queN + outN
        BY PartsNext
  <2> HIDE DEF wire, back, recv, ret, bat, que, out, wireN, backN, recvN, retN, batN, queN, outN
  <2>3. runs[d] \in Nat /\ dropped[d] \in Nat
        BY <1>4
  <2> QED BY <1>2, <1>3, <1>4, <1>5, <2>1, <2>2, <2>3 DEF Kept
<1>6. /\ toServer' = toServer => wireN = wire
      /\ toClient' = toClient => backN = back
      /\ received' = received => recvN = recv
      /\ returnQueue' = returnQueue => retN = ret
      /\ batch' = batch => batN = bat
      /\ sendQueue' = sendQueue => queN = que
      /\ sending' = sending => outN = out
      BY Zenon
<1>7. /\ received = <<>> => recv = 0
      /\ received' = <<>> => recvN = 0
      /\ sending = <<>> => out = 0
      /\ sending' = <<>> => outN = 0
      BY CountEmpty
<1>8. runs[d] \in Nat /\ dropped[d] \in Nat /\ runs'[d] \in Nat /\ dropped'[d] \in Nat
      BY <1>4
<1>9. ASSUME NEW c \in Clients, SendReturn(c)
      PROVE  wireN = wire + mine(d = c)
  <2>1. toServer' = [toServer EXCEPT ![c] = Append(toServer[c], sent[c] + 1)]
        BY <1>9 DEF SendReturn
  <2>2. sent[c] + 1 \in Returns /\ sent[c] + 1 \in Nat /\ toServer[c] \in Seq(Nat)
    <3>1. sent \in [Clients -> Nat] /\ toServer \in [Clients -> Seq(Nat)]
          BY DEF Typed
    <3>2. sent[c] \in Nat /\ toServer[c] \in Seq(Nat)
          BY <3>1
    <3> QED BY <3>2 DEF Returns, Closed
  <2>3. HowMany(Append(toServer[c], sent[c] + 1), Returns) = HowMany(toServer[c], Returns) + 1
        BY <2>2, CountAppend
  <2>4. CASE d = c
        BY <1>4, <2>1, <2>3, <2>4
  <2>5. CASE d # c
    <3>1. toServer'[d] = toServer[d]
          BY <1>4, <2>1, <2>5
    <3> QED BY <1>2, <2>5, <3>1
  <2> QED BY <2>4, <2>5
<1> HIDE DEF wire, back, recv, ret, bat, que, out, wireN, backN, recvN, retN, batN, queN, outN
<1>10. ASSUME NEW c \in Clients, Connect(c) PROVE Kept(d)
  <2>1. SendReturn(c) /\ runs' = [runs EXCEPT ![c] = runs[c] + 1]
        /\ UNCHANGED <<toClient, dropped, returnQueue, sendQueue, received, sending, batch>>
        BY <1>10 DEF Connect
  <2>2. runs'[d] = runs[d] + mine(d = c)
        BY <1>4, <2>1
  <2>3. wireN = wire + mine(d = c)
        BY <1>9, <2>1
  <2> QED BY <1>2, <1>5, <1>6, <1>8, <2>1, <2>2, <2>3
<1>11. ASSUME NEW c \in Clients, Answer(c) PROVE Kept(d)
  <2>1. SendReturn(c) /\ toClient[c] # <<>> /\ toClient' = [toClient EXCEPT ![c] = Tail(toClient[c])]
        /\ UNCHANGED <<runs, dropped, returnQueue, sendQueue, received, sending, batch>>
        BY <1>11 DEF Answer
  <2>2. back = backN + mine(d = c)
    <3>1. CASE d = c
          BY <1>4, <2>1, <3>1 DEF back, backN
    <3>2. CASE d # c
      <4>1. toClient'[d] = toClient[d]
            BY <1>4, <2>1, <3>2
      <4> QED BY <1>2, <3>2, <4>1 DEF back, backN
    <3> QED BY <3>1, <3>2
  <2>3. wireN = wire + mine(d = c)
        BY <1>9, <2>1
  <2> QED BY <1>2, <1>3, <1>5, <1>6, <1>8, <2>1, <2>2, <2>3
<1>12. ASSUME NEW c \in Clients, CloseClient(c) PROVE Kept(d)
  <2>1. /\ toServer' = [toServer EXCEPT ![c] = Append(toServer[c], Closed)]
        /\ dropped' = [dropped EXCEPT ![c] = dropped[c] + Len(toClient[c])]
        /\ toClient' = [toClient EXCEPT ![c] = <<>>]
        /\ UNCHANGED <<runs, returnQueue, sendQueue, received, sending, batch>>
        BY <1>12 DEF CloseClient
  <2>2. Closed \notin Returns /\ Closed \in Nat /\ toServer[c] \in Seq(Nat)
        BY DEF Typed, Returns, Closed
  <2>3. HowMany(Append(toServer[c], Closed), Returns) = HowMany(toServer[c], Returns) + 0
        BY <2>2, CountAppend
  <2>4. wireN = wire /\ dropped'[d] + backN = dropped[d] + back
    <3>1. CASE d = c
      <4>1. toServer'[d] = Append(toServer[c], Closed) /\ toClient'[d] = <<>>
            /\ dropped'[d] = dropped[d] + Len(toClient[d])
            BY <1>4, <2>1, <3>1
      <4>2. wireN = wire + 0
            BY <2>3, <3>1, <4>1 DEF wire, wireN
      <4>3. backN = 0 /\ dropped'[d] = dropped[d] + back
            BY <4>1 DEF back, backN
      <4> QED BY <1>2, <1>8, <4>2, <4>3
    <3>2. CASE d # c
      <4>1. toServer'[d] = toServer[d] /\ toClient'[d] = toClient[d] /\ dropped'[d] = dropped[d]
            BY <1>4, <2>1, <3>2
      <4> QED BY <4>1 DEF wire, wireN, back, backN
    <3> QED BY <3>1, <3>2
  <2>5. recvN = recv /\ retN = ret /\ batN = bat /\ queN = que /\ outN = out /\ runs'[d] = runs[d]
        BY <1>6, <2>1
  <2>6. wireN + backN + recvN + retN + batN + queN + outN + dropped'[d]
            = wire + back + recv + ret + bat + que + out + dropped[d] + (runs'[d] - runs[d])
        BY <1>2, <1>3, <1>8, <2>4, <2>5
  <2> QED BY <1>5, <2>6
<1>13. ASSUME NEW c \in Clients, Receive(c) PROVE Kept(d)
  <2> DEFINE k == Head(toServer[c])
  <2>1. /\ toServer[c] \in Seq(Nat) /\ toServer[c] # <<>> /\ k \in Nat
        /\ toServer' = [toServer EXCEPT ![c] = Tail(toServer[c])]
        /\ UNCHANGED <<runs, dropped, toClient, returnQueue, sendQueue, sending, batch>>
    <3>1. toServer[c] \in Seq(Nat) /\ toServer[c] # <<>>
          BY <1>13 DEF Receive, Typed
    <3> QED BY <1>13, <3>1 DEF Receive
  <2>2. HowMany(toServer[c], Returns) =
            HowMany(Tail(toServer[c]), Returns) + (IF k \in Returns THEN 1 ELSE 0)
        BY <2>1, CountTail
  <2>3. k \in Returns <=> k # Closed
        BY <2>1 DEF Returns
  <2>4. /\ received = <<>>
        /\ k = Closed => received' = received
        /\ k # Closed => received' = <<<<c, k>>>> /\ <<c, k>> \in Message
    <3>1. receiver = "poll" /\ (receiver = "put" <=> received # <<>>)
          BY <1>13 DEF Receive, Typed
    <3>2. k # Closed => <<c, k>> \in Message
          BY <2>1 DEF Message, Closed
    <3> QED BY <1>13, <3>1, <3>2 DEF Receive
  <2>5. recvN = mine(k # Closed /\ d = c)
    <3>1. CASE k = Closed
      <4>1. received' = <<>>
            BY <2>4, <3>1
      <4>2. recvN = 0
            BY <1>7, <4>1
      <4> QED BY <3>1, <4>2
    <3>2. CASE k # Closed
      <4>1. HowMany(<<<<c, k>>>>, Of(d)) = IF <<c, k>>[1] = d THEN 1 ELSE 0
            BY <2>4, <3>2, CountOne
      <4> QED BY <2>4, <3>2, <4>1 DEF recvN
    <3> QED BY <3>1, <3>2
  <2> HIDE DEF k
  <2>6. wire = wireN + mine(k # Closed /\ d = c)
    <3>1. CASE d = c
      <4>1. toServer'[d] = Tail(toServer[c])
            BY <1>4, <2>1, <3>1
      <4> QED BY <2>2, <2>3, <3>1, <4>1 DEF wire, wireN
    <3>2. CASE d # c
      <4>1. toServer'[d] = toServer[d]
            BY <1>4, <2>1, <3>2
      <4>2. wire = wireN
            BY <4>1 DEF wire, wireN
      <4> QED BY <1>2, <3>2, <4>2
    <3> QED BY <3>1, <3>2
  <2>7. /\ backN = back /\ retN = ret /\ batN = bat /\ queN = que /\ outN = out
        /\ runs'[d] = runs[d] /\ dropped'[d] = dropped[d]
        BY <1>6, <2>1
  <2>8. recv = 0
        BY <1>7, <2>4
  <2> QED BY <1>2, <1>3, <1>5, <1>8, <2>5, <2>6, <2>7, <2>8
<1>14. CASE PutReturn
  <2>1. /\ received # <<>> /\ returnQueue' = returnQueue \o received /\ received' = <<>>
        /\ UNCHANGED <<runs, dropped, toServer, toClient, sendQueue, sending, batch>>
        BY <1>14 DEF PutReturn, Typed
  <2>2. received[1] \in Message /\ received = <<received[1]>>
        BY <2>1, HeldIsOne DEF Typed
  <2>3. returnQueue' = Append(returnQueue, received[1]) /\ returnQueue \in Seq(Message)
        BY <2>1, <2>2 DEF Typed
  <2>4. retN = ret + mine(received[1][1] = d)
        BY <2>2, <2>3, CountMoved DEF ret, retN
  <2>5. HowMany(<<received[1]>>, Of(d)) = mine(received[1][1] = d)
        BY <2>2, CountOne
  <2>6. recv = mine(received[1][1] = d)
        BY <2>2, <2>5 DEF recv
  <2>7. /\ wireN = wire /\ backN = back /\ batN = bat /\ queN = que /\ outN = out
        /\ runs'[d] = runs[d] /\ dropped'[d] = dropped[d]
        BY <1>6, <2>1
  <2>8. recvN = 0
        BY <1>7, <2>1
  <2> QED BY <1>2, <1>3, <1>5, <1>8, <2>4, <2>6, <2>7, <2>8
<1>15. CASE TakeResponse
  <2>1. CASE sendQueue = <<>>
    <3>1. UNCHANGED <<runs, dropped, toServer, toClient, received, returnQueue, sendQueue, sending,
                      batch>>
          BY <1>15, <2>1 DEF TakeResponse
    <3> QED BY <1>2, <1>5, <1>6, <1>8, <3>1
  <2>2. CASE sendQueue # <<>>
    <3>1. /\ sending = <<>> /\ sending' = <<Head(sendQueue)>> /\ sendQueue' = Tail(sendQueue)
          /\ UNCHANGED <<runs, dropped, toServer, toClient, received, returnQueue, batch>>
          BY <1>15, <2>2 DEF TakeResponse, Typed
    <3>2. Head(sendQueue) \in Message /\ sendQueue \in Seq(Message)
          BY <2>2 DEF Typed
    <3>3. que = queN + mine(Head(sendQueue)[1] = d)
          BY <2>2, <3>1, <3>2, CountMoved DEF que, queN
    <3>4. HowMany(<<Head(sendQueue)>>, Of(d)) = mine(Head(sendQueue)[1] = d)
          BY <3>2, CountOne
    <3>5. outN = mine(Head(sendQueue)[1] = d)
          BY <3>1, <3>4 DEF outN
    <3>6. /\ wireN = wire /\ backN = back /\ recvN = recv /\ retN = ret /\ batN = bat
          /\ runs'[d] = runs[d] /\ dropped'[d] = dropped[d]
          BY <1>6, <3>1
    <3>7. out = 0
          BY <1>7, <3>1
    <3> QED BY <1>2, <1>3, <1>5, <1>8, <3>3, <3>5, <3>6, <3>7
  <2> QED BY <2>1, <2>2
<1>16. CASE Send
  <2> DEFINE c == sending[1][1]
             k == sending[1][2]
  <2>1. /\ sending # <<>> /\ sending' = <<>>
        /\ UNCHANGED <<runs, toServer, received, returnQueue, sendQueue, batch>>
        BY <1>16 DEF Send, Typed
  <2>2. sending[1] \in Message /\ sending = <<sending[1]>>
        BY <2>1, HeldIsOne DEF Typed
  <2>3. HowMany(<<sending[1]>>, Of(d)) = mine(c = d)
        BY <2>2, CountOne
  <2>4. out = mine(c = d)
        BY <2>2, <2>3 DEF out
  <2>5. c \in Clients /\ k \in Nat \ {0}
        BY <2>2 DEF Message
  <2>6. \/ dropped' = [dropped EXCEPT ![c] = dropped[c] + 1] /\ UNCHANGED toClient
        \/ toClient' = [toClient EXCEPT ![c] = Append(toClient[c], k)] /\ UNCHANGED dropped
        BY <1>16 DEF Send
  <2> HIDE DEF c, k
  <2>7. dropped'[d] + backN = dropped[d] + back + mine(c = d)
    <3>1. CASE dropped' = [dropped EXCEPT ![c] = dropped[c] + 1] /\ UNCHANGED toClient
      <4>1. dropped'[d] = dropped[d] + mine(c = d) /\ backN = back
            BY <1>4, <1>6, <1>8, <2>5, <3>1
      <4> QED BY <1>2, <1>8, <4>1
    <3>2. CASE toClient' = [toClient EXCEPT ![c] = Append(toClient[c], k)] /\ UNCHANGED dropped
      <4>1. CASE c = d
            BY <1>4, <1>8, <2>5, <3>2, <4>1 DEF back, backN
      <4>2. CASE c # d
        <5>1. toClient'[d] = toClient[d]
              BY <1>4, <2>5, <3>2, <4>2
        <5>2. backN = back
              BY <5>1 DEF back, backN
        <5> QED BY <1>2, <1>8, <3>2, <4>2, <5>2
      <4> QED BY <4>1, <4>2
    <3> QED BY <2>6, <3>1, <3>2
  <2>8. /\ wireN = wire /\ recvN = recv /\ retN = ret /\ batN = bat /\ queN = que
        /\ runs'[d] = runs[d]
        BY <1>6, <2>1
  <2>9. outN = 0
        BY <1>7, <2>1
  <2> QED BY <1>2, <1>3, <1>5, <1>8, <2>4, <2>7, <2>8, <2>9
<1>17. CASE Collect
  <2>1. /\ returnQueue # <<>> /\ returnQueue' = Tail(returnQueue)
        /\ batch' = Append(batch, Head(returnQueue))
        /\ UNCHANGED <<runs, dropped, toServer, toClient, received, sendQueue, sending>>
        BY <1>17 DEF Collect
  <2>2. /\ returnQueue \in Seq(Message) /\ Head(returnQueue) \in Message /\ batch \in Seq(Message)
        BY <2>1 DEF Typed
  <2>3. ret = retN + mine(Head(returnQueue)[1] = d)
        BY <2>1, <2>2, CountMoved DEF ret, retN
  <2>4. batN = bat + mine(Head(returnQueue)[1] = d)
        BY <2>1, <2>2, CountMoved DEF bat, batN
  <2>5. /\ wireN = wire /\ backN = back /\ recvN = recv /\ queN = que /\ outN = out
        /\ runs'[d] = runs[d] /\ dropped'[d] = dropped[d]
        BY <1>6, <2>1
  <2> QED BY <1>2, <1>3, <1>5, <1>8, <2>3, <2>4, <2>5
<1>18. CASE PutResponse
  <2>1. /\ batch # <<>> /\ batch' = Tail(batch) /\ sendQueue' = Append(sendQueue, Head(batch))
        /\ UNCHANGED <<runs, dropped, toServer, toClient, received, returnQueue, sending>>
        BY <1>18 DEF PutResponse
  <2>2. batch \in Seq(Message) /\ Head(batch) \in Message /\ sendQueue \in Seq(Message)
        BY <2>1 DEF Typed
  <2>3. bat = batN + mine(Head(batch)[1] = d)
        BY <2>1, <2>2, CountMoved DEF bat, batN
  <2>4. queN = que + mine(Head(batch)[1] = d)
        BY <2>1, <2>2, CountMoved DEF que, queN
  <2>5. /\ wireN = wire /\ backN = back /\ recvN = recv /\ retN = ret /\ outN = out
        /\ runs'[d] = runs[d] /\ dropped'[d] = dropped[d]
        BY <1>6, <2>1
  <2> QED BY <1>2, <1>3, <1>5, <1>8, <2>3, <2>4, <2>5
<1>19. CASE UNCHANGED <<runs, dropped, toServer, toClient, received, returnQueue, sendQueue, sending,
                        batch>>
  BY <1>2, <1>5, <1>6, <1>8, <1>19
<1> QED BY <1>10, <1>11, <1>12, <1>13, <1>14, <1>15, <1>16, <1>17, <1>18, <1>19
        DEF Next, ReceiverChecks, SenderChecks, NothingToReceive, CollectEnds, StepAsync, StepEnds,
            Close, Join, vars

----------------------------------------------------------------------------
\* The numbers.  A run sends one return when it starts and one after each step.
Numbered ==
    \A c \in Clients :
        /\ sent[c] <= runs[c] * (TotalSteps + 1)
        /\ client[c] = "running" => sent[c] + (TotalSteps - steps[c]) <= runs[c] * (TotalSteps + 1)

LEMMA Product == \A a, b \in Nat : a * b \in Nat /\ (a + 1) * b = a * b + b
OBVIOUS

LEMMA Monotone == \A a, b, c \in Nat : a <= b => a * c <= b * c
OBVIOUS

LEMMA NumberedStep == ASSUME Typed, Numbered, [Next]_vars PROVE Numbered'
<1> USE DEF clientVars, wireVars, threadVars, actorVars
<1> DEFINE all(c) == runs[c] * (TotalSteps + 1)
           todo(c) == TotalSteps - steps[c]
<1>1. TotalSteps \in Nat \ {0} /\ Runs \in Nat \ {0}
      BY TotalStepsAssumption, RunsAssumption
<1>2. /\ runs \in [Clients -> Nat] /\ steps \in [Clients -> 0..TotalSteps]
      /\ sent \in [Clients -> Nat] /\ client \in [Clients -> {"away", "running", "finishing"}]
      BY <1>1 DEF Typed
<1>3. ASSUME NEW d \in Clients
      PROVE  all(d) \in Nat /\ todo(d) \in Nat /\ sent[d] \in Nat /\ steps[d] \in Nat
  <2>1. runs[d] \in Nat /\ TotalSteps + 1 \in Nat /\ steps[d] \in 0..TotalSteps
        BY <1>1, <1>2
  <2> QED BY <1>1, <1>2, <2>1, Product
<1>4. ASSUME NEW d \in Clients,
             client'[d] = client[d] \/ client'[d] # "running",
             runs'[d] = runs[d], steps'[d] = steps[d], sent'[d] = sent[d]
      PROVE  /\ sent'[d] <= runs'[d] * (TotalSteps + 1)
             /\ client'[d] = "running" =>
                    sent'[d] + (TotalSteps - steps'[d]) <= runs'[d] * (TotalSteps + 1)
      BY <1>4 DEF Numbered
<1>5. ASSUME NEW c \in Clients, Connect(c) PROVE Numbered'
  <2>1. SUFFICES ASSUME NEW d \in Clients
                 PROVE  /\ sent'[d] <= runs'[d] * (TotalSteps + 1)
                        /\ client'[d] = "running" =>
                               sent'[d] + (TotalSteps - steps'[d]) <= runs'[d] * (TotalSteps + 1)
        BY DEF Numbered
  <2>2. CASE d = c
    <3>1. runs'[d] = runs[d] + 1 /\ steps'[d] = 0 /\ sent'[d] = sent[d] + 1
          BY <1>2, <1>5, <2>2 DEF Connect, SendReturn
    <3>2. (runs[d] + 1) * (TotalSteps + 1) = all(d) + (TotalSteps + 1)
      <4>1. runs[d] \in Nat /\ TotalSteps + 1 \in Nat
            BY <1>1, <1>2
      <4> QED BY <4>1, Product
    <3>3. sent[d] <= all(d)
          BY DEF Numbered
    <3>4. runs'[d] * (TotalSteps + 1) = all(d) + (TotalSteps + 1)
          BY <3>1, <3>2
    <3> HIDE DEF all
    <3> QED BY <1>1, <1>3, <3>1, <3>3, <3>4
  <2>3. CASE d # c
    <3>1. runs'[d] = runs[d] /\ steps'[d] = steps[d] /\ sent'[d] = sent[d] /\ client'[d] = client[d]
          BY <1>2, <1>5, <2>3 DEF Connect, SendReturn
    <3> QED BY <1>4, <3>1
  <2> QED BY <2>2, <2>3
<1>6. ASSUME NEW c \in Clients, Answer(c) PROVE Numbered'
  <2>1. SUFFICES ASSUME NEW d \in Clients
                 PROVE  /\ sent'[d] <= runs'[d] * (TotalSteps + 1)
                        /\ client'[d] = "running" =>
                               sent'[d] + (TotalSteps - steps'[d]) <= runs'[d] * (TotalSteps + 1)
        BY DEF Numbered
  <2>2. CASE d = c
    <3>1. client[d] = "running" /\ runs'[d] = runs[d] /\ steps'[d] = steps[d] + 1
          /\ sent'[d] = sent[d] + 1
          BY <1>2, <1>6, <2>2 DEF Answer, SendReturn
    <3>2. sent[d] + todo(d) <= all(d) /\ steps[d] < TotalSteps
          BY <3>1 DEF Numbered, Typed
    <3>3. runs'[d] * (TotalSteps + 1) = all(d)
          BY <3>1
    <3> HIDE DEF all
    <3> QED BY <1>1, <1>3, <3>1, <3>2, <3>3
  <2>3. CASE d # c
    <3>1. runs'[d] = runs[d] /\ steps'[d] = steps[d] /\ sent'[d] = sent[d] /\ client'[d] = client[d]
          BY <1>2, <1>6, <2>3 DEF Answer, SendReturn
    <3> QED BY <1>4, <3>1
  <2> QED BY <2>2, <2>3
<1>7. ASSUME NEW c \in Clients, CloseClient(c) PROVE Numbered'
  <2>1. \A d \in Clients : client'[d] = client[d] \/ client'[d] # "running"
        BY <1>2, <1>7 DEF CloseClient
  <2>2. UNCHANGED <<runs, steps, sent>>
        BY <1>7 DEF CloseClient
  <2> QED BY <1>4, <2>1, <2>2 DEF Numbered
<1>8. CASE UNCHANGED <<client, runs, steps, sent>>
  BY <1>4, <1>8 DEF Numbered
<1> QED BY <1>5, <1>6, <1>7, <1>8
        DEF Next, Receive, ReceiverChecks, SenderChecks, NothingToReceive, PutReturn, TakeResponse,
            Send, Collect, CollectEnds, StepAsync, PutResponse, StepEnds, Close, Join, vars

----------------------------------------------------------------------------
\* What is under way.  One message for each run begun that was not dropped, and no
\* more than one while the client never came back too early.
Answered ==
    \A c \in Clients : UnderWay(c) + dropped[c] = runs[c] /\ (~late[c] => UnderWay(c) <= 1)

LEMMA AnsweredStep == ASSUME Typed, Answered, [Next]_vars PROVE Answered'
<1> USE DEF clientVars, wireVars, threadVars, actorVars
<1>1. Typed'
      BY TypedStep
<1>2. SUFFICES ASSUME NEW d \in Clients
               PROVE  UnderWay(d)' + dropped'[d] = runs'[d] /\ (~late'[d] => UnderWay(d)' <= 1)
      BY DEF Answered
<1>3. UnderWay(d)' + dropped'[d] = UnderWay(d) + dropped[d] + (runs'[d] - runs[d])
      BY Conserved DEF Kept
<1>4. /\ UnderWay(d) \in Nat /\ dropped \in [Clients -> Nat] /\ runs \in [Clients -> 0..Runs]
      /\ late \in [Clients -> BOOLEAN]
      BY PartTypes DEF Typed
<1>5. UnderWay(d)' \in Nat /\ dropped'[d] \in Nat /\ runs'[d] \in Nat
  <2>1. UnderWay(d)' \in Nat
    <3>1. /\ toServer'[d] \in Seq(Nat) /\ toClient'[d] \in Seq(Nat \ {0})
          /\ received' \in Seq(Message) /\ returnQueue' \in Seq(Message)
          /\ batch' \in Seq(Message) /\ sendQueue' \in Seq(Message) /\ sending' \in Seq(Message)
          BY <1>1 DEF Typed
    <3>2. \A T : \A q \in Seq(T) : \A S : HowMany(q, S) \in Nat
          BY CountType
    <3>3. /\ HowMany(toServer'[d], Returns) \in Nat /\ Len(toClient'[d]) \in Nat
          /\ HowMany(received', Of(d)) \in Nat /\ HowMany(returnQueue', Of(d)) \in Nat
          /\ HowMany(batch', Of(d)) \in Nat /\ HowMany(sendQueue', Of(d)) \in Nat
          /\ HowMany(sending', Of(d)) \in Nat
          BY <3>1, <3>2
    <3> DEFINE p1 == HowMany(toServer'[d], Returns)
               p2 == Len(toClient'[d])
               p3 == HowMany(received', Of(d))
               p4 == HowMany(returnQueue', Of(d))
               p5 == HowMany(batch', Of(d))
               p6 == HowMany(sendQueue', Of(d))
               p7 == HowMany(sending', Of(d))
    <3>4. /\ p1 \in Nat /\ p2 \in Nat /\ p3 \in Nat /\ p4 \in Nat
          /\ p5 \in Nat /\ p6 \in Nat /\ p7 \in Nat
          BY <3>3
    <3>5. UnderWay(d)' = p1 + p2 + p3 + p4 + p5 + p6 + p7
          BY PartsNext
    <3> HIDE DEF p1, p2, p3, p4, p5, p6, p7
    <3> QED BY <3>4, <3>5
  <2> QED BY <1>1, <2>1, RunsAssumption DEF Typed
<1>6. runs[d] \in Nat /\ dropped[d] \in Nat
      BY <1>4, RunsAssumption
<1>7. UnderWay(d) + dropped[d] = runs[d] /\ (~late[d] => UnderWay(d) <= 1)
      BY DEF Answered
<1>8. ASSUME runs'[d] = runs[d], late'[d] = late[d], dropped'[d] >= dropped[d]
      PROVE  UnderWay(d)' + dropped'[d] = runs'[d] /\ (~late'[d] => UnderWay(d)' <= 1)
  <2>1. /\ UnderWay(d) \in Nat /\ UnderWay(d)' \in Nat /\ runs[d] \in Nat
        /\ dropped[d] \in Nat /\ dropped'[d] \in Nat
        BY <1>4, <1>5, <1>6
  <2>2. UnderWay(d)' + dropped'[d] = runs'[d]
        BY <1>3, <1>7, <1>8, <2>1
  <2>3. UnderWay(d)' <= UnderWay(d)
        BY <1>7, <1>8, <2>1, <2>2
  <2>4. ~late'[d] => UnderWay(d) <= 1
        BY <1>7, <1>8
  <2> QED BY <2>1, <2>2, <2>3, <2>4
<1>9. ASSUME NEW c \in Clients, Connect(c)
      PROVE  UnderWay(d)' + dropped'[d] = runs'[d] /\ (~late'[d] => UnderWay(d)' <= 1)
  <2>1. CASE d = c
    <3>1. runs'[d] = runs[d] + 1 /\ dropped'[d] = dropped[d]
          BY <1>4, <1>9, <2>1 DEF Connect
    <3>2. ~late'[d] => ~(UnderWay(d) > 0)
      <4>1. late'[c] = (late[c] \/ UnderWay(c) > 0)
            BY <1>4, <1>9 DEF Connect
      <4> QED BY <2>1, <4>1
    <3> QED BY <1>3, <1>4, <1>5, <1>6, <1>7, <3>1, <3>2
  <2>2. CASE d # c
    <3>1. runs'[d] = runs[d] /\ dropped'[d] = dropped[d] /\ late'[d] = late[d]
          BY <1>4, <1>9, <2>2 DEF Connect
    <3> QED BY <1>6, <1>8, <3>1
  <2> QED BY <2>1, <2>2
<1>10. CASE UNCHANGED <<runs, late>> /\ dropped'[d] >= dropped[d]
  BY <1>8, <1>10
<1>11. ASSUME NEW c \in Clients, CloseClient(c)
       PROVE  UNCHANGED <<runs, late>> /\ dropped'[d] >= dropped[d]
  <2>1. dropped' = [dropped EXCEPT ![c] = dropped[c] + Len(toClient[c])] /\ UNCHANGED <<runs, late>>
        BY <1>11 DEF CloseClient
  <2>2. Len(toClient[c]) \in Nat /\ dropped[c] \in Nat
        BY <1>4 DEF Typed
  <2>3. CASE d = c
        BY <1>4, <2>1, <2>2, <2>3
  <2>4. CASE d # c
    <3>1. dropped'[d] = dropped[d]
          BY <1>4, <2>1, <2>4
    <3> QED BY <1>6, <2>1, <3>1
  <2> QED BY <2>3, <2>4
<1>12. ASSUME Send PROVE UNCHANGED <<runs, late>> /\ dropped'[d] >= dropped[d]
  <2> DEFINE c == sending[1][1]
  <2>1. /\ UNCHANGED <<runs, late>>
        /\ dropped' = [dropped EXCEPT ![c] = dropped[c] + 1] \/ UNCHANGED dropped
        BY <1>12 DEF Send
  <2> HIDE DEF c
  <2>2. CASE UNCHANGED dropped
        BY <1>6, <2>1, <2>2
  <2>3. CASE dropped' = [dropped EXCEPT ![c] = dropped[c] + 1]
    <3>1. dropped'[d] = IF d = c THEN dropped[d] + 1 ELSE dropped[d]
          BY <1>4, <2>3
    <3> QED BY <1>6, <2>1, <3>1
  <2> QED BY <2>1, <2>2, <2>3
<1>13. ASSUME UNCHANGED <<runs, late, dropped>>
       PROVE  UNCHANGED <<runs, late>> /\ dropped'[d] >= dropped[d]
       BY <1>6, <1>13
<1> QED BY <1>9, <1>10, <1>11, <1>12, <1>13
        DEF Next, Answer, Receive, ReceiverChecks, SenderChecks, NothingToReceive, PutReturn,
            TakeResponse, Collect, CollectEnds, StepAsync, PutResponse, StepEnds, Close, Join, vars

----------------------------------------------------------------------------
\* What the messages say.  Those of a client bear numbers of returns it sent, and the
\* number of the last one while it never came back too early.
Current(c) == {k \in 1..sent[c] : late[c] \/ k = sent[c]}
Valid == {m \in Message : m[2] \in Current(m[1])}

Borne ==
    /\ \A c \in Clients :
           toServer[c] \in Seq(Current(c) \cup {Closed}) /\ toClient[c] \in Seq(Current(c))
    /\ received \in Seq(Valid) /\ returnQueue \in Seq(Valid) /\ batch \in Seq(Valid)
    /\ sendQueue \in Seq(Valid) /\ sending \in Seq(Valid)

LEMMA MembersOfSeq ==
    ASSUME NEW S, NEW T, NEW q \in Seq(S), \A i \in DOMAIN q : q[i] \in T
    PROVE  q \in Seq(T)
OBVIOUS

\* When all that is under way of a client is what it has not read, nothing of it is elsewhere.
LEMMA AllIsBack ==
    ASSUME Typed, NEW c \in Clients, UnderWay(c) <= Len(toClient[c])
    PROVE  /\ \A i \in DOMAIN toServer[c] : toServer[c][i] = Closed
           /\ \A q \in {received, returnQueue, batch, sendQueue, sending} :
                  \A i \in DOMAIN q : q[i][1] # c
<1>1. /\ HowMany(toServer[c], Returns) = 0
      /\ HowMany(received, Of(c)) = 0 /\ HowMany(returnQueue, Of(c)) = 0
      /\ HowMany(batch, Of(c)) = 0 /\ HowMany(sendQueue, Of(c)) = 0
      /\ HowMany(sending, Of(c)) = 0
  <2>1. UnderWay(c) =
            HowMany(toServer[c], Returns) + Len(toClient[c])
            + HowMany(received, Of(c)) + HowMany(returnQueue, Of(c)) + HowMany(batch, Of(c))
            + HowMany(sendQueue, Of(c)) + HowMany(sending, Of(c))
        BY Parts
  <2>2. /\ HowMany(toServer[c], Returns) \in Nat /\ Len(toClient[c]) \in Nat
        /\ HowMany(received, Of(c)) \in Nat /\ HowMany(returnQueue, Of(c)) \in Nat
        /\ HowMany(batch, Of(c)) \in Nat /\ HowMany(sendQueue, Of(c)) \in Nat
        /\ HowMany(sending, Of(c)) \in Nat
        BY PartTypes
  <2> QED BY <2>1, <2>2
<1>2. \A i \in DOMAIN toServer[c] : toServer[c][i] = Closed
  <2>1. toServer[c] \in Seq(Nat)
        BY DEF Typed
  <2>2. \A i \in DOMAIN toServer[c] : toServer[c][i] \notin Returns
        BY <1>1, <2>1, CountType
  <2> QED BY <2>1, <2>2 DEF Returns
<1>3. ASSUME NEW q \in Seq(Message), HowMany(q, Of(c)) = 0, NEW i \in DOMAIN q
      PROVE  q[i][1] # c
  <2>1. q[i] \in Message
        OBVIOUS
  <2>2. HowMany(q, Of(c)) = 0 <=> \A j \in DOMAIN q : q[j] \notin Of(c)
        BY CountType
  <2>3. q[i] \notin Of(c)
        BY <1>3, <2>2
  <2> QED BY <2>1, <2>3, CountOne
<1>4. /\ received \in Seq(Message) /\ returnQueue \in Seq(Message) /\ batch \in Seq(Message)
      /\ sendQueue \in Seq(Message) /\ sending \in Seq(Message)
      BY DEF Typed
<1> QED BY <1>1, <1>2, <1>3, <1>4

LEMMA BackIsUnderWay ==
    ASSUME Typed, NEW c \in Clients
    PROVE  UnderWay(c) \in Nat /\ Len(toClient[c]) \in Nat /\ Len(toClient[c]) <= UnderWay(c)
<1>1. UnderWay(c) =
          HowMany(toServer[c], Returns) + Len(toClient[c])
          + HowMany(received, Of(c)) + HowMany(returnQueue, Of(c)) + HowMany(batch, Of(c))
          + HowMany(sendQueue, Of(c)) + HowMany(sending, Of(c))
      BY Parts
<1>2. /\ HowMany(toServer[c], Returns) \in Nat /\ Len(toClient[c]) \in Nat
      /\ HowMany(received, Of(c)) \in Nat /\ HowMany(returnQueue, Of(c)) \in Nat
      /\ HowMany(batch, Of(c)) \in Nat /\ HowMany(sendQueue, Of(c)) \in Nat
      /\ HowMany(sending, Of(c)) \in Nat
      BY PartTypes
<1> DEFINE p1 == HowMany(toServer[c], Returns)
           p2 == Len(toClient[c])
           p3 == HowMany(received, Of(c))
           p4 == HowMany(returnQueue, Of(c))
           p5 == HowMany(batch, Of(c))
           p6 == HowMany(sendQueue, Of(c))
           p7 == HowMany(sending, Of(c))
           u == UnderWay(c)
<1>3. /\ p1 \in Nat /\ p2 \in Nat /\ p3 \in Nat /\ p4 \in Nat /\ p5 \in Nat
      /\ p6 \in Nat /\ p7 \in Nat /\ u = p1 + p2 + p3 + p4 + p5 + p6 + p7
      BY <1>1, <1>2
<1> HIDE DEF p1, p2, p3, p4, p5, p6, p7, u
<1>4. u \in Nat /\ p2 \in Nat /\ p2 <= u
      BY <1>3
<1> QED BY <1>4 DEF p2, u

LEMMA OneAtMost == \A m, n \in Nat : m <= n /\ n <= 1 /\ m # 0 => m = 1 /\ n = 1
OBVIOUS

LEMMA BorneStep == ASSUME Typed, Answered, Borne, [Next]_vars PROVE Borne'
<1> USE DEF clientVars, wireVars, threadVars, actorVars
<1> DEFINE cur(c) == {k \in 1..sent'[c] : late'[c] \/ k = sent'[c]}
           val == {m \in Message : m[2] \in cur(m[1])}
<1>1. ASSUME \A c \in Clients :
                 toServer'[c] \in Seq(cur(c) \cup {Closed}) /\ toClient'[c] \in Seq(cur(c)),
             received' \in Seq(val), returnQueue' \in Seq(val), batch' \in Seq(val),
             sendQueue' \in Seq(val), sending' \in Seq(val)
      PROVE  Borne'
      BY <1>1 DEF Borne, Valid, Current
<1>2. /\ sent \in [Clients -> Nat] /\ late \in [Clients -> BOOLEAN]
      /\ toServer \in [Clients -> Seq(Nat)] /\ toClient \in [Clients -> Seq(Nat \ {0})]
      BY DEF Typed
<1>3. ASSUME NEW c \in Clients, SendReturn(c),
             \A d \in Clients \ {c} : late'[d] = late[d] /\ toClient'[d] = toClient[d],
             late[c] => late'[c],
             ~late'[c] => UnderWay(c) <= Len(toClient[c]) /\ toClient'[c] = <<>>,
             toClient'[c] \in Seq(Current(c)),
             UNCHANGED <<received, returnQueue, batch, sendQueue, sending>>
      PROVE  Borne'
  <2>1. sent' = [sent EXCEPT ![c] = sent[c] + 1]
        /\ toServer' = [toServer EXCEPT ![c] = Append(toServer[c], sent[c] + 1)]
        BY <1>3 DEF SendReturn
  <2>2. ASSUME NEW d \in Clients, d # c
        PROVE  /\ cur(d) = Current(d)
               /\ toServer'[d] = toServer[d] /\ toClient'[d] = toClient[d]
    <3>1. sent'[d] = sent[d] /\ toServer'[d] = toServer[d] /\ late'[d] = late[d]
          /\ toClient'[d] = toClient[d]
          BY <1>2, <1>3, <2>1, <2>2
    <3> QED BY <3>1 DEF Current
  <2>3. /\ sent'[c] = sent[c] + 1 /\ toServer'[c] = Append(toServer[c], sent[c] + 1)
        /\ sent[c] \in Nat /\ sent[c] + 1 \in cur(c)
        BY <1>2, <2>1
  <2>4. late'[c] => Current(c) \subseteq cur(c)
        BY <2>3 DEF Current
  <2> HIDE DEF cur, val
  <2>5. ASSUME NEW d \in Clients
        PROVE  toServer'[d] \in Seq(cur(d) \cup {Closed}) /\ toClient'[d] \in Seq(cur(d))
    <3>1. CASE d # c
          BY <2>2, <3>1 DEF Borne
    <3>2. CASE d = c
      <4>1. toServer[c] \in Seq(cur(c) \cup {Closed})
        <5>1. toServer[c] \in Seq(Current(c) \cup {Closed})
              BY DEF Borne
        <5>2. \A i \in DOMAIN toServer[c] : toServer[c][i] \in cur(c) \cup {Closed}
          <6>1. CASE late'[c]
                BY <2>4, <5>1, <6>1
          <6>2. CASE ~late'[c]
                BY <1>3, <6>2, AllIsBack
          <6> QED BY <6>1, <6>2
        <5> QED BY <5>1, <5>2, MembersOfSeq
      <4>2. toServer'[c] \in Seq(cur(c) \cup {Closed})
            BY <2>3, <4>1
      <4>3. toClient'[c] \in Seq(cur(c))
        <5>1. CASE late'[c]
              BY <1>3, <2>4, <5>1, MembersOfSeq
        <5>2. CASE ~late'[c]
              BY <1>3, <5>2
        <5> QED BY <5>1, <5>2
      <4> QED BY <3>2, <4>2, <4>3
    <3> QED BY <3>1, <3>2
  <2>6. ASSUME NEW q \in Seq(Valid), q \in {received, returnQueue, batch, sendQueue, sending}
        PROVE  q \in Seq(val)
    <3>1. ASSUME NEW i \in DOMAIN q
          PROVE  q[i] \in val
      <4>1. q[i] \in Message /\ q[i][1] \in Clients /\ q[i][2] \in Current(q[i][1])
            BY DEF Valid, Message
      <4>2. CASE q[i][1] # c
            BY <2>2, <4>1, <4>2 DEF val
      <4>3. CASE q[i][1] = c
        <5>1. late'[c]
              BY <1>3, <2>6, <4>3, AllIsBack
        <5> QED BY <2>4, <4>1, <4>3, <5>1 DEF val
      <4> QED BY <4>2, <4>3
    <3> QED BY <3>1, MembersOfSeq
  <2> QED BY <1>1, <1>3, <2>5, <2>6 DEF Borne
<1>4. ASSUME UNCHANGED <<sent, late>>
      PROVE  val = Valid /\ \A c \in Clients : cur(c) = Current(c)
      BY <1>4 DEF Valid, Current, Message
<1>5. ASSUME NEW c \in Clients, Connect(c) PROVE Borne'
  <2>1. /\ SendReturn(c) /\ UNCHANGED <<toClient, received, returnQueue, batch, sendQueue, sending>>
        /\ \A d \in Clients \ {c} : late'[d] = late[d]
        BY <1>2, <1>5 DEF Connect
  <2>2. late'[c] = (late[c] \/ UnderWay(c) > 0)
        BY <1>2, <1>5 DEF Connect
  <2>3. ~late'[c] => UnderWay(c) <= Len(toClient[c]) /\ toClient'[c] = <<>>
    <3>1. UnderWay(c) \in Nat /\ Len(toClient[c]) \in Nat /\ Len(toClient[c]) <= UnderWay(c)
          BY BackIsUnderWay
    <3>2. SUFFICES ASSUME ~late'[c] PROVE UnderWay(c) <= Len(toClient[c]) /\ toClient[c] = <<>>
          BY <2>1
    <3>3. ~(UnderWay(c) > 0)
          BY <2>2, <3>2
    <3>4. UnderWay(c) = 0 /\ Len(toClient[c]) = 0
          BY <3>1, <3>3
    <3> QED BY <1>2, <3>4
  <2>4. toClient'[c] \in Seq(Current(c))
        BY <2>1 DEF Borne
  <2> QED BY <1>3, <2>1, <2>2, <2>3, <2>4
<1>6. ASSUME NEW c \in Clients, Answer(c) PROVE Borne'
  <2>1. /\ SendReturn(c) /\ UNCHANGED <<late, received, returnQueue, batch, sendQueue, sending>>
        /\ toClient' = [toClient EXCEPT ![c] = Tail(toClient[c])] /\ toClient[c] # <<>>
        BY <1>6 DEF Answer
  <2>2. \A d \in Clients \ {c} : late'[d] = late[d] /\ toClient'[d] = toClient[d]
        BY <1>2, <2>1
  <2>3. ~late'[c] => UnderWay(c) <= Len(toClient[c]) /\ toClient'[c] = <<>>
    <3>1. UnderWay(c) \in Nat /\ Len(toClient[c]) \in Nat /\ Len(toClient[c]) <= UnderWay(c)
          BY BackIsUnderWay
    <3>2. SUFFICES ASSUME ~late[c] PROVE UnderWay(c) <= Len(toClient[c]) /\ Tail(toClient[c]) = <<>>
          BY <1>2, <2>1
    <3>3. UnderWay(c) <= 1
          BY <3>2 DEF Answered
    <3>4. Len(toClient[c]) # 0
          BY <1>2, <2>1
    <3>5. Len(toClient[c]) = 1 /\ UnderWay(c) = 1
          BY <3>1, <3>3, <3>4, OneAtMost
    <3>6. Tail(toClient[c]) = <<>>
      <4>1. ASSUME NEW q \in Seq(Nat \ {0}), Len(q) = 1 PROVE Tail(q) = <<>>
        <5>1. Tail(q) \in Seq(Nat \ {0}) /\ Len(Tail(q)) = 0
              BY <4>1
        <5> QED BY <5>1, EmptySeq
      <4>2. toClient[c] \in Seq(Nat \ {0})
            BY <1>2
      <4> QED BY <3>5, <4>1, <4>2
    <3> QED BY <3>5, <3>6
  <2>4. toClient'[c] \in Seq(Current(c))
    <3>1. toClient[c] \in Seq(Current(c))
          BY DEF Borne
    <3>2. Tail(toClient[c]) \in Seq(Current(c))
          BY <2>1, <3>1
    <3> QED BY <1>2, <2>1, <3>2
  <2> QED BY <1>3, <2>1, <2>2, <2>3, <2>4
<1> HIDE DEF cur, val
<1>7. ASSUME NEW c \in Clients, CloseClient(c) PROVE Borne'
  <2>1. /\ toServer' = [toServer EXCEPT ![c] = Append(toServer[c], Closed)]
        /\ toClient' = [toClient EXCEPT ![c] = <<>>]
        /\ UNCHANGED <<sent, late, received, returnQueue, batch, sendQueue, sending>>
        BY <1>7 DEF CloseClient
  <2>2. ASSUME NEW d \in Clients
        PROVE  toServer'[d] \in Seq(Current(d) \cup {Closed}) /\ toClient'[d] \in Seq(Current(d))
    <3>1. toServer[d] \in Seq(Current(d) \cup {Closed}) /\ toClient[d] \in Seq(Current(d))
          BY DEF Borne
    <3>2. CASE d = c
          BY <1>2, <2>1, <3>1, <3>2
    <3>3. CASE d # c
          BY <1>2, <2>1, <3>1, <3>3
    <3> QED BY <3>2, <3>3
  <2> QED BY <1>1, <1>4, <2>1, <2>2 DEF Borne
<1>8. ASSUME NEW c \in Clients, Receive(c) PROVE Borne'
  <2> DEFINE k == Head(toServer[c])
  <2>1. /\ toServer' = [toServer EXCEPT ![c] = Tail(toServer[c])] /\ toServer[c] # <<>>
        /\ UNCHANGED <<sent, late, toClient, returnQueue, batch, sendQueue, sending>>
        /\ received' = received \/ (k # Closed /\ received' = <<<<c, k>>>>)
        BY <1>8 DEF Receive
  <2>2. k \in Current(c) \cup {Closed}
    <3>1. toServer[c] \in Seq(Current(c) \cup {Closed}) /\ toServer[c] # <<>>
          BY <2>1 DEF Borne
    <3> QED BY <3>1
  <2>3. received' \in Seq(Valid)
    <3>1. k # Closed => <<c, k>> \in Valid
          BY <1>2, <2>2 DEF Valid, Message, Current
    <3>2. \A m \in Valid : <<m>> \in Seq(Valid)
          OBVIOUS
    <3> QED BY <2>1, <3>1, <3>2 DEF Borne
  <2>4. ASSUME NEW d \in Clients
        PROVE  toServer'[d] \in Seq(Current(d) \cup {Closed}) /\ toClient'[d] \in Seq(Current(d))
    <3>1. toServer[d] \in Seq(Current(d) \cup {Closed}) /\ toClient'[d] \in Seq(Current(d))
          BY <2>1 DEF Borne
    <3>2. CASE d = c
          BY <1>2, <2>1, <3>1, <3>2
    <3>3. CASE d # c
          BY <1>2, <2>1, <3>1, <3>3
    <3> QED BY <3>2, <3>3
  <2> QED BY <1>1, <1>4, <2>1, <2>3, <2>4 DEF Borne
<1>9. ASSUME UNCHANGED <<sent, late, toServer, toClient>>,
             received' \in Seq(Valid), returnQueue' \in Seq(Valid), batch' \in Seq(Valid),
             sendQueue' \in Seq(Valid), sending' \in Seq(Valid)
      PROVE  Borne'
      BY <1>1, <1>4, <1>9 DEF Borne
<1>10. CASE PutReturn
  <2>1. /\ UNCHANGED <<sent, late, toServer, toClient, batch, sendQueue, sending>>
        /\ returnQueue' = returnQueue \o received /\ received' = <<>>
        BY <1>10 DEF PutReturn
  <2>2. returnQueue' \in Seq(Valid) /\ received' \in Seq(Valid)
        BY <2>1 DEF Borne
  <2> QED BY <1>9, <2>1, <2>2 DEF Borne
<1>11. CASE TakeResponse
  <2>1. UNCHANGED <<sent, late, toServer, toClient, received, returnQueue, batch>>
        BY <1>11 DEF TakeResponse
  <2>2. sendQueue' \in Seq(Valid) /\ sending' \in Seq(Valid)
    <3>1. \A m \in Valid : <<m>> \in Seq(Valid)
          OBVIOUS
    <3>2. CASE sendQueue = <<>>
          BY <1>11, <3>2 DEF TakeResponse, Borne
    <3>3. CASE sendQueue # <<>>
      <4>1. sendQueue' = Tail(sendQueue) /\ sending' = <<Head(sendQueue)>>
            BY <1>11, <3>3 DEF TakeResponse
      <4>2. Head(sendQueue) \in Valid /\ Tail(sendQueue) \in Seq(Valid)
            BY <3>3 DEF Borne
      <4> QED BY <3>1, <4>1, <4>2
    <3> QED BY <3>2, <3>3
  <2> QED BY <1>9, <2>1, <2>2 DEF Borne
<1>12. CASE Send
  <2> DEFINE c == sending[1][1]
             k == sending[1][2]
  <2>1. /\ UNCHANGED <<sent, late, toServer, received, returnQueue, batch, sendQueue>>
        /\ sending' = <<>> /\ sending # <<>>
        /\ toClient' = toClient \/ toClient' = [toClient EXCEPT ![c] = Append(toClient[c], k)]
        BY <1>12 DEF Send, Typed
  <2>2. sending[1] \in Valid
        BY <2>1 DEF Borne
  <2>3. k \in Current(c) /\ sending' \in Seq(Valid)
        BY <2>1, <2>2 DEF Valid
  <2> HIDE DEF c, k
  <2>4. ASSUME NEW d \in Clients PROVE toClient'[d] \in Seq(Current(d))
    <3>1. toClient[d] \in Seq(Current(d))
          BY DEF Borne
    <3>2. toClient'[d] = toClient[d] \/ (d = c /\ toClient'[d] = Append(toClient[d], k))
          BY <1>2, <2>1
    <3>3. d = c => Append(toClient[d], k) \in Seq(Current(d))
          BY <2>3, <3>1
    <3> QED BY <3>1, <3>2, <3>3
  <2> QED BY <1>1, <1>4, <2>1, <2>3, <2>4 DEF Borne
<1>13. CASE Collect
  <2>1. /\ UNCHANGED <<sent, late, toServer, toClient, received, sendQueue, sending>>
        /\ returnQueue # <<>> /\ returnQueue' = Tail(returnQueue)
        /\ batch' = Append(batch, Head(returnQueue))
        BY <1>13 DEF Collect
  <2>2. batch' \in Seq(Valid) /\ returnQueue' \in Seq(Valid)
        BY <2>1 DEF Borne
  <2> QED BY <1>9, <2>1, <2>2 DEF Borne
<1>14. CASE PutResponse
  <2>1. /\ UNCHANGED <<sent, late, toServer, toClient, received, returnQueue, sending>>
        /\ batch # <<>> /\ batch' = Tail(batch) /\ sendQueue' = Append(sendQueue, Head(batch))
        BY <1>14 DEF PutResponse
  <2>2. batch' \in Seq(Valid) /\ sendQueue' \in Seq(Valid)
        BY <2>1 DEF Borne
  <2> QED BY <1>9, <2>1, <2>2 DEF Borne
<1>15. CASE UNCHANGED <<sent, late, toServer, toClient, received, returnQueue, batch, sendQueue,
                        sending>>
  BY <1>9, <1>15 DEF Borne
<1> QED BY <1>5, <1>6, <1>7, <1>8, <1>10, <1>11, <1>12, <1>13, <1>14, <1>15
        DEF Next, ReceiverChecks, SenderChecks, NothingToReceive, CollectEnds, StepAsync, StepEnds,
            Close, Join, vars

----------------------------------------------------------------------------
\* The invariant.
IInv == Typed /\ Numbered /\ Answered /\ Borne

LEMMA Start == Init => IInv
<1> SUFFICES ASSUME Init PROVE IInv
    OBVIOUS
<1>1. Typed
      BY TypedInit
<1>2. /\ runs = [c \in Clients |-> 0] /\ sent = [c \in Clients |-> 0]
      /\ client = [c \in Clients |-> "away"] /\ dropped = [c \in Clients |-> 0]
      /\ toServer = [c \in Clients |-> <<>>] /\ toClient = [c \in Clients |-> <<>>]
      /\ received = <<>> /\ returnQueue = <<>> /\ batch = <<>> /\ sendQueue = <<>> /\ sending = <<>>
      BY DEF Init
<1>3. Numbered
  <2>1. 0 * (TotalSteps + 1) = 0
        BY TotalStepsAssumption
  <2> QED BY <1>2, <2>1 DEF Numbered
<1>4. Answered
  <2>1. SUFFICES ASSUME NEW c \in Clients PROVE UnderWay(c) = 0 /\ dropped[c] = 0 /\ runs[c] = 0
        BY DEF Answered
  <2>2. /\ toServer[c] = <<>> /\ toClient[c] = <<>> /\ dropped[c] = 0 /\ runs[c] = 0
        BY <1>2
  <2>3. /\ HowMany(toServer[c], Returns) = 0 /\ Len(toClient[c]) = 0
        /\ HowMany(received, Of(c)) = 0 /\ HowMany(returnQueue, Of(c)) = 0
        /\ HowMany(batch, Of(c)) = 0 /\ HowMany(sendQueue, Of(c)) = 0
        /\ HowMany(sending, Of(c)) = 0
        BY <1>2, <2>2, CountEmpty
  <2> QED BY <2>2, <2>3, Parts
<1>5. Borne
  <2>1. \A S : <<>> \in Seq(S)
        OBVIOUS
  <2> QED BY <1>2, <2>1 DEF Borne
<1> QED BY <1>1, <1>3, <1>4, <1>5 DEF IInv

LEMMA Step == IInv /\ [Next]_vars => IInv'
BY TypedStep, NumberedStep, AnsweredStep, BorneStep DEF IInv

LEMMA Invariant == Spec => []IInv
BY Start, Step, PTL DEF Spec

\* The queues of RemoteEnvServer keep to their sizes, its event and threads go through
\* their states in order, and whatever is in a queue, in a thread's hands or on the wire
\* names a return that its client sent.
THEOREM TypeCorrect == Spec => []TypeOK
<1>1. IInv => TypeOK
  <2> SUFFICES ASSUME IInv PROVE TypeOK
      OBVIOUS
  <2>1. Typed /\ Numbered /\ Borne
        BY DEF IInv
  <2>2. ASSUME NEW c \in Clients
        PROVE  /\ Range(toServer[c]) \subseteq 0..sent[c] /\ Range(toClient[c]) \subseteq 1..sent[c]
               /\ sent[c] <= runs[c] * (TotalSteps + 1)
    <3>1. /\ toServer[c] \in Seq(Current(c) \cup {Closed}) /\ toClient[c] \in Seq(Current(c))
          /\ sent[c] \in Nat
          BY <2>1 DEF Borne, Typed
    <3>2. Current(c) \subseteq 1..sent[c] /\ Closed = 0
          BY DEF Current, Closed
    <3>3. \A i \in DOMAIN toServer[c] : toServer[c][i] \in 0..sent[c]
          BY <3>1, <3>2
    <3>4. \A i \in DOMAIN toClient[c] : toClient[c][i] \in 1..sent[c]
          BY <3>1, <3>2
    <3> QED BY <2>1, <3>3, <3>4 DEF Range, Numbered
  <2>3. Valid \subseteq Names
    <3>1. SUFFICES ASSUME NEW c \in Clients, NEW k \in Current(c)
                   PROVE  k \in 1..(Runs * (TotalSteps + 1))
          BY DEF Valid, Message, Names
    <3>2. /\ sent[c] \in Nat /\ sent[c] <= runs[c] * (TotalSteps + 1) /\ runs[c] \in 0..Runs
          BY <2>1 DEF Typed, Numbered
    <3>3. runs[c] * (TotalSteps + 1) <= Runs * (TotalSteps + 1)
      <4>1. runs[c] \in Nat /\ Runs \in Nat /\ TotalSteps + 1 \in Nat /\ runs[c] <= Runs
            BY <3>2, RunsAssumption, TotalStepsAssumption
      <4> QED BY <4>1, Monotone
    <3>4. runs[c] * (TotalSteps + 1) \in Nat /\ Runs * (TotalSteps + 1) \in Nat
      <4>1. runs[c] \in Nat /\ Runs \in Nat /\ TotalSteps + 1 \in Nat
            BY <3>2, RunsAssumption, TotalStepsAssumption
      <4> QED BY <4>1, Product
    <3>5. k \in 1..sent[c]
          BY DEF Current
    <3> QED BY <3>2, <3>3, <3>4, <3>5
  <2>4. \A s \in {returnQueue, sendQueue, batch, received, sending} : Range(s) \subseteq Names
    <3>1. ASSUME NEW s \in Seq(Valid) PROVE Range(s) \subseteq Names
          BY <2>3 DEF Range
    <3> QED BY <2>1, <3>1 DEF Borne
  <2> QED BY <2>1, <2>2, <2>4 DEF TypeOK, Typed
<1> QED BY <1>1, Invariant, PTL

\* env_server.py and env_client.py pass one message of a client to and fro: for each run
\* one return or its response is under way or found the client gone, and the response a
\* client reads answers its last return, unless it came back too early.
THEOREM ClientsAreAnswered == Spec => []AnswersLastReturn
<1>1. IInv => AnswersLastReturn
  <2> SUFFICES ASSUME IInv, NEW c \in Clients
               PROVE  /\ UnderWay(c) + dropped[c] = runs[c]
                      /\ toClient[c] # <<>> /\ ~late[c] => toClient[c] = <<sent[c]>>
      BY DEF AnswersLastReturn
  <2>1. Typed /\ Answered /\ Borne
        BY DEF IInv
  <2>2. ASSUME toClient[c] # <<>>, ~late[c] PROVE toClient[c] = <<sent[c]>>
    <3>1. toClient[c] \in Seq(Current(c))
          BY <2>1 DEF Borne
    <3>2. Current(c) \subseteq {sent[c]}
          BY <2>2 DEF Current
    <3>3. Len(toClient[c]) = 1
      <4>1. UnderWay(c) \in Nat /\ Len(toClient[c]) \in Nat /\ Len(toClient[c]) <= UnderWay(c)
            BY <2>1, BackIsUnderWay
      <4>2. UnderWay(c) <= 1
            BY <2>1, <2>2 DEF Answered
      <4>3. Len(toClient[c]) # 0
            BY <2>2, <3>1
      <4> QED BY <4>1, <4>2, <4>3, OneAtMost
    <3>4. toClient[c][1] = sent[c]
          BY <3>1, <3>2, <3>3
    <3> QED BY <3>1, <3>3, <3>4
  <2> QED BY <2>1, <2>2 DEF Answered
<1> QED BY <1>1, Invariant, PTL


-----------------------------------------------------------------------------
(***************************************************************************)
(* AutoResetEnv: what the calls of a chunk do to the metrics.              *)
(***************************************************************************)

\* Induction over the natural numbers, for a set in place of a formula.
LEMMA SetInduction ==
    ASSUME NEW S, 0 \in S, \A n \in Nat : n \in S => n + 1 \in S
    PROVE  Nat \subseteq S
<1> DEFINE R == {ss \in Nat \X Nat : ss[1] < ss[2]}
<1> SUFFICES ASSUME Nat \ S # {} PROVE FALSE
    OBVIOUS
<1>1. IsWellFoundedOn(R, Nat)
  <2>1. R = OpToRel(<, Nat)
        BY DEF OpToRel
  <2> QED BY <2>1, NatLessThanWellFounded
<1>2. PICK x \in Nat \ S : \A y \in Nat \ S : ~(<<y, x>> \in R)
  <2>1. Nat \ S \subseteq Nat
        OBVIOUS
  <2> HIDE DEF R
  <2> QED BY <1>1, <2>1, WFMin
<1>3. x # 0
      OBVIOUS
<1>4. x - 1 \in Nat /\ x - 1 < x /\ (x - 1) + 1 = x
      BY <1>3
<1>5. <<x - 1, x>> \in R
      BY <1>4
<1>6. x - 1 \in S
      BY <1>2, <1>4, <1>5
<1> QED BY <1>4, <1>6

Outcomes == [1..config.chunk -> [SubEnvs -> {0, 1}]]

\* The function inside FoldLeft, on the subsets of the first n calls.
Folds(f, outcomes, n) ==
    f = [s \in SUBSET (1..n) |->
            IF s = {} THEN Metrics ELSE Advance(f[s \ {Max(s)}], outcomes[Max(s)])]

\* The last call of some calls.
LEMMA LastOf ==
    ASSUME NEW n \in Nat, NEW s \in SUBSET (1..(n + 1))
    PROVE  /\ n + 1 \in s => Max(s) = n + 1 /\ s \ {n + 1} \in SUBSET (1..n)
           /\ n + 1 \notin s => s \in SUBSET (1..n)
<1>1. ASSUME n + 1 \in s PROVE Max(s) = n + 1
  <2>1. \A y \in s : n + 1 >= y
        OBVIOUS
  <2>2. \A x \in s : (\A y \in s : x >= y) => x = n + 1
    <3> SUFFICES ASSUME NEW x \in s, x >= n + 1 PROVE x = n + 1
        BY <1>1
    <3> QED OBVIOUS
  <2> QED BY <1>1, <2>1, <2>2 DEF Max
<1>2. \A x \in 1..(n + 1) : x # n + 1 => x \in 1..n
      OBVIOUS
<1> QED BY <1>1, <1>2

\* It exists.
LEMMA FoldExists ==
    ASSUME NEW outcomes, NEW n \in Nat
    PROVE  \E f : Folds(f, outcomes, n)
<1> DEFINE S == {k \in Nat : \E f : Folds(f, outcomes, k)}
<1>1. 0 \in S
  <2> DEFINE f == [s \in SUBSET (1..0) |-> Metrics]
  <2>1. \A s \in SUBSET (1..0) : s = {}
        OBVIOUS
  <2>2. f = [s \in SUBSET (1..0) |->
               IF s = {} THEN Metrics ELSE Advance(f[s \ {Max(s)}], outcomes[Max(s)])]
        BY <2>1
  <2>3. Folds(f, outcomes, 0)
        BY <2>2 DEF Folds
  <2> QED BY <2>3
<1>2. ASSUME NEW k \in Nat, k \in S PROVE k + 1 \in S
  <2>1. PICK f : Folds(f, outcomes, k)
        BY <1>2
  <2> DEFINE g == [s \in SUBSET (1..(k + 1)) |->
                      IF k + 1 \in s THEN Advance(f[s \ {k + 1}], outcomes[k + 1]) ELSE f[s]]
             step(h, s) == IF s = {} THEN Metrics ELSE Advance(h[s \ {Max(s)}], outcomes[Max(s)])
  <2>2. \A s \in SUBSET (1..k) : f[s] = step(f, s)
        BY <2>1 DEF Folds
  <2>3. \A s \in SUBSET (1..k) : g[s] = f[s]
    <3>1. \A s \in SUBSET (1..k) : s \in SUBSET (1..(k + 1)) /\ k + 1 \notin s
          OBVIOUS
    <3> QED BY <3>1
  <2>4. ASSUME NEW s \in SUBSET (1..(k + 1)) PROVE g[s] = step(g, s)
    <3>1. CASE k + 1 \in s
      <4>1. Max(s) = k + 1 /\ s \ {k + 1} \in SUBSET (1..k) /\ s # {}
            BY <3>1, LastOf
      <4>2. g[s] = Advance(f[s \ {k + 1}], outcomes[k + 1])
            BY <3>1
      <4>3. g[s \ {k + 1}] = f[s \ {k + 1}]
            BY <2>3, <4>1
      <4> HIDE DEF g
      <4> QED BY <4>1, <4>2, <4>3
    <3>2. CASE k + 1 \notin s
      <4>1. s \in SUBSET (1..k)
            BY <3>2, LastOf
      <4>2. s \ {Max(s)} \in SUBSET (1..k)
            BY <4>1
      <4>3. g[s] = f[s] /\ g[s \ {Max(s)}] = f[s \ {Max(s)}]
            BY <2>3, <4>1, <4>2
      <4> HIDE DEF g
      <4> QED BY <2>2, <4>1, <4>3
    <3> QED BY <3>1, <3>2
  <2>5. Folds(g, outcomes, k + 1)
    <3>1. g = [s \in SUBSET (1..(k + 1)) |-> g[s]]
          OBVIOUS
    <3> HIDE DEF g
    <3> QED BY <2>4, <3>1 DEF Folds
  <2> QED BY <2>5
<1>3. Nat \subseteq S
  <2> HIDE DEF S
  <2> QED BY <1>1, <1>2, SetInduction
<1> QED BY <1>3

\* The metrics after the first k calls of a chunk.
LEMMA FoldSteps ==
    ASSUME NEW outcomes, DOMAIN outcomes = 1..config.chunk, config.chunk \in Nat
    PROVE  \E f : /\ f[0] = Metrics /\ FoldLeft(Advance, Metrics, outcomes) = f[config.chunk]
                  /\ \A k \in 1..config.chunk : f[k] = Advance(f[k - 1], outcomes[k])
<1> DEFINE n == config.chunk
           h == CHOOSE f : Folds(f, outcomes, n)
           g == [k \in 0..n |-> h[1..k]]
<1>1. Folds(h, outcomes, n)
      BY FoldExists
<1>2. FoldLeft(Advance, Metrics, outcomes) = h[1..n]
      BY DEF FoldLeft, MapThenFoldSet, Folds
<1> HIDE DEF h, n
<1>3. \A s \in SUBSET (1..n) :
          h[s] = IF s = {} THEN Metrics ELSE Advance(h[s \ {Max(s)}], outcomes[Max(s)])
      BY <1>1 DEF Folds
<1>4. n \in Nat
      BY DEF n
<1>5. g[0] = Metrics
  <2>1. 1..0 = {}
        OBVIOUS
  <2> QED BY <1>3, <1>4, <2>1
<1>6. ASSUME NEW k \in 1..n PROVE g[k] = Advance(g[k - 1], outcomes[k])
  <2>1. k \in Nat /\ k - 1 \in Nat /\ (k - 1) + 1 = k /\ k - 1 \in 0..n /\ k \in 0..n
        BY <1>4
  <2>2. 1..k \in SUBSET (1..n) /\ k \in 1..k
        BY <1>4
  <2>3. Max(1..k) = k
        BY <2>1, <2>2, LastOf
  <2>4. (1..k) \ {k} = 1..(k - 1)
        BY <2>1
  <2>5. h[1..k] = Advance(h[1..(k - 1)], outcomes[k])
    <3>1. 1..k # {}
          BY <2>2
    <3>2. h[1..k] = Advance(h[(1..k) \ {Max(1..k)}], outcomes[Max(1..k)])
          BY <1>3, <2>2, <3>1
    <3> QED BY <2>3, <2>4, <3>2
  <2> QED BY <2>1, <2>5
<1>7. g[n] = h[1..n]
      BY <1>4
<1> HIDE DEF g
<1> QED BY <1>2, <1>5, <1>6, <1>7 DEF n

\* The records in which Advance keeps the metrics.
Held ==
    [elapsed : [SubEnvs -> Nat], prev : [SubEnvs -> {0, 1}], success : [SubEnvs -> BOOLEAN],
     returns : [SubEnvs -> Int], rewards : [SubEnvs -> Int], last : [SubEnvs -> Int],
     terminated : SUBSET SubEnvs, truncated : SUBSET SubEnvs]

\* What the metrics are after the first k calls of a chunk.
After(m, outcomes, k) ==
    /\ m \in Held
    /\ \A e \in SubEnvs :
           /\ m.elapsed[e] = elapsed[e] + k
           /\ m.returns[e] = returns[e] + m.rewards[e]
           /\ m.success[e] = (success[e] \/ \E i \in 1..k : outcomes[i][e] = 1)
    /\ k > 0 => m.truncated = {e \in SubEnvs : elapsed[e] + k >= config.limit}

Metered ==
    /\ elapsed \in [SubEnvs -> Nat] /\ prev \in [SubEnvs -> {0, 1}]
    /\ success \in [SubEnvs -> BOOLEAN] /\ returns \in [SubEnvs -> Int]

\* Before the first call they are those of the worker.
LEMMA AfterNone == ASSUME Metered, NEW outcomes PROVE After(Metrics, outcomes, 0)
<1>1. Metrics \in Held
      BY DEF Metered, Metrics, Held, All
<1>2. \A e \in SubEnvs : /\ elapsed[e] + 0 = elapsed[e]
                         /\ returns[e] + 0 = returns[e]
                         /\ success[e] \in BOOLEAN
      BY DEF Metered
<1>3. \A i \in 1..0 : FALSE
      OBVIOUS
<1>4. \A e \in SubEnvs : /\ Metrics.elapsed[e] = elapsed[e] + 0
                         /\ Metrics.returns[e] = returns[e] + Metrics.rewards[e]
                         /\ Metrics.success[e] = (success[e] \/ \E i \in 1..0 : outcomes[i][e] = 1)
      BY <1>2, <1>3 DEF Metrics, All
<1> QED BY <1>1, <1>4 DEF After

\* One call more.
LEMMA AfterOne ==
    ASSUME Metered, NEW outcomes \in Outcomes, config.limit \in Nat,
           NEW k \in 1..config.chunk, config.chunk \in Nat,
           NEW m, After(m, outcomes, k - 1)
    PROVE  After(Advance(m, outcomes[k]), outcomes, k)
<1> DEFINE out == outcomes[k]
           a == Advance(m, out)
           reward == [e \in SubEnvs |-> out[e] - IF config.rel THEN m.prev[e] ELSE 0]
<1>1. m \in Held
      BY DEF After
<1>2. /\ m.elapsed \in [SubEnvs -> Nat] /\ m.prev \in [SubEnvs -> {0, 1}]
      /\ m.success \in [SubEnvs -> BOOLEAN] /\ m.returns \in [SubEnvs -> Int]
      /\ m.rewards \in [SubEnvs -> Int]
      BY <1>1 DEF Held
<1>3. out \in [SubEnvs -> {0, 1}]
      BY DEF Outcomes
<1>4. reward \in [SubEnvs -> Int]
  <2>1. \A e \in SubEnvs : out[e] - (IF config.rel THEN m.prev[e] ELSE 0) \in Int
    <3>1. \A e \in SubEnvs : out[e] \in Int /\ (IF config.rel THEN m.prev[e] ELSE 0) \in Int
          BY <1>2, <1>3
    <3> QED BY <3>1
  <2> QED BY <2>1
<1>5. /\ a.elapsed = [e \in SubEnvs |-> m.elapsed[e] + 1]
      /\ a.prev = out
      /\ a.success = [e \in SubEnvs |-> m.success[e] \/ out[e] = 1]
      /\ a.returns = [e \in SubEnvs |-> m.returns[e] + reward[e]]
      /\ a.rewards = [e \in SubEnvs |-> m.rewards[e] + reward[e]]
      /\ a.last = reward
      /\ a.terminated \in SUBSET SubEnvs
      /\ a.truncated = {e \in SubEnvs : m.elapsed[e] + 1 >= config.limit}
      BY DEF Advance
<1>6. a \in Held
  <2>1. a = [elapsed |-> a.elapsed, prev |-> a.prev, success |-> a.success, returns |-> a.returns,
             rewards |-> a.rewards, last |-> a.last, terminated |-> a.terminated,
             truncated |-> a.truncated]
        BY DEF Advance
  <2> HIDE DEF a, reward, out
  <2>2. a.elapsed \in [SubEnvs -> Nat] /\ a.prev \in [SubEnvs -> {0, 1}]
        BY <1>2, <1>3, <1>5
  <2>3. a.success \in [SubEnvs -> BOOLEAN]
        BY <1>5
  <2>4. a.returns \in [SubEnvs -> Int] /\ a.rewards \in [SubEnvs -> Int] /\ a.last \in [SubEnvs -> Int]
        BY <1>2, <1>4, <1>5
  <2>5. a.terminated \in SUBSET SubEnvs /\ a.truncated \in SUBSET SubEnvs
        BY <1>5
  <2> QED BY <2>1, <2>2, <2>3, <2>4, <2>5 DEF Held
<1> HIDE DEF a, reward
<1>7. k \in Nat /\ k - 1 \in Nat
      OBVIOUS
<1>8. ASSUME NEW e \in SubEnvs
      PROVE  /\ a.elapsed[e] = elapsed[e] + k
             /\ a.returns[e] = returns[e] + a.rewards[e]
             /\ a.success[e] = (success[e] \/ \E i \in 1..k : outcomes[i][e] = 1)
  <2>1. /\ m.elapsed[e] = elapsed[e] + (k - 1)
        /\ m.returns[e] = returns[e] + m.rewards[e]
        /\ m.success[e] = (success[e] \/ \E i \in 1..(k - 1) : outcomes[i][e] = 1)
        BY DEF After
  <2>2. elapsed[e] \in Nat /\ returns[e] \in Int /\ m.rewards[e] \in Int /\ reward[e] \in Int
        BY <1>2, <1>4 DEF Metered
  <2>3. a.elapsed[e] = elapsed[e] + k
        BY <1>5, <1>7, <2>1, <2>2
  <2>4. a.returns[e] = returns[e] + a.rewards[e]
        BY <1>5, <2>1, <2>2
  <2>5. a.success[e] = (m.success[e] \/ outcomes[k][e] = 1)
        BY <1>5
  <2>6. (\E i \in 1..k : outcomes[i][e] = 1)
            <=> (outcomes[k][e] = 1 \/ \E i \in 1..(k - 1) : outcomes[i][e] = 1)
    <3>1. \A i : i \in 1..k <=> (i = k \/ i \in 1..(k - 1))
          BY <1>7
    <3> QED BY <3>1
  <2>7. a.success[e] \in BOOLEAN
        BY <1>5
  <2> QED BY <2>1, <2>3, <2>4, <2>5, <2>6, <2>7
<1>9. a.truncated = {e \in SubEnvs : elapsed[e] + k >= config.limit}
  <2>1. \A e \in SubEnvs : m.elapsed[e] + 1 = elapsed[e] + k
    <3> SUFFICES ASSUME NEW e \in SubEnvs PROVE m.elapsed[e] + 1 = elapsed[e] + k
        OBVIOUS
    <3>1. m.elapsed[e] = elapsed[e] + (k - 1) /\ elapsed[e] \in Nat
          BY DEF After, Metered
    <3> QED BY <1>7, <3>1
  <2> QED BY <1>5, <2>1
<1> QED BY <1>6, <1>8, <1>9 DEF After, a, out

\* The metrics after a chunk.
LEMMA AfterChunk ==
    ASSUME Metered, NEW outcomes \in Outcomes, config.limit \in Nat, config.chunk \in Nat
    PROVE  After(FoldLeft(Advance, Metrics, outcomes), outcomes, config.chunk)
<1> DEFINE n == config.chunk
<1>1. PICK f : /\ f[0] = Metrics /\ FoldLeft(Advance, Metrics, outcomes) = f[n]
               /\ \A k \in 1..n : f[k] = Advance(f[k - 1], outcomes[k])
      BY FoldSteps DEF Outcomes
<1> DEFINE S == {k \in Nat : k <= n => After(f[k], outcomes, k)}
<1>2. 0 \in S
      BY <1>1, AfterNone
<1>3. ASSUME NEW k \in Nat, k \in S PROVE k + 1 \in S
  <2> SUFFICES ASSUME k + 1 <= n PROVE After(f[k + 1], outcomes, k + 1)
      OBVIOUS
  <2>1. k + 1 \in 1..n /\ (k + 1) - 1 = k /\ k <= n
        OBVIOUS
  <2>2. After(f[k], outcomes, (k + 1) - 1)
        BY <1>3, <2>1
  <2>3. After(Advance(f[k], outcomes[k + 1]), outcomes, k + 1)
        BY <2>1, <2>2, AfterOne
  <2> QED BY <1>1, <2>1, <2>3
<1>4. Nat \subseteq S
  <2> HIDE DEF S
  <2> QED BY <1>2, <1>3, SetInduction
<1> QED BY <1>1, <1>4

-----------------------------------------------------------------------------
(***************************************************************************)
(* AutoResetEnv: the types, and which task is where.                       *)
(***************************************************************************)

\* What the settings of a worker may be.
LEMMA ConfigTypes ==
    ASSUME config \in Configs
    PROVE  /\ config.limit \in Nat \ {0} /\ config.chunk \in Nat \ {0}
           /\ config.autoReset \in BOOLEAN /\ config.ignore \in BOOLEAN
           /\ config.evaluate \in BOOLEAN /\ config.backend \in {"maniskill", "libero"}
<1>1. config \in Settings
      BY AutoResetAssumption
<1> QED BY <1>1 DEF Settings

\* Numbers in order: each of them, once.
Ascends(s) == \A i, j \in DOMAIN s : i < j => s[i] < s[j]

\* A finite set of numbers has a smallest one.
LEMMA Smallest ==
    ASSUME NEW A, A \subseteq Nat, A # {}
    PROVE  \E x \in A : \A y \in A : x <= y
<1> SUFFICES ASSUME \A x \in A : \E y \in A : ~(x <= y) PROVE FALSE
    OBVIOUS
<1> DEFINE S == {k \in Nat : \A x \in A : k <= x}
<1>1. 0 \in S
      OBVIOUS
<1>2. ASSUME NEW k \in Nat, k \in S PROVE k + 1 \in S
  <2> SUFFICES ASSUME NEW x \in A PROVE k + 1 <= x
      OBVIOUS
  <2>1. PICK y \in A : ~(x <= y)
        OBVIOUS
  <2>2. k <= y /\ x \in Nat /\ y \in Nat
        BY <1>2
  <2> QED BY <2>1, <2>2
<1>3. Nat \subseteq S
  <2> HIDE DEF S
  <2> QED BY <1>1, <1>2, SetInduction
<1>4. PICK x \in A : TRUE
      OBVIOUS
<1>5. x + 1 \in S /\ x \in Nat
      BY <1>3
<1> QED BY <1>5

\* A finite set of numbers can be put in ascending order: Indices has something to choose.
LEMMA AscentExists ==
    ASSUME NEW S, S \subseteq Nat, IsFiniteSet(S)
    PROVE  \E s \in [1..Cardinality(S) -> S] : Ascends(s)
<1> DEFINE Sized(n) == {A \in SUBSET Nat : IsFiniteSet(A) /\ Cardinality(A) = n}
           N == {n \in Nat : \A A \in Sized(n) : \E s \in [1..n -> A] : Ascends(s)}
<1>1. 0 \in N
  <2> SUFFICES ASSUME NEW A \in Sized(0) PROVE \E s \in [1..0 -> A] : Ascends(s)
      OBVIOUS
  <2> DEFINE s == [i \in 1..0 |-> i]
  <2>1. s \in [1..0 -> A] /\ \A i \in DOMAIN s : FALSE
        OBVIOUS
  <2> QED BY <2>1 DEF Ascends
<1>2. ASSUME NEW n \in Nat, n \in N PROVE n + 1 \in N
  <2> SUFFICES ASSUME NEW A \in Sized(n + 1) PROVE \E s \in [1..(n + 1) -> A] : Ascends(s)
      OBVIOUS
  <2>1. A \subseteq Nat /\ IsFiniteSet(A) /\ Cardinality(A) = n + 1 /\ A # {}
        BY FS_EmptySet
  <2>2. PICK m \in A : \A y \in A : m <= y
        BY <2>1, Smallest
  <2>3. A \ {m} \in Sized(n)
    <3>1. IsFiniteSet(A \ {m}) /\ Cardinality(A \ {m}) = Cardinality(A) - 1
          BY <2>1, <2>2, FS_RemoveElement
    <3>2. Cardinality(A \ {m}) = n
          BY <2>1, <3>1
    <3> QED BY <2>1, <3>1, <3>2
  <2>4. PICK f \in [1..n -> A \ {m}] : Ascends(f)
        BY <1>2, <2>3
  <2> DEFINE s == [i \in 1..(n + 1) |-> IF i = 1 THEN m ELSE f[i - 1]]
  <2>5. \A i \in 1..(n + 1) : i # 1 => i - 1 \in 1..n /\ s[i] = f[i - 1] /\ s[i] \in A \ {m}
        OBVIOUS
  <2>6. s \in [1..(n + 1) -> A] /\ s[1] = m
        OBVIOUS
  <2> HIDE DEF s
  <2>7. ASSUME NEW i \in 1..(n + 1), NEW j \in 1..(n + 1), i < j PROVE s[i] < s[j]
    <3>1. j # 1 /\ s[j] \in A \ {m} /\ m \in Nat /\ s[j] \in Nat /\ m <= s[j]
      <4>1. j # 1
            BY <2>7
      <4>2. s[j] \in A \ {m}
            BY <2>5, <4>1
      <4> QED BY <2>1, <2>2, <4>1, <4>2
    <3>2. CASE i = 1
          BY <2>6, <3>1, <3>2
    <3>3. CASE i # 1
      <4>1. i - 1 \in 1..n /\ j - 1 \in 1..n /\ i - 1 < j - 1
            BY <2>5, <2>7, <3>1, <3>3
      <4>2. f[i - 1] < f[j - 1]
            BY <2>4, <4>1 DEF Ascends
      <4> QED BY <2>5, <3>1, <3>3, <4>2
    <3> QED BY <3>2, <3>3
  <2> QED BY <2>6, <2>7 DEF Ascends
<1>3. Nat \subseteq N
  <2> HIDE DEF N
  <2> QED BY <1>1, <1>2, SetInduction
<1> QED BY <1>3, FS_CardinalityType

\* The indices of some simulators are theirs.
LEMMA IndicesType ==
    ASSUME NEW envs \in SUBSET SubEnvs
    PROVE  \A j \in DOMAIN Indices(envs) : Indices(envs)[j] \in SubEnvs
<1>1. NumEnvs \in Nat /\ SubEnvs = 1..NumEnvs
      BY AutoResetAssumption DEF SubEnvs
<1>2. envs \subseteq Nat /\ IsFiniteSet(envs)
  <2>1. IsFiniteSet(SubEnvs)
        BY <1>1, FS_Interval
  <2>2. IsFiniteSet(envs)
        BY <2>1, FS_Subset
  <2> QED BY <1>1, <2>2
<1>3. \E s \in [1..Cardinality(envs) -> envs] : Ascends(s)
      BY <1>2, AscentExists
<1>4. Indices(envs) \in [1..Cardinality(envs) -> envs]
      BY <1>3 DEF Indices, Ascends
<1> QED BY <1>4

\* Restarting simulators keeps the types.
LEMMA RestartTyped ==
    ASSUME resetIds' \in [SubEnvs -> States], ids \in [SubEnvs -> States],
           \A e \in SubEnvs : simulator[e].state \in States,
           NEW envs \in SUBSET SubEnvs, NEW fixed, Restart(envs, fixed)
    PROVE  ids' \in [SubEnvs -> States] /\ \A e \in SubEnvs : simulator'[e].state \in States
<1> DEFINE idx == Indices(envs)
<1>1. CASE UNCHANGED <<ids, simulator, descriptions>>
      BY <1>1
<1>2. ASSUME NEW stateIds \in Drawn(idx, fixed), Reconfigure(idx, stateIds)
      PROVE  ids' \in [SubEnvs -> States] /\ \A e \in SubEnvs : simulator'[e].state \in States
  <2> DEFINE place(e) == CHOOSE j \in DOMAIN idx : idx[j] = e
             new == [e \in SubEnvs |-> IF e \in Range(idx) THEN stateIds[place(e)] ELSE ids[e]]
  <2>1. \A j \in DOMAIN idx : idx[j] \in SubEnvs
        BY IndicesType
  <2>2. \A j \in DOMAIN idx : stateIds[j] \in States
    <3> HIDE DEF idx
    <3>1. CASE fixed
      <4>1. stateIds = [j \in DOMAIN idx |-> resetIds'[idx[j]]]
            BY <3>1 DEF Drawn
      <4> QED BY <2>1, <4>1
    <3>2. CASE ~fixed
          BY <3>2 DEF Drawn
    <3> QED BY <3>1, <3>2
  <2>3. \A e \in Range(idx) : place(e) \in DOMAIN idx
        BY DEF Range
  <2>4. \A e \in SubEnvs : new[e] \in States
        BY <2>2, <2>3
  <2>5. new \in [SubEnvs -> States]
        BY <2>4
  <2>6. /\ ids' = new
        /\ \A e \in SubEnvs :
               simulator'[e].state = IF e \in Range(idx) THEN new[e] ELSE simulator[e].state
    <3> HIDE DEF idx
    <3> QED BY <1>2 DEF Reconfigure
  <2> HIDE DEF new, idx
  <2> QED BY <2>4, <2>5, <2>6
<1> QED BY <1>1, <1>2 DEF Restart

\* The settings are those of the training, or kept for after the evaluation.
SettingsKept ==
    \/ backup = <<>> /\ ignore = config.ignore
    \/ backup = <<config.ignore>> /\ pc # "begin"

\* WorkerTypeOK, with what the stack of settings can hold.
WorkerTyped ==
    /\ config \in Configs
    /\ pc \in {"begin", "reset", "step", "stats"}
    /\ left \in 0..RolloutLen /\ rollouts \in 0..MaxRollouts
    /\ ignore \in BOOLEAN /\ SettingsKept
    /\ Metered
    /\ isStart \in BOOLEAN /\ resetIds \in [SubEnvs -> States] /\ ids \in [SubEnvs -> States]
    /\ \A e \in SubEnvs : simulator[e].state \in States
    /\ stale \in [SubEnvs -> BOOLEAN]

\* They hold at first.
LEMMA WorkerTypedInit == WorkerInit => WorkerTyped
<1> SUFFICES ASSUME WorkerInit PROVE WorkerTyped
    OBVIOUS
<1>1. /\ RolloutLen \in Nat \ {0} /\ MaxRollouts \in Nat \ {0}
      BY AutoResetAssumption
<1>2. config.ignore \in BOOLEAN /\ config \in Configs
      BY ConfigTypes DEF WorkerInit
<1>3. Metered /\ stale \in [SubEnvs -> BOOLEAN]
      BY DEF WorkerInit, Metered, All
<1>4. /\ resetIds \in [SubEnvs -> States] /\ ids \in [SubEnvs -> States]
      /\ \A e \in SubEnvs : simulator[e].state \in States
      BY DEF WorkerInit
<1>5. /\ left \in 0..RolloutLen /\ rollouts \in 0..MaxRollouts
      /\ pc \in {"begin", "reset", "step", "stats"} /\ isStart \in BOOLEAN
      BY <1>1 DEF WorkerInit
<1>6. ignore \in BOOLEAN /\ SettingsKept
      BY <1>2 DEF WorkerInit, SettingsKept
<1> QED BY <1>2, <1>3, <1>4, <1>5, <1>6 DEF WorkerTyped

\* The metrics after a chunk, with the episodes that ended restarted.
LEMMA MeteredAgain ==
    ASSUME WorkerTyped, StepChunk
    PROVE  Metered' /\ stale' \in [SubEnvs -> BOOLEAN]
<1>1. PICK outcomes \in Outcomes :
         LET m == FoldLeft(Advance, Metrics, outcomes)
             ended == m.terminated \cup m.truncated
             restarted == IF config.autoReset THEN ended ELSE {}
             Again(f, zero) == [e \in SubEnvs |-> IF e \in restarted THEN zero ELSE f[e]]
         IN  /\ elapsed' = Again(m.elapsed, 0) /\ prev' = Again(m.prev, 0)
             /\ success' = Again(m.success, FALSE) /\ returns' = Again(m.returns, 0)
             /\ stale' = Again(stale, FALSE)
      BY DEF StepChunk, Outcomes
<1>2. FoldLeft(Advance, Metrics, outcomes) \in Held
      BY AfterChunk, ConfigTypes DEF WorkerTyped, After
<1> DEFINE m == FoldLeft(Advance, Metrics, outcomes)
           restarted == IF config.autoReset THEN m.terminated \cup m.truncated ELSE {}
<1>3. /\ elapsed' = [e \in SubEnvs |-> IF e \in restarted THEN 0 ELSE m.elapsed[e]]
      /\ prev' = [e \in SubEnvs |-> IF e \in restarted THEN 0 ELSE m.prev[e]]
      /\ success' = [e \in SubEnvs |-> IF e \in restarted THEN FALSE ELSE m.success[e]]
      /\ returns' = [e \in SubEnvs |-> IF e \in restarted THEN 0 ELSE m.returns[e]]
      /\ stale' = [e \in SubEnvs |-> IF e \in restarted THEN FALSE ELSE stale[e]]
      BY <1>1
<1>4. m \in Held
      BY <1>2
<1> HIDE DEF m, restarted
<1>5. /\ m.elapsed \in [SubEnvs -> Nat] /\ m.prev \in [SubEnvs -> {0, 1}]
      /\ m.success \in [SubEnvs -> BOOLEAN] /\ m.returns \in [SubEnvs -> Int]
      BY <1>4 DEF Held
<1>6. stale' \in [SubEnvs -> BOOLEAN]
      BY <1>3 DEF WorkerTyped
<1>7. elapsed' \in [SubEnvs -> Nat]
      BY <1>3, <1>5
<1>8. prev' \in [SubEnvs -> {0, 1}]
      BY <1>3, <1>5
<1>9. success' \in [SubEnvs -> BOOLEAN]
      BY <1>3, <1>5
<1>10. returns' \in [SubEnvs -> Int]
      BY <1>3, <1>5
<1> QED BY <1>6, <1>7, <1>8, <1>9, <1>10 DEF Metered

\* And after every call.
LEMMA WorkerTypedStep == ASSUME WorkerTyped, [WorkerNext]_workerVars PROVE WorkerTyped'
<1>1. /\ RolloutLen \in Nat \ {0} /\ MaxRollouts \in Nat \ {0}
      BY AutoResetAssumption
<1>2. /\ config.ignore \in BOOLEAN /\ config.evaluate \in BOOLEAN
      BY ConfigTypes DEF WorkerTyped
<1>3. CASE Begin
  <2>1. backup = <<>> /\ ignore = config.ignore
        BY <1>3 DEF Begin, WorkerTyped, SettingsKept
  <2>2. SettingsKept' /\ ignore' \in BOOLEAN
        BY <1>2, <1>3, <2>1 DEF Begin, SettingsKept, settingVars
  <2> QED BY <1>1, <1>3, <2>2 DEF Begin, WorkerTyped, Metered, metricVars, taskVars, statVars
<1>4. CASE Reset
  <2>1. SettingsKept'
        BY <1>4 DEF Reset, WorkerTyped, SettingsKept, settingVars
  <2>2. Metered'
    <3>1. elapsed' \in [SubEnvs -> Nat] /\ prev' \in [SubEnvs -> {0, 1}]
          BY <1>4 DEF Reset, All
    <3>2. success' \in [SubEnvs -> BOOLEAN] /\ returns' \in [SubEnvs -> Int]
      <4>1. CASE Libero
        <5>1. success' = All(FALSE) /\ returns' = All(0)
              BY <1>4, <4>1 DEF Reset
        <5> QED BY <5>1 DEF All
      <4>2. CASE ~Libero
        <5>1. success' = success /\ returns' = returns
              BY <1>4, <4>2 DEF Reset
        <5> QED BY <5>1 DEF WorkerTyped, Metered
      <4> QED BY <4>1, <4>2
    <3> QED BY <3>1, <3>2 DEF Metered
  <2>3. ids' \in [SubEnvs -> States] /\ \A e \in SubEnvs : simulator'[e].state \in States
        BY <1>4, RestartTyped DEF Reset, WorkerTyped
  <2>4. stale' \in [SubEnvs -> BOOLEAN]
    <3>1. CASE Libero
          BY <1>4, <3>1 DEF Reset, WorkerTyped
    <3>2. CASE ~Libero
      <4>1. stale' = [e \in SubEnvs |-> stale[e] \/ success[e] \/ returns[e] # 0]
            BY <1>4, <3>2 DEF Reset
      <4>2. \A e \in SubEnvs : (stale[e] \/ success[e] \/ returns[e] # 0) \in BOOLEAN
            OBVIOUS
      <4> QED BY <4>1, <4>2
    <3> QED BY <3>1, <3>2
  <2>5. /\ left' \in 0..RolloutLen /\ pc' \in {"begin", "reset", "step", "stats"}
        /\ isStart' \in BOOLEAN
    <3>1. left' = RolloutLen /\ pc' = "step"
          BY <1>4 DEF Reset
    <3>2. isStart' \in BOOLEAN
          BY <1>4, Zenon DEF Reset
    <3>3. left' \in 0..RolloutLen
          BY <1>1, <3>1
    <3> QED BY <3>1, <3>2, <3>3, Zenon
  <2>6. UNCHANGED <<config, rollouts, ignore, resetIds>>
        BY <1>4 DEF Reset, settingVars
  <2> QED BY <2>1, <2>2, <2>3, <2>4, <2>5, <2>6 DEF WorkerTyped
<1>5. CASE StepChunk
  <2>1. Metered' /\ stale' \in [SubEnvs -> BOOLEAN]
        BY <1>5, MeteredAgain
  <2>2. /\ left' \in 0..RolloutLen
        /\ UNCHANGED <<config, pc, rollouts, settingVars, isStart>>
        BY <1>1, <1>5 DEF StepChunk, WorkerTyped
  <2>3. PICK outcomes \in Outcomes :
           LET m == FoldLeft(Advance, Metrics, outcomes)
               ended == m.terminated \cup m.truncated
               restarted == IF config.autoReset THEN ended ELSE {}
           IN  /\ UpdateResetIds(config.eval /\ restarted # {})
               /\ Restart(restarted, config.fixed)
        BY <1>5 DEF StepChunk, Outcomes
  <2>4. FoldLeft(Advance, Metrics, outcomes) \in Held
        BY AfterChunk, ConfigTypes DEF WorkerTyped, After
  <2>5. FoldLeft(Advance, Metrics, outcomes).terminated \in SUBSET SubEnvs
        /\ FoldLeft(Advance, Metrics, outcomes).truncated \in SUBSET SubEnvs
        BY <2>4 DEF Held
  <2>6. PICK restarted \in SUBSET SubEnvs :
            /\ UpdateResetIds(config.eval /\ restarted # {})
            /\ Restart(restarted, config.fixed)
        BY <2>3, <2>5
  <2>7. resetIds' \in [SubEnvs -> States]
        BY <2>6 DEF UpdateResetIds, WorkerTyped
  <2>8. ids' \in [SubEnvs -> States] /\ \A e \in SubEnvs : simulator'[e].state \in States
        BY <2>6, <2>7, RestartTyped DEF WorkerTyped
  <2> QED BY <2>1, <2>2, <2>7, <2>8 DEF WorkerTyped, SettingsKept, settingVars
<1>6. CASE EndRollout
  <2>1. rollouts' \in 0..MaxRollouts
        BY <1>1, <1>6 DEF EndRollout, WorkerTyped
  <2> QED BY <1>6, <2>1 DEF EndRollout, WorkerTyped, SettingsKept, Metered, settingVars, metricVars,
                            taskVars, statVars
<1>7. CASE Stats
  <2>1. SettingsKept' /\ ignore' \in BOOLEAN
    <3>1. CASE backup = <<>>
          BY <1>7, <3>1 DEF Stats, WorkerTyped, SettingsKept, settingVars
    <3>2. CASE backup # <<>>
      <4>1. backup = <<config.ignore>>
            BY <3>2 DEF WorkerTyped, SettingsKept
      <4>2. Last(backup) = config.ignore /\ Front(backup) = <<>>
            BY <4>1 DEF Last, Front
      <4> QED BY <1>2, <1>7, <3>2, <4>2 DEF Stats, SettingsKept
    <3> QED BY <3>1, <3>2
  <2>2. resetIds' \in [SubEnvs -> States]
        BY <1>7 DEF Stats, UpdateResetIds, WorkerTyped
  <2> QED BY <1>7, <2>1, <2>2 DEF Stats, WorkerTyped, Metered, metricVars
<1>8. CASE UNCHANGED workerVars
      BY <1>8 DEF workerVars, engineVars, settingVars, metricVars, taskVars, statVars, WorkerTyped,
                  SettingsKept, Metered
<1> QED BY <1>3, <1>4, <1>5, <1>6, <1>7, <1>8 DEF WorkerNext

\* The variables of an environment worker keep their types, and its settings are again
\* those of the training when an evaluation is over: restore_evaluate_cfg takes from the
\* stack what apply_evaluate_cfg put there.
THEOREM WorkerTypeCorrect == WorkerSpec => []WorkerTypeOK
<1>1. WorkerTyped => WorkerTypeOK
  <2> SUFFICES ASSUME WorkerTyped PROVE WorkerTypeOK
      OBVIOUS
  <2>1. Len(backup) <= 1
    <3>1. CASE backup = <<>>
          BY <3>1
    <3>2. CASE backup = <<config.ignore>>
      <4>1. Len(<<config.ignore>>) = 1
            OBVIOUS
      <4> HIDE DEF WorkerTyped
      <4>2. Len(backup) = 1
            BY <3>2, <4>1, Zenon
      <4> QED BY <4>2
    <3> QED BY <3>1, <3>2 DEF WorkerTyped, SettingsKept
  <2>2. pc = "begin" => ignore = config.ignore /\ backup = <<>>
        BY DEF WorkerTyped, SettingsKept
  <2> QED BY <2>1, <2>2 DEF WorkerTyped, Metered, WorkerTypeOK
<1> QED BY <1>1, WorkerTypedInit, WorkerTypedStep, PTL DEF WorkerSpec

\* Building subprocesses anew leaves every simulator with the task that it is told.
LEMMA Reconfigured ==
    ASSUME ids \in [SubEnvs -> States], Libero, TaskMatches, config' = config,
           NEW envIdx, NEW stateIds, Reconfigure(envIdx, stateIds)
    PROVE  TaskMatches'
<1> DEFINE place(e) == CHOOSE j \in DOMAIN envIdx : envIdx[j] = e
           new == [e \in SubEnvs |-> IF e \in Range(envIdx) THEN stateIds[place(e)] ELSE ids[e]]
           rebuilt == {e \in SubEnvs : new[e].task # ids[e].task}
<1>1. /\ ids' = new
      /\ simulator' = [e \in SubEnvs |->
             [task |-> IF e \in rebuilt THEN new[e].task ELSE simulator[e].task,
              state |-> IF e \in Range(envIdx) THEN new[e] ELSE simulator[e].state]]
      /\ descriptions' = [e \in SubEnvs |-> IF e \in rebuilt THEN new[e].task ELSE descriptions[e]]
      BY DEF Reconfigure
<1>2. \A e \in SubEnvs : e \notin Range(envIdx) => new[e] = ids[e]
      OBVIOUS
<1>3. \A e \in SubEnvs : e \notin rebuilt => new[e].task = ids[e].task
      OBVIOUS
<1> HIDE DEF new, rebuilt
<1>4. ASSUME NEW e \in SubEnvs
      PROVE  /\ simulator'[e].task = ids'[e].task /\ descriptions'[e] = ids'[e].task
             /\ simulator'[e].state = ids'[e]
  <2>1. /\ simulator[e].task = ids[e].task /\ descriptions[e] = ids[e].task
        /\ simulator[e].state = ids[e]
        BY DEF TaskMatches
  <2>2. /\ simulator'[e].task = IF e \in rebuilt THEN new[e].task ELSE simulator[e].task
        /\ simulator'[e].state = IF e \in Range(envIdx) THEN new[e] ELSE simulator[e].state
        /\ descriptions'[e] = IF e \in rebuilt THEN new[e].task ELSE descriptions[e]
        BY <1>1
  <2> QED BY <1>1, <1>2, <1>3, <2>1, <2>2
<1> QED BY <1>4 DEF TaskMatches

\* Restarting simulators does too.
LEMMA RestartMatches ==
    ASSUME ids \in [SubEnvs -> States], TaskMatches, config' = config,
           NEW envs, NEW fixed, Restart(envs, fixed)
    PROVE  TaskMatches'
<1>1. CASE UNCHANGED <<ids, simulator, descriptions>>
      BY <1>1 DEF TaskMatches, Libero
<1>2. CASE Libero /\ envs # {}
  <2>1. PICK stateIds : Reconfigure(Indices(envs), stateIds)
        BY <1>2 DEF Restart
  <2> QED BY <1>2, <2>1, Reconfigured
<1> QED BY <1>1, <1>2 DEF Restart

\* Whichever simulators LiberoEnv restarts, with or without another task, each one runs,
\* and is described by, the task of its task_ids.
THEOREM TasksMatch == WorkerSpec => []TaskMatches
<1>1. WorkerInit => TaskMatches
      BY DEF WorkerInit, TaskMatches
<1>2. ASSUME WorkerTyped, TaskMatches, [WorkerNext]_workerVars PROVE TaskMatches'
  <2>1. ids \in [SubEnvs -> States]
        BY <1>2 DEF WorkerTyped
  <2>2. CASE UNCHANGED <<config, ids, simulator, descriptions>>
        BY <1>2, <2>2 DEF TaskMatches, Libero
  <2>3. CASE Reset
        BY <1>2, <2>1, <2>3, RestartMatches DEF Reset
  <2>4. CASE StepChunk
    <3>1. config' = config
          BY <2>4 DEF StepChunk
    <3>2. PICK restarted : Restart(restarted, config.fixed)
          BY <2>4 DEF StepChunk
    <3> QED BY <1>2, <2>1, <3>1, <3>2, RestartMatches
  <2>5. CASE Begin
        BY <2>2, <2>5 DEF Begin, taskVars
  <2>6. CASE EndRollout
        BY <2>2, <2>6 DEF EndRollout, taskVars
  <2>7. CASE Stats
        BY <2>2, <2>7 DEF Stats
  <2>8. CASE UNCHANGED workerVars
        BY <2>2, <2>8 DEF workerVars, engineVars, taskVars
  <2> QED BY <1>2, <2>3, <2>4, <2>5, <2>6, <2>7, <2>8 DEF WorkerNext
<1> QED BY <1>1, <1>2, WorkerTypedInit, WorkerTypedStep, PTL DEF WorkerSpec

-----------------------------------------------------------------------------
(***************************************************************************)
(* AutoResetEnv: the statistics are about the episodes the engine saw.     *)
(***************************************************************************)

Episode == [sum : Int, len : Nat, won : BOOLEAN, recorded : Nat]

\* The metrics of a simulator are those of the episode that the engine sees.
Tracked ==
    /\ truth \in [SubEnvs -> Episode]
    /\ \A e \in SubEnvs :
           /\ elapsed[e] = truth[e].len
           /\ ~stale[e] => returns[e] = truth[e].sum /\ success[e] = truth[e].won

\* What is recorded is true.
RecordsTrue ==
    \A r \in records :
        ~r.stale /\ ~RewardsLost =>
            r.claim = [return |-> r.truth.sum, len |-> r.truth.len, success |-> r.truth.won]

\* An episode that is not restarted is as long as the steps made of the rollout, and
\* recorded when that is the full length.
LengthsCounted ==
    \A e \in SubEnvs :
        /\ config.autoReset => truth[e].len < config.limit
        /\ ~config.autoReset /\ pc = "step" => truth[e].len = (RolloutLen - left) * config.chunk
        /\ ~config.autoReset /\ Libero =>
               IF truth[e].len < config.limit THEN truth[e].recorded = 0
               ELSE IF (RolloutLen - 1) * config.chunk < config.limit
                    THEN truth[e].recorded = 1 ELSE truth[e].recorded > 0

StatsInv == WorkerTyped /\ Tracked /\ RecordsTrue /\ LengthsCounted

\* What a chunk does, from the metrics m after it, the simulators that are restarted
\* and those that are reported, and what the engine has seen of the episodes.
Chunk(outcomes, m, restarted, reported, seen) ==
    /\ After(m, outcomes, config.chunk)
    /\ IF config.autoReset THEN m.truncated \subseteq restarted /\ reported = restarted
       ELSE restarted = {} /\ (Libero => reported = m.truncated)
    /\ elapsed' = [e \in SubEnvs |-> IF e \in restarted THEN 0 ELSE m.elapsed[e]]
    /\ success' = [e \in SubEnvs |-> IF e \in restarted THEN FALSE ELSE m.success[e]]
    /\ returns' = [e \in SubEnvs |-> IF e \in restarted THEN 0 ELSE m.returns[e]]
    /\ stale' = [e \in SubEnvs |-> IF e \in restarted THEN FALSE ELSE stale[e]]
    /\ records' = records \cup
           {[claim |-> Recorded(m, e), truth |-> seen[e], stale |-> stale[e]] : e \in reported}
    /\ truth' = [e \in SubEnvs |->
           IF e \in restarted THEN NewEpisode
           ELSE IF e \in reported THEN [seen[e] EXCEPT !.recorded = @ + 1] ELSE seen[e]]
    /\ \A e \in SubEnvs :
           /\ seen[e].len = truth[e].len + config.chunk
           /\ seen[e].won = (truth[e].won \/ \E i \in 1..config.chunk : outcomes[i][e] = 1)
           /\ seen[e].recorded = truth[e].recorded
           /\ e \notin restarted \/ ~RewardsLost => seen[e].sum = truth[e].sum + m.rewards[e]

\* Every step of the worker is one.
LEMMA ChunkMade ==
    ASSUME WorkerTyped, truth \in [SubEnvs -> Episode], StepChunk
    PROVE  \E outcomes \in Outcomes, m \in Held, restarted \in SUBSET SubEnvs,
              reported \in SUBSET SubEnvs, seen \in [SubEnvs -> Episode] :
               Chunk(outcomes, m, restarted, reported, seen)
<1>1. PICK outcomes \in Outcomes :
         LET m == FoldLeft(Advance, Metrics, outcomes)
             ended == m.terminated \cup m.truncated
             restarted == IF config.autoReset THEN ended ELSE {}
             reported == IF config.autoReset THEN ended ELSE IF Libero THEN m.truncated ELSE {}
             seen == Seen(m, Delivered(m, restarted), outcomes)
             Again(f, zero) == [e \in SubEnvs |-> IF e \in restarted THEN zero ELSE f[e]]
         IN  /\ elapsed' = Again(m.elapsed, 0)
             /\ success' = Again(m.success, FALSE) /\ returns' = Again(m.returns, 0)
             /\ records' = records \cup
                    {[claim |-> Recorded(m, e), truth |-> seen[e], stale |-> stale[e]] : e \in reported}
             /\ truth' = [e \in SubEnvs |->
                    IF e \in restarted THEN NewEpisode
                    ELSE IF e \in reported THEN [seen[e] EXCEPT !.recorded = @ + 1] ELSE seen[e]]
             /\ stale' = Again(stale, FALSE)
      BY DEF StepChunk, Outcomes
<1> DEFINE m == FoldLeft(Advance, Metrics, outcomes)
           ended == m.terminated \cup m.truncated
           restarted == IF config.autoReset THEN ended ELSE {}
           reported == IF config.autoReset THEN ended ELSE IF Libero THEN m.truncated ELSE {}
           delivered == Delivered(m, restarted)
           seen == Seen(m, delivered, outcomes)
<1>2. After(m, outcomes, config.chunk)
      BY AfterChunk, ConfigTypes DEF WorkerTyped
<1>3. config.chunk \in Nat /\ config.autoReset \in BOOLEAN
      BY ConfigTypes DEF WorkerTyped
<1>4. /\ elapsed' = [e \in SubEnvs |-> IF e \in restarted THEN 0 ELSE m.elapsed[e]]
      /\ success' = [e \in SubEnvs |-> IF e \in restarted THEN FALSE ELSE m.success[e]]
      /\ returns' = [e \in SubEnvs |-> IF e \in restarted THEN 0 ELSE m.returns[e]]
      /\ stale' = [e \in SubEnvs |-> IF e \in restarted THEN FALSE ELSE stale[e]]
      /\ records' = records \cup
             {[claim |-> Recorded(m, e), truth |-> seen[e], stale |-> stale[e]] : e \in reported}
      /\ truth' = [e \in SubEnvs |->
             IF e \in restarted THEN NewEpisode
             ELSE IF e \in reported THEN [seen[e] EXCEPT !.recorded = @ + 1] ELSE seen[e]]
      BY <1>1, Zenon
<1> HIDE DEF m
<1>5. m \in Held
      BY <1>2 DEF After
<1>6. m.rewards \in [SubEnvs -> Int] /\ m.last \in [SubEnvs -> Int] /\ ended \in SUBSET SubEnvs
      /\ m.truncated \in SUBSET SubEnvs
      BY <1>5 DEF Held
<1>7. restarted \in SUBSET SubEnvs /\ reported \in SUBSET SubEnvs
      BY <1>6
<1>8. IF config.autoReset THEN m.truncated \subseteq restarted /\ reported = restarted
      ELSE restarted = {} /\ (Libero => reported = m.truncated)
      OBVIOUS
<1>9. /\ delivered \in [SubEnvs -> Int]
      /\ \A e \in SubEnvs : e \notin restarted \/ ~RewardsLost => delivered[e] = m.rewards[e]
  <2>1. \A e \in SubEnvs : e \in restarted => config.autoReset
        OBVIOUS
  <2> HIDE DEF restarted
  <2>2. \A e \in SubEnvs :
            delivered[e] = IF e \in restarted /\ ~Libero /\ ~config.rel
                           THEN m.rewards[e] - m.last[e] ELSE m.rewards[e]
        BY DEF Delivered
  <2>3. \A e \in SubEnvs : m.rewards[e] \in Int /\ m.rewards[e] - m.last[e] \in Int
        BY <1>6
  <2>4. delivered = [e \in SubEnvs |-> delivered[e]]
        BY DEF Delivered
  <2>5. \A e \in SubEnvs : delivered[e] \in Int
        BY <2>2, <2>3
  <2>6. \A e \in SubEnvs : e \notin restarted \/ ~RewardsLost => delivered[e] = m.rewards[e]
        BY <2>1, <2>2 DEF RewardsLost
  <2> HIDE DEF delivered
  <2> QED BY <2>4, <2>5, <2>6
<1>10. Len(outcomes) = config.chunk /\ DOMAIN outcomes = 1..config.chunk
  <2>1. outcomes \in Seq([SubEnvs -> {0, 1}])
        BY <1>3, SeqDef DEF Outcomes
  <2>2. DOMAIN outcomes = 1..config.chunk
        BY DEF Outcomes
  <2>3. Len(outcomes) \in Nat /\ DOMAIN outcomes = 1..Len(outcomes)
        BY <2>1, LenProperties
  <2> QED BY <1>3, <2>2, <2>3
<1> HIDE DEF restarted, reported, delivered
<1>11. ASSUME NEW e \in SubEnvs
       PROVE  /\ seen[e].sum = truth[e].sum + delivered[e]
              /\ seen[e].len = truth[e].len + config.chunk
              /\ seen[e].won = (truth[e].won \/ \E i \in 1..config.chunk : outcomes[i][e] = 1)
              /\ seen[e].recorded = truth[e].recorded
              /\ seen[e] \in Episode
  <2> DEFINE scored == \E i \in 1..config.chunk : outcomes[i][e] = 1
  <2>1. seen[e] = [sum |-> truth[e].sum + delivered[e], len |-> truth[e].len + config.chunk,
                   won |-> truth[e].won \/ scored, recorded |-> truth[e].recorded]
        BY <1>10 DEF Seen
  <2>2. truth[e] \in Episode
        OBVIOUS
  <2>3. truth[e].sum + delivered[e] \in Int /\ truth[e].len + config.chunk \in Nat
        BY <1>3, <1>9, <2>2 DEF Episode
  <2>4. (truth[e].won \/ scored) \in BOOLEAN /\ truth[e].recorded \in Nat
        BY <2>2 DEF Episode
  <2> HIDE DEF scored, seen
  <2>5. seen[e] \in Episode
        BY <2>1, <2>3, <2>4 DEF Episode
  <2>6. seen[e].won = (truth[e].won \/ scored)
        BY <2>1
  <2> QED BY <2>1, <2>5, <2>6 DEF scored
<1>12. seen \in [SubEnvs -> Episode]
  <2>1. seen = [e \in SubEnvs |-> seen[e]]
        BY DEF Seen
  <2> HIDE DEF seen
  <2> QED BY <1>11, <2>1
<1> HIDE DEF seen
<1>13. \A e \in SubEnvs : e \notin restarted \/ ~RewardsLost => seen[e].sum = truth[e].sum + m.rewards[e]
      BY <1>9, <1>11
<1>14. Chunk(outcomes, m, restarted, reported, seen)
      BY <1>2, <1>4, <1>8, <1>11, <1>13, Zenon DEF Chunk
<1> QED BY <1>5, <1>7, <1>12, <1>14

\* Elapsed steps, return and success are tracked through every step.
LEMMA TrackedStep ==
    ASSUME WorkerTyped, Tracked, [WorkerNext]_workerVars
    PROVE  Tracked'
<1>1. CASE UNCHANGED <<metricVars, truth, stale>>
      BY <1>1 DEF Tracked, metricVars
<1>2. CASE Reset
  <2>1. /\ truth' = [e \in SubEnvs |-> NewEpisode] /\ elapsed' = [e \in SubEnvs |-> 0]
        BY <1>2 DEF Reset, All
  <2>2. truth' \in [SubEnvs -> Episode]
        BY <2>1 DEF Episode, NewEpisode
  <2>3. ASSUME NEW e \in SubEnvs, ~stale'[e] PROVE returns'[e] = 0 /\ success'[e] = FALSE
    <3>1. CASE Libero
          BY <1>2, <3>1 DEF Reset, All
    <3>2. CASE ~Libero
      <4>1. /\ stale' = [d \in SubEnvs |-> stale[d] \/ success[d] \/ returns[d] # 0]
            /\ success' = success /\ returns' = returns
            BY <1>2, <3>2 DEF Reset
      <4>2. ~success[e] /\ returns[e] = 0
            BY <2>3, <4>1
      <4>3. success[e] \in BOOLEAN
            BY DEF WorkerTyped, Metered
      <4> QED BY <4>1, <4>2, <4>3
    <3> QED BY <3>1, <3>2
  <2>4. \A e \in SubEnvs : truth'[e] = NewEpisode /\ elapsed'[e] = 0
        BY <2>1
  <2>5. \A e \in SubEnvs : truth'[e].len = 0 /\ truth'[e].sum = 0 /\ truth'[e].won = FALSE
        BY <2>4 DEF NewEpisode
  <2>6. \A e \in SubEnvs : /\ elapsed'[e] = truth'[e].len
                           /\ ~stale'[e] => returns'[e] = truth'[e].sum /\ success'[e] = truth'[e].won
        BY <2>3, <2>4, <2>5, Zenon
  <2> QED BY <2>2, <2>6 DEF Tracked
<1>3. CASE StepChunk
  <2>1. PICK outcomes \in Outcomes, m \in Held, restarted \in SUBSET SubEnvs,
             reported \in SUBSET SubEnvs, seen \in [SubEnvs -> Episode] :
                Chunk(outcomes, m, restarted, reported, seen)
        BY <1>3, ChunkMade DEF Tracked
  <2>2. truth' = [e \in SubEnvs |->
           IF e \in restarted THEN NewEpisode
           ELSE IF e \in reported THEN [seen[e] EXCEPT !.recorded = @ + 1] ELSE seen[e]]
        BY <2>1 DEF Chunk
  <2>3. ASSUME NEW e \in SubEnvs
        PROVE  /\ truth'[e] \in Episode
               /\ e \notin restarted => /\ truth'[e].sum = seen[e].sum /\ truth'[e].len = seen[e].len
                                        /\ truth'[e].won = seen[e].won
    <3>1. seen[e] \in Episode
          OBVIOUS
    <3>2. CASE e \in restarted
          BY <2>2, <3>2 DEF NewEpisode, Episode
    <3>3. CASE e \notin restarted /\ e \in reported
      <4>1. truth'[e] = [seen[e] EXCEPT !.recorded = @ + 1]
            BY <2>2, <3>3
      <4> QED BY <3>1, <4>1 DEF Episode
    <3>4. CASE e \notin restarted /\ e \notin reported
          BY <2>2, <3>1, <3>4
    <3> QED BY <3>2, <3>3, <3>4
  <2>4. truth' \in [SubEnvs -> Episode]
    <3>1. truth' = [e \in SubEnvs |-> truth'[e]]
          BY <2>2
    <3> QED BY <2>3, <3>1
  <2>5. ASSUME NEW e \in SubEnvs
        PROVE  /\ elapsed'[e] = truth'[e].len
               /\ ~stale'[e] => returns'[e] = truth'[e].sum /\ success'[e] = truth'[e].won
    <3>1. CASE e \in restarted
      <4>1. elapsed'[e] = 0 /\ returns'[e] = 0 /\ success'[e] = FALSE /\ truth'[e] = NewEpisode
            BY <2>1, <2>2, <3>1 DEF Chunk
      <4>2. truth'[e].len = 0 /\ truth'[e].sum = 0 /\ truth'[e].won = FALSE
            BY <4>1 DEF NewEpisode
      <4> QED BY <4>1, <4>2, Zenon
    <3>2. CASE e \notin restarted
      <4>1. /\ elapsed'[e] = m.elapsed[e] /\ returns'[e] = m.returns[e]
            /\ success'[e] = m.success[e] /\ stale'[e] = stale[e]
            BY <2>1, <3>2 DEF Chunk
      <4>2. /\ m.elapsed[e] = elapsed[e] + config.chunk
            /\ m.returns[e] = returns[e] + m.rewards[e]
            /\ m.success[e] = (success[e] \/ \E i \in 1..config.chunk : outcomes[i][e] = 1)
            BY <2>1 DEF Chunk, After
      <4>3. /\ seen[e].len = truth[e].len + config.chunk
            /\ seen[e].won = (truth[e].won \/ \E i \in 1..config.chunk : outcomes[i][e] = 1)
            /\ seen[e].sum = truth[e].sum + m.rewards[e]
            BY <2>1, <3>2 DEF Chunk
      <4>4. /\ elapsed[e] = truth[e].len
            /\ ~stale[e] => returns[e] = truth[e].sum /\ success[e] = truth[e].won
            BY DEF Tracked
      <4>5. elapsed'[e] = truth'[e].len
            BY <2>3, <3>2, <4>1, <4>2, <4>3, <4>4
      <4>6. ASSUME ~stale'[e] PROVE returns'[e] = truth'[e].sum
            BY <2>3, <3>2, <4>1, <4>2, <4>3, <4>4, <4>6
      <4>7. ASSUME ~stale'[e] PROVE success'[e] = truth'[e].won
        <5>1. success[e] = truth[e].won
              BY <4>1, <4>4, <4>7
        <5>2. truth'[e].won = seen[e].won
              BY <2>3, <3>2
        <5> QED BY <4>1, <4>2, <4>3, <5>1, <5>2, Zenon
      <4> QED BY <4>5, <4>6, <4>7
    <3> QED BY <3>1, <3>2
  <2> QED BY <2>4, <2>5 DEF Tracked
<1>4. CASE Begin
      BY <1>1, <1>4 DEF Begin, statVars
<1>5. CASE EndRollout
      BY <1>1, <1>5 DEF EndRollout, statVars
<1>6. CASE Stats
      BY <1>1, <1>6 DEF Stats
<1>7. CASE UNCHANGED workerVars
      BY <1>1, <1>7 DEF workerVars, statVars
<1> QED BY <1>2, <1>3, <1>4, <1>5, <1>6, <1>7 DEF WorkerNext

\* A record that is made is about the episode that ended.
LEMMA RecordsStep ==
    ASSUME WorkerTyped, Tracked, RecordsTrue, [WorkerNext]_workerVars
    PROVE  RecordsTrue'
<1>1. CASE UNCHANGED <<config, records>>
      BY <1>1 DEF RecordsTrue, RewardsLost, Libero
<1>2. CASE StepChunk
  <2>1. PICK outcomes \in Outcomes, m \in Held, restarted \in SUBSET SubEnvs,
             reported \in SUBSET SubEnvs, seen \in [SubEnvs -> Episode] :
                Chunk(outcomes, m, restarted, reported, seen)
        BY <1>2, ChunkMade DEF Tracked
  <2>2. config' = config
        BY <1>2 DEF StepChunk
  <2>3. RewardsLost' = RewardsLost
        BY <2>2 DEF RewardsLost, Libero
  <2>4. records' = records \cup
            {[claim |-> Recorded(m, e), truth |-> seen[e], stale |-> stale[e]] : e \in reported}
        BY <2>1 DEF Chunk
  <2>5. ASSUME NEW e \in SubEnvs, ~stale[e], ~RewardsLost
        PROVE  Recorded(m, e) = [return |-> seen[e].sum, len |-> seen[e].len, success |-> seen[e].won]
    <3>1. /\ m.elapsed[e] = elapsed[e] + config.chunk
          /\ m.returns[e] = returns[e] + m.rewards[e]
          /\ m.success[e] = (success[e] \/ \E i \in 1..config.chunk : outcomes[i][e] = 1)
          BY <2>1 DEF Chunk, After
    <3>2. /\ seen[e].len = truth[e].len + config.chunk
          /\ seen[e].won = (truth[e].won \/ \E i \in 1..config.chunk : outcomes[i][e] = 1)
          /\ seen[e].sum = truth[e].sum + m.rewards[e]
          BY <2>1, <2>5 DEF Chunk
    <3>3. elapsed[e] = truth[e].len /\ returns[e] = truth[e].sum /\ success[e] = truth[e].won
          BY <2>5 DEF Tracked
    <3>4. m.elapsed[e] = seen[e].len /\ m.returns[e] = seen[e].sum
          BY <3>1, <3>2, <3>3
    <3>5. m.success[e] = seen[e].won
          BY <3>1, <3>2, <3>3, Zenon
    <3> QED BY <3>4, <3>5, Zenon DEF Recorded
  <2>6. ASSUME NEW r \in records', ~r.stale, ~RewardsLost
        PROVE  r.claim = [return |-> r.truth.sum, len |-> r.truth.len, success |-> r.truth.won]
    <3>1. CASE r \in records
          BY <2>6, <3>1 DEF RecordsTrue
    <3>2. CASE r \notin records
      <4>1. PICK e \in reported :
                r = [claim |-> Recorded(m, e), truth |-> seen[e], stale |-> stale[e]]
            BY <2>4, <3>2
      <4>2. r.claim = Recorded(m, e) /\ r.truth = seen[e] /\ r.stale = stale[e]
            BY <4>1, Zenon
      <4>3. e \in SubEnvs
            BY <4>1
      <4>4. ~stale[e]
            BY <2>6, <4>2, Zenon
      <4> QED BY <2>5, <2>6, <4>2, <4>3, <4>4, Zenon
    <3> QED BY <3>1, <3>2
  <2> QED BY <2>3, <2>6, Zenon DEF RecordsTrue
<1>3. CASE Stats
      BY <1>3 DEF Stats, RecordsTrue
<1>4. CASE Begin
      BY <1>1, <1>4 DEF Begin, statVars
<1>5. CASE EndRollout
      BY <1>1, <1>5 DEF EndRollout, statVars
<1>6. CASE Reset
      BY <1>1, <1>6 DEF Reset
<1>7. CASE UNCHANGED workerVars
      BY <1>1, <1>7 DEF workerVars, engineVars, statVars
<1> QED BY <1>2, <1>3, <1>4, <1>5, <1>6, <1>7 DEF WorkerNext

\* The steps of a rollout of n, left of them left, and one more made.
LEMMA StepsMade ==
    ASSUME NEW n \in Nat, NEW k \in 1..n, NEW c \in Nat
    PROVE  /\ (n - (k - 1)) * c = (n - k) * c + c
           /\ (n - k) * c <= (n - 1) * c /\ (n - k) * c \in Nat /\ (n - 1) * c \in Nat
<1>1. n - (k - 1) = (n - k) + 1 /\ n - k \in Nat /\ k - 1 \in Nat /\ n - 1 \in Nat
      OBVIOUS
<1>2. ASSUME NEW a \in Nat PROVE (a + 1) * c = a * c + c
      OBVIOUS
<1>3. n - 1 = (n - k) + (k - 1)
      OBVIOUS
<1>4. ASSUME NEW a \in Nat, NEW b \in Nat
      PROVE  (a + b) * c = a * c + b * c /\ a * c \in Nat /\ b * c \in Nat /\ a * c <= a * c + b * c
  <2>1. a * c \in Nat /\ b * c \in Nat
        OBVIOUS
  <2>2. (a + b) * c = a * c + b * c
        OBVIOUS
  <2> QED BY <2>1, <2>2
<1>5. (n - (k - 1)) * c = (n - k) * c + c
      BY <1>1, <1>2
<1>6. /\ (n - 1) * c = (n - k) * c + (k - 1) * c /\ (n - k) * c \in Nat /\ (k - 1) * c \in Nat
      /\ (n - k) * c <= (n - k) * c + (k - 1) * c
      BY <1>1, <1>3, <1>4
<1> QED BY <1>5, <1>6

\* Lengths, and what of them is recorded, through every step.
LEMMA LengthsStep ==
    ASSUME WorkerTyped, Tracked, LengthsCounted, [WorkerNext]_workerVars
    PROVE  LengthsCounted'
<1>1. RolloutLen \in Nat \ {0}
      BY AutoResetAssumption
<1>2. config.limit \in Nat \ {0} /\ config.chunk \in Nat \ {0} /\ config.autoReset \in BOOLEAN
      BY ConfigTypes DEF WorkerTyped
<1>3. CASE Reset
  <2>1. truth' = [e \in SubEnvs |-> NewEpisode] /\ left' = RolloutLen /\ config' = config
        BY <1>3 DEF Reset, All
  <2>2. \A e \in SubEnvs : truth'[e].len = 0 /\ truth'[e].recorded = 0
        BY <2>1 DEF NewEpisode
  <2>3. (RolloutLen - RolloutLen) * config.chunk = 0
        BY <1>1, <1>2
  <2>4. 0 < config.limit
        BY <1>2
  <2> QED BY <2>1, <2>2, <2>3, <2>4 DEF LengthsCounted, Libero
<1>4. CASE StepChunk
  <2>1. PICK outcomes \in Outcomes, m \in Held, restarted \in SUBSET SubEnvs,
             reported \in SUBSET SubEnvs, seen \in [SubEnvs -> Episode] :
                Chunk(outcomes, m, restarted, reported, seen)
        BY <1>4, ChunkMade DEF Tracked
  <2>2. /\ config' = config /\ pc' = pc /\ pc = "step" /\ left' = left - 1 /\ left \in 1..RolloutLen
        BY <1>1, <1>4 DEF StepChunk, WorkerTyped
  <2>3. m.truncated = {e \in SubEnvs : elapsed[e] + config.chunk >= config.limit}
        BY <1>2, <2>1 DEF Chunk, After
  <2>4. SUFFICES ASSUME NEW e \in SubEnvs
        PROVE  /\ config.autoReset => truth'[e].len < config.limit
               /\ ~config.autoReset => truth'[e].len = (RolloutLen - (left - 1)) * config.chunk
               /\ ~config.autoReset /\ Libero =>
                      IF truth'[e].len < config.limit THEN truth'[e].recorded = 0
                      ELSE IF (RolloutLen - 1) * config.chunk < config.limit
                           THEN truth'[e].recorded = 1 ELSE truth'[e].recorded > 0
        BY <2>2 DEF LengthsCounted, Libero
  <2>5. truth[e] \in Episode /\ truth[e].len \in Nat /\ truth[e].recorded \in Nat
        BY DEF Tracked, Episode
  <2>6. seen[e].len = truth[e].len + config.chunk /\ seen[e].recorded = truth[e].recorded
        BY <2>1 DEF Chunk
  <2>7. elapsed[e] = truth[e].len
        BY DEF Tracked
  <2>8. truth'[e] = IF e \in restarted THEN NewEpisode
                    ELSE IF e \in reported THEN [seen[e] EXCEPT !.recorded = @ + 1] ELSE seen[e]
        BY <2>1 DEF Chunk
  <2>9. CASE config.autoReset
    <3>1. CASE e \in restarted
          BY <1>2, <2>8, <2>9, <3>1 DEF NewEpisode
    <3>2. CASE e \notin restarted
      <4>1. e \notin m.truncated /\ e \notin reported
            BY <2>1, <2>9, <3>2 DEF Chunk
      <4>2. truth[e].len + config.chunk < config.limit
            BY <1>2, <2>3, <2>5, <2>7, <4>1
      <4> QED BY <2>6, <2>8, <2>9, <3>2, <4>1, <4>2
    <3> QED BY <3>1, <3>2
  <2>10. CASE ~config.autoReset
    <3>1. restarted = {} /\ (Libero => reported = m.truncated)
          BY <2>1, <2>10 DEF Chunk
    <3>2. truth'[e].len = truth[e].len + config.chunk
      <4>1. CASE e \in reported
        <5>1. truth'[e] = [seen[e] EXCEPT !.recorded = @ + 1]
              BY <2>8, <3>1, <4>1
        <5> QED BY <2>6, <5>1 DEF Episode
      <4>2. CASE e \notin reported
            BY <2>6, <2>8, <3>1, <4>2
      <4> QED BY <4>1, <4>2
    <3>3. truth'[e].recorded = truth[e].recorded + IF e \in reported THEN 1 ELSE 0
      <4>1. CASE e \in reported
        <5>1. truth'[e] = [seen[e] EXCEPT !.recorded = @ + 1]
              BY <2>8, <3>1, <4>1
        <5> QED BY <2>6, <4>1, <5>1 DEF Episode
      <4>2. CASE e \notin reported
            BY <2>5, <2>6, <2>8, <3>1, <4>2
      <4> QED BY <4>1, <4>2
    <3>4. truth[e].len = (RolloutLen - left) * config.chunk
          BY <2>2, <2>10 DEF LengthsCounted
    <3>5. /\ (RolloutLen - (left - 1)) * config.chunk = (RolloutLen - left) * config.chunk + config.chunk
          /\ (RolloutLen - left) * config.chunk <= (RolloutLen - 1) * config.chunk
          /\ (RolloutLen - 1) * config.chunk \in Nat
          BY <1>1, <1>2, <2>2, StepsMade
    <3>6. truth'[e].len = (RolloutLen - (left - 1)) * config.chunk
          BY <3>2, <3>4, <3>5
    <3>7. ASSUME Libero
          PROVE  IF truth'[e].len < config.limit THEN truth'[e].recorded = 0
                 ELSE IF (RolloutLen - 1) * config.chunk < config.limit
                      THEN truth'[e].recorded = 1 ELSE truth'[e].recorded > 0
      <4>1. e \in reported <=> ~(truth'[e].len < config.limit)
            BY <1>2, <2>3, <2>5, <2>7, <3>1, <3>2, <3>7
      <4>2. IF truth[e].len < config.limit THEN truth[e].recorded = 0
            ELSE IF (RolloutLen - 1) * config.chunk < config.limit
                 THEN truth[e].recorded = 1 ELSE truth[e].recorded > 0
            BY <2>10, <3>7 DEF LengthsCounted
      <4> DEFINE most == (RolloutLen - 1) * config.chunk
      <4>3. truth[e].len <= most /\ most \in Nat
            BY <3>4, <3>5
      <4> HIDE DEF most
      <4>4. CASE truth'[e].len < config.limit
        <5>1. truth[e].len < config.limit
              BY <1>2, <2>5, <3>2, <4>4
        <5> QED BY <2>5, <3>3, <4>1, <4>2, <4>4, <5>1
      <4>5. CASE ~(truth'[e].len < config.limit)
        <5>1. truth'[e].recorded = truth[e].recorded + 1
              BY <3>3, <4>1, <4>5
        <5>2. most < config.limit => truth[e].recorded = 0
              BY <1>2, <2>5, <4>2, <4>3
        <5>3. IF most < config.limit THEN truth'[e].recorded = 1 ELSE truth'[e].recorded > 0
              BY <2>5, <5>1, <5>2
        <5> QED BY <4>5, <5>3 DEF most
      <4> QED BY <4>4, <4>5
    <3> QED BY <2>10, <3>6, <3>7
  <2> QED BY <1>2, <2>9, <2>10
<1>5. CASE Begin
      BY <1>5 DEF Begin, statVars, LengthsCounted, Libero
<1>6. CASE EndRollout
      BY <1>6 DEF EndRollout, statVars, LengthsCounted, Libero
<1>7. CASE Stats
      BY <1>7 DEF Stats, LengthsCounted, Libero
<1>8. CASE UNCHANGED workerVars
      BY <1>8 DEF workerVars, engineVars, statVars, LengthsCounted, Libero
<1> QED BY <1>3, <1>4, <1>5, <1>6, <1>7, <1>8 DEF WorkerNext

\* Nothing has been recorded of the first episodes.
LEMMA StatsInvInit == WorkerInit => StatsInv
<1> SUFFICES ASSUME WorkerInit PROVE StatsInv
    OBVIOUS
<1>1. WorkerTyped
      BY WorkerTypedInit
<1>2. config.limit \in Nat \ {0}
      BY <1>1, ConfigTypes DEF WorkerTyped
<1>3. /\ truth = [e \in SubEnvs |-> NewEpisode] /\ elapsed = [e \in SubEnvs |-> 0]
      /\ returns = [e \in SubEnvs |-> 0] /\ success = [e \in SubEnvs |-> FALSE]
      /\ records = {} /\ pc = "begin"
      BY DEF WorkerInit, All
<1>4. NewEpisode \in Episode /\ NewEpisode.len = 0 /\ NewEpisode.sum = 0 /\ NewEpisode.won = FALSE
      /\ NewEpisode.recorded = 0
      BY DEF NewEpisode, Episode
<1> HIDE DEF NewEpisode
<1>5. Tracked
  <2>1. truth \in [SubEnvs -> Episode]
        BY <1>3, <1>4
  <2>2. \A e \in SubEnvs : elapsed[e] = truth[e].len /\ returns[e] = truth[e].sum
        BY <1>3, <1>4
  <2>3. \A e \in SubEnvs : success[e] = truth[e].won
        BY <1>3, <1>4
  <2> QED BY <2>1, <2>2, <2>3 DEF Tracked
<1>6. RecordsTrue
      BY <1>3 DEF RecordsTrue
<1>7. LengthsCounted
      BY <1>2, <1>3, <1>4 DEF LengthsCounted
<1> QED BY <1>1, <1>5, <1>6, <1>7 DEF StatsInv

\* What an environment worker records of an episode is the return, length and success that
\* the engine saw of it, and LiberoEnv without auto_reset records one of full length once
\* or, when the rollout goes on, at least once.
THEOREM StatisticsAreTrue == WorkerSpec => []StatsTrue
<1>1. ASSUME StatsInv, [WorkerNext]_workerVars PROVE StatsInv'
      BY <1>1, WorkerTypedStep, TrackedStep, RecordsStep, LengthsStep DEF StatsInv
<1>2. StatsInv => StatsTrue
  <2> SUFFICES ASSUME StatsInv PROVE StatsTrue
      OBVIOUS
  <2>1. config.limit \in Nat /\ config.autoReset \in BOOLEAN
        BY ConfigTypes DEF StatsInv, WorkerTyped
  <2>2. ASSUME NEW e \in SubEnvs, truth[e].len >= config.limit, Libero
        PROVE  IF (RolloutLen - 1) * config.chunk < config.limit
               THEN truth[e].recorded = 1 ELSE truth[e].recorded > 0
    <3>1. truth[e].len \in Nat
          BY DEF StatsInv, Tracked, Episode
    <3>2. ~(truth[e].len < config.limit)
          BY <2>1, <2>2, <3>1
    <3> QED BY <2>2, <3>2 DEF StatsInv, LengthsCounted
  <2> QED BY <2>2 DEF StatsInv, RecordsTrue, StatsTrue
<1> QED BY <1>1, <1>2, StatsInvInit, PTL DEF WorkerSpec
=============================================================================
