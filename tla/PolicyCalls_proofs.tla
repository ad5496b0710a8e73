------------------------- MODULE PolicyCalls_proofs -------------------------
(***************************************************************************)
(* Proofs about the calls to policies: about Dispatch, for any number of   *)
(* policies, nodes and threads (the types, with no task in two places, and *)
(* SpreadAndBounded), and, at the end, about EvalPolicy, for any number of *)
(* client threads and of versions.                                         *)
(*                                                                         *)
(* Dispatch.  The inductive invariant says where tasks are (Placed: once,  *)
(* in todo, at a thread or in a queue), that the submitter remembers every *)
(* unfinished task (Remembered), how a counter of turns and the shares of  *)
(* the policies go together (InTurn), what the deque holds (IdleFree) and  *)
(* what the heap of an async batch holds (Level).                          *)
(***************************************************************************)
EXTENDS Dispatch, EvalPolicy, FiniteSetTheorems, SequenceTheorems, TLAPS

\* The requests of the batches begun.
Issued == batches * Len(Batch)

\* Types, and what a thread holds at each of its positions.
Typed ==
    /\ mode \in Modes /\ batches \in 0..Batches
    /\ todo \in Seq(Nat \ {0}) /\ (todo # <<>> => Batch # <<>>)
    /\ thread \in [Threads -> [pc : {"rest", "select", "submit", "wait"}, request : Nat,
                               policy : Policies \cup {None}]]
    /\ \A t \in Threads :
           /\ thread[t].pc \in {"rest", "select"} <=> thread[t].policy = None
           /\ thread[t].pc = "rest" <=> thread[t].request = None
           /\ thread[t].pc = "rest" \/ Batch # <<>>
    /\ lock \subseteq Threads
    /\ \A t \in Threads : thread[t].pc = "wait" <=> t \in lock
    /\ \A t, u \in lock : t = u
    /\ pending \in [Policies -> SUBSET Nat]
    /\ queue \in [Policies -> Seq(Nat \ {0})]
    /\ turns \in [Targets -> Nat]
    /\ idle \in Seq(Policies)
    /\ loads = <<>> \/ loads \in [Policies -> Nat]
    /\ given \in [Targets -> [Policies -> Nat]]

----------------------------------------------------------------------------
\* What Typed rests on.

\* Without actors there is nothing; with them they are numbered.
LEMMA Numbers ==
    /\ Policies \subseteq Nat \ {0} /\ None \notin Policies
    /\ EvalPolicies \in Seq(Policies)
    /\ Cardinality(Policies) \in Nat \ {0} /\ Len(EvalPolicies) = Cardinality(Policies)
<1>1. Cardinality(Policies) \in Nat
      BY PoliciesAssumption, FS_CardinalityType
<1>2. Policies = 1..Cardinality(Policies) /\ Policies # {}
      BY PoliciesAssumption
<1> QED BY <1>1, <1>2 DEF EvalPolicies, None

LEMMA Monotone == \A a, b, c \in Nat : a <= b => a * c <= b * c
OBVIOUS

LEMMA Product == \A a, b \in Nat : a * b \in Nat /\ (a + 1) * b = a * b + b
OBVIOUS

LEMMA Division ==
    ASSUME NEW k \in Nat, NEW m \in Nat \ {0}
    PROVE  /\ k \div m \in Nat /\ k % m \in 0..(m - 1)
           /\ k = (k \div m) * m + (k % m)
OBVIOUS

LEMMA OneRemainder ==
    ASSUME NEW m \in Nat \ {0}, NEW q1 \in Nat, NEW q2 \in Nat,
           NEW r1 \in 0..(m - 1), NEW r2 \in 0..(m - 1), q1 * m + r1 = q2 * m + r2
    PROVE  r1 = r2
<1>1. ASSUME NEW a \in Nat, NEW b \in Nat, a < b
      PROVE  a * m + m <= b * m
      BY <1>1, Monotone, Product, a + 1 <= b, a + 1 \in Nat
<1>2. q1 * m \in Nat /\ q2 * m \in Nat
      BY Product
<1>3. CASE q1 < q2
      BY <1>1, <1>2, <1>3
<1>4. CASE q2 < q1
      BY <1>1, <1>2, <1>4
<1>5. CASE q1 = q2
      BY <1>2, <1>5
<1> QED BY <1>3, <1>4, <1>5

\* A counter that goes up by one wraps after the last.
LEMMA NextTurn ==
    ASSUME NEW k \in Nat, NEW m \in Nat \ {0}
    PROVE  /\ k % m \in 0..(m - 1)
           /\ (k + 1) % m = IF k % m = m - 1 THEN 0 ELSE (k % m) + 1
<1> DEFINE q == k \div m
           r == k % m
           q1 == (k + 1) \div m
           r1 == (k + 1) % m
<1>1. q \in Nat /\ r \in 0..(m - 1) /\ k = q * m + r
      BY Division
<1>2. q1 \in Nat /\ r1 \in 0..(m - 1) /\ k + 1 = q1 * m + r1
      BY Division, k + 1 \in Nat
<1>3. (q + 1) * m = q * m + m /\ q * m \in Nat /\ q1 * m \in Nat /\ q + 1 \in Nat
      BY <1>1, <1>2, Product
<1> HIDE DEF q, r, q1, r1
<1>4. CASE r = m - 1
  <2>1. (q + 1) * m + 0 = q1 * m + r1 /\ 0 \in 0..(m - 1)
        BY <1>1, <1>2, <1>3, <1>4
  <2>2. r1 = 0
        BY <1>2, <1>3, <2>1, OneRemainder
  <2> QED BY <1>1, <1>4, <2>2 DEF r, r1
<1>5. CASE r # m - 1
  <2>1. q * m + (r + 1) = q1 * m + r1 /\ r + 1 \in 0..(m - 1)
        BY <1>1, <1>2, <1>3, <1>5
  <2>2. r1 = r + 1
        BY <1>1, <1>2, <2>1, OneRemainder
  <2> QED BY <1>1, <1>5, <2>2 DEF r, r1
<1> QED BY <1>4, <1>5

\* The policies of a target are some, each of them once.
LEMMA OfTarget ==
    ASSUME NEW n \in Targets
    PROVE  /\ PoliciesOf(n) \in Seq(Policies) /\ Len(PoliciesOf(n)) \in Nat \ {0}
           /\ \A i, j \in 1..Len(PoliciesOf(n)) : PoliciesOf(n)[i] = PoliciesOf(n)[j] => i = j
<1>1. CASE n = Elsewhere
  <2>1. PoliciesOf(n) = EvalPolicies
        BY <1>1 DEF PoliciesOf
  <2>2. \A i \in 1..Len(EvalPolicies) : EvalPolicies[i] = i
        BY Numbers, PoliciesAssumption DEF EvalPolicies
  <2> QED BY <2>1, <2>2, Numbers
<1>2. CASE n # Elsewhere
  <2>1. n \in Nodes /\ PoliciesOf(n) = PoliciesOn[n]
        BY <1>2 DEF PoliciesOf, Targets
  <2>2. PoliciesOn[n] \in Seq(Policies) /\ PoliciesOn[n] # <<>> /\ IsInjective(PoliciesOn[n])
        BY <2>1, NodesAssumption
  <2>3. Len(PoliciesOn[n]) \in Nat \ {0} /\ DOMAIN PoliciesOn[n] = 1..Len(PoliciesOn[n])
        BY <2>2
  <2> QED BY <2>1, <2>2, <2>3 DEF IsInjective
<1> QED BY <1>1, <1>2

\* The policy that has the turn.
LEMMA HasTurn ==
    ASSUME NEW n \in Targets, NEW k \in Nat
    PROVE  /\ (k % Len(PoliciesOf(n))) + 1 \in 1..Len(PoliciesOf(n))
           /\ PoliciesOf(n)[(k % Len(PoliciesOf(n))) + 1] \in Policies
<1> DEFINE m == Len(PoliciesOf(n))
<1>1. m \in Nat \ {0}
      BY OfTarget
<1>2. (k % m) + 1 \in 1..m
  <2> HIDE DEF m
  <2>1. k % m \in 0..(m - 1)
        BY <1>1, Division
  <2> QED BY <1>1, <2>1
<1> QED BY <1>2, OfTarget

LEMMA TargetOf ==
    ASSUME NEW r \in Nat \ {0}, Batch # <<>>
    PROVE  Target(r) \in Targets
<1>1. Batch \in Seq(Targets) /\ Len(Batch) \in Nat \ {0} /\ r - 1 \in Nat
      BY BatchAssumption DEF Targets
<1> DEFINE m == Len(Batch)
           k == r - 1
<1>2. (k % m) + 1 \in 1..m
  <2>0. m \in Nat \ {0} /\ k \in Nat
        BY <1>1
  <2> HIDE DEF m, k
  <2>1. k % m \in 0..(m - 1)
        BY <2>0, Division
  <2> QED BY <2>0, <2>1
<1> QED BY <1>1, <1>2 DEF Target

----------------------------------------------------------------------------
\* The types.

LEMMA TypedInit == Init => Typed
<1> SUFFICES ASSUME Init PROVE Typed
    OBVIOUS
<1>1. thread \in [Threads -> [pc : {"rest", "select", "submit", "wait"}, request : Nat,
                              policy : Policies \cup {None}]]
      BY DEF Init, Resting, None
<1>2. \A t \in Threads : /\ thread[t].pc = "rest" /\ thread[t].policy = None
                         /\ thread[t].request = None
      BY DEF Init, Resting
<1>3. /\ turns \in [Targets -> Nat] /\ idle \in Seq(Policies)
      /\ given \in [Targets -> [Policies -> Nat]]
      BY Numbers DEF Init, NothingGiven
<1>4. /\ mode \in Modes /\ batches \in 0..Batches /\ todo = <<>> /\ lock = {} /\ loads = <<>>
      /\ pending = [p \in Policies |-> {}] /\ queue = [p \in Policies |-> <<>>]
      BY BatchesAssumption DEF Init
<1> QED BY <1>1, <1>2, <1>3, <1>4 DEF Typed

\* A turn of the routers and of the submitter changes one thread.
LEMMA SelectedTyped ==
    ASSUME Typed, NEW t \in Threads, thread[t].pc = "select", NEW p \in Policies, Selected(t, p)
    PROVE  /\ thread' \in [Threads -> [pc : {"rest", "select", "submit", "wait"}, request : Nat,
                                       policy : Policies \cup {None}]]
           /\ thread'[t].pc = "submit" /\ thread'[t].policy = p
           /\ thread'[t].request = thread[t].request
           /\ \A u \in Threads \ {t} : thread'[u] = thread[u]
           /\ \A u \in Threads :
                  /\ thread'[u].pc \in {"rest", "select"} <=> thread'[u].policy = None
                  /\ thread'[u].pc = "rest" <=> thread'[u].request = None
                  /\ thread'[u].pc = "rest" \/ Batch # <<>>
                  /\ thread'[u].pc = "wait" <=> u \in lock
           /\ given' \in [Targets -> [Policies -> Nat]]
<1>1. /\ thread' = [thread EXCEPT ![t].pc = "submit", ![t].policy = p]
      /\ given' = [given EXCEPT ![Target(thread[t].request)][p] = @ + 1]
      BY DEF Selected
<1>2. thread[t].request \in Nat \ {0} /\ Batch # <<>>
      BY DEF Typed, None
<1>3. Target(thread[t].request) \in Targets
      BY <1>2, TargetOf
<1>4. thread \in [Threads -> [pc : {"rest", "select", "submit", "wait"}, request : Nat,
                              policy : Policies \cup {None}]]
      /\ given \in [Targets -> [Policies -> Nat]]
      BY DEF Typed
<1>5. given' \in [Targets -> [Policies -> Nat]]
      BY <1>1, <1>3, <1>4
<1>6. /\ thread' \in [Threads -> [pc : {"rest", "select", "submit", "wait"}, request : Nat,
                                  policy : Policies \cup {None}]]
      /\ thread'[t].pc = "submit" /\ thread'[t].policy = p
      /\ thread'[t].request = thread[t].request
      /\ \A u \in Threads \ {t} : thread'[u] = thread[u]
      BY <1>1, <1>4
<1>7. p # None /\ t \notin lock
      BY Numbers DEF Typed
<1>8. ASSUME NEW u \in Threads
      PROVE  /\ thread'[u].pc \in {"rest", "select"} <=> thread'[u].policy = None
             /\ thread'[u].pc = "rest" <=> thread'[u].request = None
             /\ thread'[u].pc = "rest" \/ Batch # <<>>
             /\ thread'[u].pc = "wait" <=> u \in lock
  <2>1. CASE u = t
        BY <1>2, <1>6, <1>7, <2>1 DEF None
  <2>2. CASE u # t
        BY <1>6, <2>2 DEF Typed
  <2> QED BY <2>1, <2>2
<1> QED BY <1>5, <1>6, <1>8

\* A set of numbers has a least one.
LEMMA Least ==
    ASSUME NEW S, S \subseteq Nat, S # {}
    PROVE  \E x \in S : \A y \in S : x <= y
<1>1. PICK x \in S : \A y \in S : <<y, x>> \notin OpToRel(<, Nat)
      BY NatLessThanWellFounded, WFMin, Zenon
<1>2. \A y \in S : ~(y < x)
      BY <1>1 DEF OpToRel
<1> QED BY <1>2

\* The heap has a top.
LEMMA Top ==
    ASSUME Typed, loads # <<>>
    PROVE  /\ Lightest \in Policies
           /\ \A q \in Policies : Entry(Lightest) <= Entry(q)
<1>1. \A p \in Policies : Entry(p) \in Nat
      BY DEF Typed, Entry, Targets
<1>2. PICK least \in {Entry(p) : p \in Policies} :
          \A y \in {Entry(p) : p \in Policies} : least <= y
      BY <1>1, Least, PoliciesAssumption
<1>3. PICK p \in {p \in Policies : Entry(p) = least} :
          \A q \in {q \in Policies : Entry(q) = least} : p <= q
  <2> DEFINE S == {p \in Policies : Entry(p) = least}
  <2>1. S \subseteq Nat /\ S # {}
        BY <1>2, Numbers
  <2>2. \E x \in S : \A y \in S : x <= y
    <3> HIDE DEF S
    <3> QED BY <2>1, Least
  <2> QED BY <2>2
<1>4. \A q \in Policies : Entry(p) < Entry(q) \/ (Entry(p) = Entry(q) /\ p <= q)
      BY <1>1, <1>2, <1>3
<1> DEFINE Tops(t) == \A q \in Policies : Entry(t) < Entry(q) \/ (Entry(t) = Entry(q) /\ t <= q)
<1>5. Lightest = CHOOSE t \in Policies : Tops(t)
      BY DEF Lightest
<1>6. p \in Policies /\ Tops(p)
      BY <1>3, <1>4
<1>7. Lightest \in Policies /\ Tops(Lightest)
  <2> HIDE DEF Tops
  <2> QED BY <1>5, <1>6
<1> QED BY <1>1, <1>7

LEMMA Removed ==
    ASSUME NEW S, NEW s \in Seq(S), NEW i \in DOMAIN s
    PROVE  /\ RemoveAt(s, i) \in Seq(S) /\ Len(RemoveAt(s, i)) = Len(s) - 1
           /\ \A j \in 1..(Len(s) - 1) : RemoveAt(s, i)[j] = IF j < i THEN s[j] ELSE s[j + 1]
<1> DEFINE front == SubSeq(s, 1, i - 1)
           back == SubSeq(s, i + 1, Len(s))
<1>1. i \in 1..Len(s) /\ Len(s) \in Nat
      OBVIOUS
<1>2. /\ front \in Seq(S) /\ Len(front) = i - 1
      /\ \A j \in 1..(i - 1) : front[j] = s[j]
      BY <1>1
<1>3. /\ back \in Seq(S) /\ Len(back) = Len(s) - i
      /\ \A j \in 1..(Len(s) - i) : back[j] = s[i + j]
  <2>1. \A j \in (i + 1)..Len(s) : s[j] \in S
        BY <1>1
  <2> QED BY <1>1, <2>1, SubSeqProperties
<1> HIDE DEF front, back
<1>4. RemoveAt(s, i) = front \o back
      BY DEF RemoveAt, front, back
<1>5. front \o back \in Seq(S) /\ Len(front \o back) = Len(s) - 1
      BY <1>1, <1>2, <1>3
<1>6. ASSUME NEW j \in 1..(Len(s) - 1)
      PROVE  (front \o back)[j] = IF j < i THEN s[j] ELSE s[j + 1]
  <2>1. front \in Seq(S) /\ back \in Seq(S) /\ j \in 1..(Len(front) + Len(back))
        BY <1>1, <1>2, <1>3
  <2>2. (front \o back)[j] = IF j <= Len(front) THEN front[j] ELSE back[j - Len(front)]
        BY <2>1, ConcatProperties
  <2> QED BY <1>1, <1>2, <1>3, <2>2
<1> QED BY <1>4, <1>5, <1>6

LEMMA Finishes ==
    ASSUME Typed, NEW p \in Policies, Finish(p)
    PROVE  \E i \in DOMAIN queue[p] : queue' = [queue EXCEPT ![p] = RemoveAt(@, i)]
<1>1. queue[p] \in Seq(Nat \ {0}) /\ queue[p] # <<>>
      BY DEF Typed, Finish
<1>2. 1 \in DOMAIN queue[p]
      BY <1>1
<1> QED BY <1>2 DEF Finish

\* Where in its queue, before actor p finished the k-th of its tasks, the i-th of q was.
Before(q, i, p, k) == IF q = p /\ i >= k THEN i + 1 ELSE i

\* What an actor still has to do was in its queue, in this order.
LEMMA FinishKeeps ==
    ASSUME Typed, NEW p \in Policies, Finish(p)
    PROVE  \E k \in Nat : \A q \in Policies : \A i \in DOMAIN queue'[q] :
               /\ i \in Nat /\ Before(q, i, p, k) \in DOMAIN queue[q]
               /\ queue'[q][i] = queue[q][Before(q, i, p, k)]
<1>1. PICK k \in DOMAIN queue[p] : queue' = [queue EXCEPT ![p] = RemoveAt(@, k)]
      BY Finishes
<1>2. ASSUME NEW q \in Policies, NEW i \in DOMAIN queue'[q]
      PROVE  /\ i \in Nat /\ Before(q, i, p, k) \in DOMAIN queue[q]
             /\ queue'[q][i] = queue[q][Before(q, i, p, k)]
  <2>1. queue[q] \in Seq(Nat \ {0}) /\ queue[p] \in Seq(Nat \ {0})
        BY DEF Typed
  <2>2. CASE q = p
    <3>1. queue'[q] = RemoveAt(queue[q], k) /\ k \in DOMAIN queue[q]
          BY <1>1, <2>2 DEF Typed
    <3>2. PICK old \in Seq(Nat \ {0}) : old = queue[q]
          BY <2>1
    <3>3. k \in 1..Len(old) /\ DOMAIN old = 1..Len(old) /\ Len(old) \in Nat
          BY <3>1, <3>2
    <3>4. /\ RemoveAt(old, k) \in Seq(Nat \ {0}) /\ Len(RemoveAt(old, k)) = Len(old) - 1
          /\ \A j \in 1..(Len(old) - 1) :
                 RemoveAt(old, k)[j] = IF j < k THEN old[j] ELSE old[j + 1]
      <4>1. k \in DOMAIN old
            BY <3>3
      <4> QED BY <4>1, Removed
    <3>5. i \in 1..(Len(old) - 1)
          BY <3>1, <3>2, <3>3, <3>4
    <3>6. queue'[q][i] = IF i < k THEN old[i] ELSE old[i + 1]
          BY <3>1, <3>2, <3>4, <3>5
    <3> QED BY <2>2, <3>2, <3>3, <3>5, <3>6 DEF Before
  <2>3. CASE q # p
    <3>1. queue'[q] = queue[q]
          BY <1>1, <2>3 DEF Typed
    <3> QED BY <2>1, <2>3, <3>1 DEF Before
  <2> QED BY <2>2, <2>3
<1>3. queue[p] \in Seq(Nat \ {0}) /\ k \in Nat
      BY DEF Typed
<1> QED BY <1>2, <1>3

LEMMA TypedStep == ASSUME Typed, [Next]_vars PROVE Typed'
<1>0. Typed
      OBVIOUS
<1> USE DEF Typed
<1>1. CASE BeginBatch
  <2>1. batches * Len(Batch) \in Nat /\ Len(Batch) \in Nat
        BY BatchesAssumption, BatchAssumption, Product
  <2>2. todo' = [i \in 1..Len(Batch) |-> batches * Len(Batch) + i]
        BY <1>1 DEF BeginBatch
  <2>3. todo' \in Seq(Nat \ {0}) /\ (todo' # <<>> => Batch # <<>>)
    <3> DEFINE b == batches * Len(Batch)
    <3>1. b \in Nat /\ todo' = [i \in 1..Len(Batch) |-> b + i]
          BY <2>1, <2>2
    <3> HIDE DEF b
    <3>2. todo' \in Seq(Nat \ {0})
          BY <2>1, <3>1
    <3>3. Batch = <<>> => todo' = <<>>
          BY <3>1
    <3> QED BY <3>2, <3>3
  <2>4. batches' \in 0..Batches
        BY <1>1, BatchesAssumption DEF BeginBatch
  <2>5. given' \in [Targets -> [Policies -> Nat]]
        BY <1>1 DEF BeginBatch, NothingGiven
  <2> QED BY <1>1, <2>3, <2>4, <2>5 DEF BeginBatch
<1>2. ASSUME NEW t \in Threads, Take(t) PROVE Typed'
  <2>1. Head(todo) \in Nat \ {0} /\ Tail(todo) \in Seq(Nat \ {0}) /\ Batch # <<>>
        BY <1>2 DEF Take
  <2> QED BY <1>2, <2>1 DEF Take, None
<1>3. ASSUME NEW t \in Threads, SelectByTurn(t) PROVE Typed'
  <2> DEFINE n == Target(thread[t].request)
             p == PoliciesOf(n)[(turns[n] % Len(PoliciesOf(n))) + 1]
  <2>1. n \in Targets
        BY <1>3, TargetOf DEF SelectByTurn, None
  <2>2. p \in Policies /\ turns[n] \in Nat
        BY <2>1, HasTurn
  <2>3. Selected(t, p) /\ turns' = [turns EXCEPT ![n] = @ + 1]
        BY <1>3 DEF SelectByTurn
  <2> HIDE DEF p, n
  <2>4. turns' \in [Targets -> Nat]
        BY <2>1, <2>2, <2>3
  <2> QED BY <1>3, <2>2, <2>3, <2>4, SelectedTyped DEF SelectByTurn
<1>4. ASSUME NEW t \in Threads, SelectIdle(t) PROVE Typed'
  <2>1. Head(idle) \in Policies /\ Tail(idle) \in Seq(Policies)
        BY <1>4 DEF SelectIdle
  <2> QED BY <1>4, <2>1, SelectedTyped DEF SelectIdle
<1>5. ASSUME NEW t \in Threads, FlushIdle(t) PROVE Typed'
  <2>1. PICK free \in SUBSET {p \in Policies : queue[p] = <<>>} : idle' \in SetToSeqs(free)
        BY <1>5 DEF FlushIdle
  <2>2. Cardinality(free) \in Nat
        BY PoliciesAssumption, FS_Subset, FS_CardinalityType
  <2>3. idle' \in [1..Cardinality(free) -> free]
        BY <2>1 DEF SetToSeqs
  <2>4. idle' \in Seq(Policies)
    <3>1. idle' \in [1..Cardinality(free) -> Policies]
          BY <2>1, <2>3
    <3> HIDE DEF Typed
    <3> QED BY <2>2, <3>1, SeqDef
  <2> QED BY <1>5, <2>4 DEF FlushIdle
<1>6. ASSUME NEW t \in Threads, Acquire(t) PROVE Typed'
  <2>1. thread[t].policy \in Policies
        BY <1>6 DEF Acquire
  <2>2. PICK forgotten \in Forgettable(thread[t].policy) :
            pending' = [pending EXCEPT ![thread[t].policy] = @ \ forgotten]
        BY <1>6 DEF Acquire
  <2>3. pending' \in [Policies -> SUBSET Nat]
        BY <2>1, <2>2
  <2>4. /\ lock' = {t} /\ lock = {} /\ thread' = [thread EXCEPT ![t].pc = "wait"]
        /\ thread[t].pc = "submit"
        BY <1>6 DEF Acquire
  <2>5. ASSUME NEW u \in Threads
        PROVE  /\ thread'[u].pc \in {"rest", "select"} <=> thread'[u].policy = None
               /\ thread'[u].pc = "rest" <=> thread'[u].request = None
               /\ thread'[u].pc = "rest" \/ Batch # <<>>
               /\ thread'[u].pc = "wait" <=> u \in lock'
    <3>1. CASE u = t
          BY <2>4, <3>1
    <3>2. CASE u # t
          BY <2>4, <3>2
    <3> QED BY <3>1, <3>2
  <2>6. thread' \in [Threads -> [pc : {"rest", "select", "submit", "wait"}, request : Nat,
                                 policy : Policies \cup {None}]]
        BY <2>4
  <2>7. lock' \subseteq Threads /\ \A u, v \in lock' : u = v
        BY <2>4
  <2> QED BY <1>6, <2>3, <2>5, <2>6, <2>7 DEF Acquire
<1>7. ASSUME NEW t \in Threads, Submit(t) PROVE Typed'
  <2>1. thread[t].policy \in Policies /\ thread[t].request \in Nat \ {0}
        BY <1>7 DEF Submit, None
  <2>2. PICK ended \in SUBSET Finished(thread[t].policy) :
            /\ pending' = [pending EXCEPT ![thread[t].policy] = (@ \ ended) \cup {thread[t].request}]
            /\ queue' = [queue EXCEPT ![thread[t].policy] = @ \o <<thread[t].request>>]
        BY <1>7 DEF Submit, Enqueue
  <2>3. pending' \in [Policies -> SUBSET Nat]
        BY <2>1, <2>2
  <2>4. queue' \in [Policies -> Seq(Nat \ {0})]
        BY <2>1, <2>2
  <2>5. lock' = {} /\ thread' = [thread EXCEPT ![t] = Resting] /\ lock \subseteq {t}
        BY <1>7 DEF Submit
  <2> QED BY <1>7, <2>3, <2>4, <2>5 DEF Submit, Resting, None
<1>8. CASE ReadLoads
  BY <1>8 DEF ReadLoads
<1>9. CASE Assign
  <2> DEFINE p == Lightest
  <2>1. Head(todo) \in Nat \ {0} /\ Tail(todo) \in Seq(Nat \ {0}) /\ Batch # <<>>
        BY <1>9 DEF Assign
  <2>2. /\ queue' = [queue EXCEPT ![p] = Append(@, Head(todo))]
        /\ given' = [given EXCEPT ![Elsewhere][p] = @ + 1]
        BY <1>9 DEF Assign
  <2>0. p \in Policies
        BY <1>9, Top DEF Assign
  <2> HIDE DEF p
  <2>3. queue' \in [Policies -> Seq(Nat \ {0})]
        BY <2>0, <2>1, <2>2
  <2>4. given' \in [Targets -> [Policies -> Nat]]
        BY <2>0, <2>2 DEF Targets
  <2> QED BY <1>9, <2>1, <2>3, <2>4 DEF Assign
<1>10. ASSUME NEW p \in Policies, Finish(p) PROVE Typed'
  <2>1. PICK i \in DOMAIN queue[p] : queue' = [queue EXCEPT ![p] = RemoveAt(@, i)]
        BY <1>10, Finishes
  <2>2. queue' \in [Policies -> Seq(Nat \ {0})]
        BY <2>1, Removed
  <2> QED BY <1>10, <2>2 DEF Finish
<1>11. CASE UNCHANGED vars
  BY <1>11 DEF vars
<1> QED BY <1>1, <1>2, <1>3, <1>4, <1>5, <1>6, <1>7, <1>8, <1>9, <1>10, <1>11 DEF Next, Work

----------------------------------------------------------------------------
\* Where the tasks are: each in one place, and all of them of a batch begun.
InTodo ==
    \A i \in DOMAIN todo :
        /\ todo[i] <= Issued
        /\ \A j \in DOMAIN todo : todo[i] = todo[j] => i = j

AtThreads ==
    \A t \in Threads :
        /\ thread[t].request <= Issued
        /\ \A i \in DOMAIN todo : thread[t].request # todo[i]
        /\ \A u \in Threads :
               thread[t].request = thread[u].request => t = u \/ thread[t].request = None

InQueues ==
    \A p \in Policies : \A i \in DOMAIN queue[p] :
        /\ queue[p][i] <= Issued
        /\ \A t \in Threads : queue[p][i] # thread[t].request
        /\ \A j \in DOMAIN todo : queue[p][i] # todo[j]
        /\ \A q \in Policies : \A j \in DOMAIN queue[q] :
               queue[p][i] = queue[q][j] => p = q /\ i = j

IsPending == \A p \in Policies : \A r \in pending[p] : r \in 1..Issued

Placed == InTodo /\ AtThreads /\ InQueues /\ IsPending

LEMMA IssuedIsNat == Typed => Issued \in Nat
BY BatchesAssumption, BatchAssumption, Product DEF Typed, Issued

LEMMA PlacedInit == Init => Placed
<1> SUFFICES ASSUME Init PROVE Placed
    OBVIOUS
<1>1. Typed /\ Issued \in Nat
      BY TypedInit, IssuedIsNat
<1>2. /\ todo = <<>> /\ \A t \in Threads : thread[t].request = None
      /\ \A p \in Policies : queue[p] = <<>> /\ pending[p] = {}
      BY DEF Init, Resting
<1> QED BY <1>1, <1>2 DEF Placed, InTodo, AtThreads, InQueues, IsPending, None

\* A new batch is of new requests, which follow those of the batches before it.
LEMMA NewBatchPlaced == ASSUME Typed, Placed, BeginBatch PROVE Placed'
<1> DEFINE size == Len(Batch)
<1>1. Issued \in Nat /\ size \in Nat
      BY IssuedIsNat, BatchAssumption
<1>2. Issued' = Issued + size /\ todo' = [i \in 1..size |-> Issued + i] /\ todo = <<>>
  <2>1. batches' = batches + 1 /\ batches \in Nat
        BY BatchesAssumption DEF BeginBatch, Typed
  <2> QED BY <1>1, <2>1, Product DEF BeginBatch, HandedOut, Issued
<1>3. UNCHANGED <<thread, queue, pending>>
      BY DEF BeginBatch
<1> HIDE DEF size
<1>4. \A i \in DOMAIN todo' : i \in 1..size /\ todo'[i] = Issued + i
      BY <1>1, <1>2
<1>5. /\ \A t \in Threads : thread[t].request \in Nat /\ thread[t].request <= Issued
      /\ \A p \in Policies : \A i \in DOMAIN queue[p] :
             queue[p][i] \in Nat /\ queue[p][i] <= Issued
      /\ \A p \in Policies : \A r \in pending[p] : r \in 1..Issued
      BY DEF Typed, Placed, AtThreads, InQueues, IsPending
<1>6. InTodo'
      BY <1>1, <1>2, <1>4 DEF InTodo
<1>7. AtThreads'
  <2>1. ASSUME NEW t \in Threads, NEW u \in Threads, thread[t].request = thread[u].request
        PROVE  t = u \/ thread[t].request = None
        BY <2>1 DEF Placed, AtThreads
  <2> QED BY <1>1, <1>2, <1>3, <1>4, <1>5, <2>1 DEF AtThreads
<1>8. InQueues'
  <2>1. ASSUME NEW p \in Policies, NEW i \in DOMAIN queue[p]
        PROVE  /\ \A t \in Threads : queue[p][i] # thread[t].request
               /\ \A q \in Policies : \A j \in DOMAIN queue[q] :
                      queue[p][i] = queue[q][j] => p = q /\ i = j
        BY DEF Placed, InQueues
  <2> QED BY <1>1, <1>2, <1>3, <1>4, <1>5, <2>1 DEF InQueues
<1>9. IsPending'
      BY <1>1, <1>2, <1>3, <1>5 DEF IsPending
<1> QED BY <1>6, <1>7, <1>8, <1>9 DEF Placed

\* A thread that goes on with its request, when nothing new is remembered.
LEMMA SameRequests ==
    ASSUME Typed, Placed, UNCHANGED <<batches, todo, queue>>,
           \A t \in Threads : thread'[t].request = thread[t].request,
           \A p \in Policies : pending'[p] \subseteq pending[p]
    PROVE  Placed'
<1>1. Issued' = Issued
      BY DEF Issued
<1> QED BY <1>1 DEF Placed, InTodo, AtThreads, InQueues, IsPending

LEMMA PlacedStep == ASSUME Typed, Placed, [Next]_vars PROVE Placed'
<1>0. Issued \in Nat
      BY IssuedIsNat
<1>1. CASE BeginBatch
  BY <1>1, NewBatchPlaced
<1>2. ASSUME NEW t \in Threads, Take(t) PROVE Placed'
  <2>1. /\ Issued' = Issued /\ UNCHANGED <<queue, pending>>
        /\ todo # <<>> /\ todo' = Tail(todo)
        /\ thread' = [thread EXCEPT
                          ![t] = [pc |-> "select", request |-> Head(todo), policy |-> None]]
        BY <1>2 DEF Take, Issued
  <2>2. /\ 1 \in DOMAIN todo /\ Head(todo) = todo[1]
        /\ \A i \in DOMAIN todo' : i + 1 \in DOMAIN todo /\ todo'[i] = todo[i + 1] /\ i + 1 # 1
                                   /\ i \in Nat
        BY <2>1 DEF Typed
  <2>3. /\ thread'[t].request = todo[1]
        /\ \A u \in Threads \ {t} : thread'[u] = thread[u]
        BY <2>1, <2>2 DEF Typed
  <2>4. InTodo'
        BY <2>1, <2>2 DEF InTodo, Placed
  <2>5. AtThreads'
    <3>1. ASSUME NEW u \in Threads
          PROVE  /\ thread'[u].request <= Issued
                 /\ \A i \in DOMAIN todo' : thread'[u].request # todo'[i]
          BY <2>2, <2>3 DEF AtThreads, InTodo, Placed
    <3>2. ASSUME NEW u \in Threads, NEW v \in Threads, thread'[u].request = thread'[v].request
          PROVE  u = v \/ thread'[u].request = None
          BY <2>2, <2>3, <3>2 DEF AtThreads, Placed
    <3> QED BY <2>1, <3>1, <3>2 DEF AtThreads
  <2>6. InQueues'
        BY <2>1, <2>2, <2>3 DEF InQueues, Placed
  <2> QED BY <2>1, <2>4, <2>5, <2>6 DEF Placed, IsPending
<1>3. ASSUME NEW t \in Threads, SelectByTurn(t) PROVE Placed'
  <2> DEFINE n == Target(thread[t].request)
  <2>1. Selected(t, PoliciesOf(n)[(turns[n] % Len(PoliciesOf(n))) + 1])
        BY <1>3 DEF SelectByTurn
  <2>2. \A u \in Threads : thread'[u].request = thread[u].request
        BY <2>1 DEF Selected, Typed
  <2> QED BY <1>3, <2>2, SameRequests DEF SelectByTurn
<1>4. ASSUME NEW t \in Threads, SelectIdle(t) PROVE Placed'
  <2>1. \A u \in Threads : thread'[u].request = thread[u].request
        BY <1>4 DEF SelectIdle, Selected, Typed
  <2> QED BY <1>4, <2>1, SameRequests DEF SelectIdle
<1>5. ASSUME NEW t \in Threads, FlushIdle(t) PROVE Placed'
  BY <1>5, SameRequests DEF FlushIdle
<1>6. ASSUME NEW t \in Threads, Acquire(t) PROVE Placed'
  <2>1. \A u \in Threads : thread'[u].request = thread[u].request
        BY <1>6 DEF Acquire, Typed
  <2>2. \A p \in Policies : pending'[p] \subseteq pending[p]
        BY <1>6 DEF Acquire, Typed
  <2> QED BY <1>6, <2>1, <2>2, SameRequests DEF Acquire
<1>7. ASSUME NEW t \in Threads, Submit(t) PROVE Placed'
  <2> DEFINE p == thread[t].policy
             r == thread[t].request
  <2>1. p \in Policies /\ r \in Nat \ {0}
        BY <1>7 DEF Submit, None, Typed
  <2>2. PICK ended \in SUBSET Finished(p) :
            /\ pending' = [pending EXCEPT ![p] = (@ \ ended) \cup {r}]
            /\ queue' = [queue EXCEPT ![p] = @ \o <<r>>]
        BY <1>7 DEF Submit, Enqueue
  <2>3. /\ Issued' = Issued /\ todo' = todo
        /\ thread' = [thread EXCEPT ![t] = Resting]
        BY <1>7 DEF Submit, Issued
  <2>4. thread'[t].request = None /\ \A u \in Threads \ {t} : thread'[u] = thread[u]
        BY <2>3 DEF Typed, Resting
  <2>5. /\ r <= Issued /\ \A u \in Threads : thread[u].request = r => u = t
        /\ \A i \in DOMAIN todo : todo[i] # r
        BY <2>1 DEF Placed, AtThreads, None
  <2>6. \A q \in Policies : \A i \in DOMAIN queue[q] : queue[q][i] # r
        BY DEF Placed, InQueues
  <2> HIDE DEF p, r
  <2>7. /\ \A q \in Policies \ {p} : queue'[q] = queue[q]
        /\ \A i \in DOMAIN queue'[p] :
               \/ i \in DOMAIN queue[p] /\ queue'[p][i] = queue[p][i]
               \/ i = Len(queue[p]) + 1 /\ queue'[p][i] = r
        BY <2>1, <2>2 DEF Typed
  <2>8. InTodo' /\ IsPending'
        BY <2>1, <2>2, <2>3, <2>5 DEF Placed, InTodo, IsPending, Typed
  <2>9. AtThreads'
        BY <1>0, <2>3, <2>4 DEF Placed, AtThreads, Typed, None
  <2>10. InQueues'
    <3>1. ASSUME NEW q \in Policies, NEW i \in DOMAIN queue'[q]
          PROVE  \/ i \in DOMAIN queue[q] /\ queue'[q][i] = queue[q][i]
                 \/ q = p /\ i = Len(queue[p]) + 1 /\ queue'[q][i] = r
          BY <2>1, <2>7
    <3>2. ASSUME NEW q \in Policies, NEW i \in DOMAIN queue'[q]
          PROVE  /\ queue'[q][i] <= Issued /\ queue'[q][i] # None
                 /\ \A u \in Threads \ {t} : queue'[q][i] # thread[u].request
                 /\ \A j \in DOMAIN todo : queue'[q][i] # todo[j]
      <4>1. CASE i \in DOMAIN queue[q] /\ queue'[q][i] = queue[q][i]
        <5>1. queue[q][i] \in Nat \ {0}
              BY <4>1 DEF Typed
        <5> QED BY <4>1, <5>1 DEF Placed, InQueues, None
      <4>2. CASE queue'[q][i] = r
            BY <2>1, <2>5, <4>2 DEF None
      <4> QED BY <3>1, <4>1, <4>2
    <3>3. ASSUME NEW q \in Policies, NEW i \in DOMAIN queue'[q],
                 NEW s \in Policies, NEW j \in DOMAIN queue'[s], queue'[q][i] = queue'[s][j]
          PROVE  q = s /\ i = j
          BY <2>6, <3>1, <3>3 DEF Placed, InQueues
    <3> QED BY <2>3, <2>4, <3>2, <3>3 DEF InQueues
  <2> QED BY <2>8, <2>9, <2>10 DEF Placed
<1>8. CASE ReadLoads
  BY <1>8, SameRequests DEF ReadLoads
<1>9. CASE Assign
  <2> DEFINE p == Lightest
             r == Head(todo)
  <2>1. p \in Policies /\ todo # <<>>
        BY <1>9, Top DEF Assign
  <2>2. /\ queue' = [queue EXCEPT ![p] = Append(@, r)]
        /\ todo' = Tail(todo) /\ UNCHANGED <<thread, pending>> /\ Issued' = Issued
        BY <1>9 DEF Assign, Issued
  <2>3. /\ 1 \in DOMAIN todo /\ r = todo[1]
        /\ \A i \in DOMAIN todo' : i + 1 \in DOMAIN todo /\ todo'[i] = todo[i + 1] /\ i + 1 # 1
                                   /\ i \in Nat
        BY <2>1, <2>2 DEF Typed
  <2> HIDE DEF p, r
  <2>4. InTodo'
        BY <2>2, <2>3 DEF InTodo, Placed
  <2>5. AtThreads'
        BY <2>2, <2>3 DEF AtThreads, Placed
  <2>6. InQueues'
    <3>1. ASSUME NEW q \in Policies, NEW i \in DOMAIN queue'[q]
          PROVE  \/ i \in DOMAIN queue[q] /\ queue'[q][i] = queue[q][i]
                 \/ q = p /\ i = Len(queue[p]) + 1 /\ queue'[q][i] = r
          BY <2>1, <2>2 DEF Typed
    <3>2. ASSUME NEW q \in Policies, NEW i \in DOMAIN queue'[q]
          PROVE  /\ queue'[q][i] <= Issued
                 /\ \A u \in Threads : queue'[q][i] # thread[u].request
                 /\ \A j \in DOMAIN todo' : queue'[q][i] # todo'[j]
          BY <2>3, <3>1 DEF Placed, InQueues, InTodo, AtThreads
    <3>3. \A q \in Policies : \A i \in DOMAIN queue[q] : queue[q][i] # r
          BY <2>3 DEF Placed, InQueues
    <3>4. ASSUME NEW q \in Policies, NEW i \in DOMAIN queue'[q],
                 NEW s \in Policies, NEW j \in DOMAIN queue'[s], queue'[q][i] = queue'[s][j]
          PROVE  q = s /\ i = j
          BY <3>1, <3>3, <3>4 DEF Placed, InQueues
    <3> QED BY <2>2, <3>2, <3>4 DEF InQueues
  <2> QED BY <2>2, <2>4, <2>5, <2>6 DEF Placed, IsPending
<1>10. ASSUME NEW p \in Policies, Finish(p) PROVE Placed'
  <2>1. PICK k \in Nat : \A q \in Policies : \A i \in DOMAIN queue'[q] :
            /\ i \in Nat /\ Before(q, i, p, k) \in DOMAIN queue[q]
            /\ queue'[q][i] = queue[q][Before(q, i, p, k)]
        BY <1>10, FinishKeeps
  <2>2. UNCHANGED <<todo, thread, pending>> /\ Issued' = Issued
        BY <1>10 DEF Finish, Issued
  <2>4. InQueues'
    <3>1. ASSUME NEW q \in Policies, NEW i \in DOMAIN queue'[q]
          PROVE  /\ queue'[q][i] <= Issued
                 /\ \A u \in Threads : queue'[q][i] # thread[u].request
                 /\ \A j \in DOMAIN todo : queue'[q][i] # todo[j]
          BY <2>1 DEF Placed, InQueues
    <3>2. ASSUME NEW q \in Policies, NEW i \in DOMAIN queue'[q],
                 NEW s \in Policies, NEW j \in DOMAIN queue'[s], queue'[q][i] = queue'[s][j]
          PROVE  q = s /\ i = j
      <4>1. q = s /\ Before(q, i, p, k) = Before(s, j, p, k)
            BY <2>1, <3>2 DEF Placed, InQueues
      <4>2. i \in Nat /\ j \in Nat /\ k \in Nat
            BY <2>1
      <4> QED BY <4>1, <4>2 DEF Before
    <3> QED BY <2>2, <3>1, <3>2 DEF InQueues
  <2> QED BY <2>2, <2>4 DEF Placed, InTodo, AtThreads, IsPending
<1>11. CASE UNCHANGED vars
  BY <1>11, SameRequests DEF vars
<1> QED BY <1>1, <1>2, <1>3, <1>4, <1>5, <1>6, <1>7, <1>8, <1>9, <1>10, <1>11 DEF Next, Work

\* The types, for any number of policies, nodes and threads: two threads are never both in
\* the lock of TaskSubmitter, and a request is in the queue of one actor only.
THEOREM TypeCorrect == Spec => []TypeOK
<1>1. Typed /\ Placed => TypeOK
  <2> SUFFICES ASSUME Typed, Placed PROVE TypeOK
      OBVIOUS
  <2>1. Cardinality(lock) <= 1
    <3>1. CASE lock = {}
          BY <3>1, FS_EmptySet
    <3>2. CASE lock # {}
      <4>1. PICK t \in lock : TRUE
            BY <3>2
      <4>2. lock = {t}
            BY <4>1 DEF Typed
      <4>3. Cardinality({t}) = 1
            BY FS_Singleton
      <4> QED BY <4>2, <4>3
    <3> QED BY <3>1, <3>2
  <2>2. Issued \in Nat /\ Issued <= Batches * Len(Batch) /\ Batches * Len(Batch) \in Nat
    <3>1. batches \in Nat /\ Batches \in Nat /\ Len(Batch) \in Nat /\ batches <= Batches
          BY BatchesAssumption, BatchAssumption DEF Typed
    <3> QED BY <3>1, Product, Monotone DEF Issued
  <2>3. ASSUME NEW p \in Policies
        PROVE  Range(queue[p]) \subseteq Tasks /\ pending[p] \subseteq Tasks
    <3>1. pending[p] \subseteq 1..Issued
          BY DEF Placed, IsPending
    <3>2. \A i \in DOMAIN queue[p] : queue[p][i] \in 1..Issued
          BY <2>2 DEF Placed, InQueues, Typed
    <3> QED BY <2>2, <3>1, <3>2 DEF Range, Tasks
  <2>4. ASSUME NEW p \in Policies, NEW q \in Policies, p # q
        PROVE  Range(queue[p]) \cap Range(queue[q]) = {}
        BY <2>4 DEF Placed, InQueues, Range
  <2>5. Range(idle) \subseteq Policies
        BY DEF Typed, Range
  <2>6. \A t \in Threads : /\ thread[t].pc \in {"rest", "select", "submit", "wait"}
                           /\ thread[t].pc = "wait" <=> t \in lock
        BY DEF Typed
  <2> QED BY <2>1, <2>3, <2>4, <2>5, <2>6 DEF TypeOK, Typed
<1> QED BY <1>1, TypedInit, TypedStep, PlacedInit, PlacedStep, PTL DEF Spec

----------------------------------------------------------------------------
\* The submitter remembers every task that is not finished, and not too many.
Remembered ==
    mode # "async" =>
        \A p \in Policies :
            /\ \A i \in DOMAIN queue[p] : queue[p][i] \in pending[p]
            /\ Cardinality(pending[p]) <= MaxPending

LEMMA PendingIsFinite ==
    ASSUME Typed, Placed, NEW p \in Policies
    PROVE  IsFiniteSet(pending[p]) /\ Cardinality(pending[p]) \in Nat
<1>1. pending[p] \subseteq 1..Issued /\ Issued \in Nat
      BY IssuedIsNat DEF Placed, IsPending
<1>2. IsFiniteSet(1..Issued)
      BY <1>1, FS_Interval
<1> QED BY <1>1, <1>2, FS_Subset, FS_CardinalityType

\* What is forgotten makes room for one more task.
LEMMA MakesRoom ==
    ASSUME Typed, Placed, Remembered, mode # "async", NEW p \in Policies,
           NEW ended \in SUBSET Finished(p), Cardinality(ended) = Excess(p), NEW r
    PROVE  Cardinality((pending[p] \ ended) \cup {r}) <= MaxPending
<1> DEFINE c == Cardinality(pending[p])
<1>1. IsFiniteSet(pending[p]) /\ c \in Nat /\ MaxPending \in Nat \ {0}
      BY PendingIsFinite, MaxPendingAssumption
<1>2. ended \subseteq pending[p]
      BY DEF Finished
<1>3. Cardinality(pending[p] \ ended) = c - Cardinality(ended) /\ IsFiniteSet(pending[p] \ ended)
  <2>1. /\ IsFiniteSet(pending[p] \ ended)
        /\ Cardinality(pending[p] \ ended) = c - Cardinality(pending[p] \cap ended)
        BY <1>1, FS_Difference
  <2>2. pending[p] \cap ended = ended
        BY <1>2
  <2> QED BY <2>1, <2>2
<1>4. Excess(p) >= c - (MaxPending - 1) /\ Excess(p) \in Int
  <2> DEFINE x == c - (MaxPending - 1)
  <2>1. x \in Int
        BY <1>1
  <2>2. Excess(p) = CHOOSE y \in {0, x} : \A z \in {0, x} : y >= z
        BY DEF Excess, Max
  <2> HIDE DEF x
  <2>3. \E y \in {0, x} : \A z \in {0, x} : y >= z
        BY <2>1
  <2>4. Excess(p) \in {0, x} /\ \A z \in {0, x} : Excess(p) >= z
        BY <2>2, <2>3
  <2> QED BY <2>1, <2>4 DEF x
<1>5. Cardinality(pending[p] \ ended) <= MaxPending - 1
      BY <1>1, <1>3, <1>4
<1> DEFINE rest == pending[p] \ ended
<1>6. IsFiniteSet(rest) /\ Cardinality(rest) \in Nat
      BY <1>3, FS_CardinalityType
<1> HIDE DEF rest
<1>7. Cardinality(rest \cup {r}) \in {Cardinality(rest), Cardinality(rest) + 1}
      BY <1>6, FS_AddElement
<1> QED BY <1>1, <1>5, <1>6, <1>7 DEF rest

LEMMA RememberedInit == Init => Remembered
BY FS_EmptySet, MaxPendingAssumption DEF Init, Remembered

LEMMA RememberedStep == ASSUME Typed, Placed, Remembered, [Next]_vars PROVE Remembered'
<1>0. mode' = mode
      BY DEF Next, Work, BeginBatch, Take, SelectByTurn, SelectIdle, FlushIdle, Acquire, Submit,
             ReadLoads, Assign, Finish, vars
<1>1. CASE UNCHANGED <<pending, queue>>
  BY <1>0, <1>1 DEF Remembered
<1>2. ASSUME NEW t \in Threads, Acquire(t) PROVE Remembered'
  <2> SUFFICES ASSUME mode # "async", NEW q \in Policies
               PROVE  /\ \A i \in DOMAIN queue'[q] : queue'[q][i] \in pending'[q]
                      /\ Cardinality(pending'[q]) <= MaxPending
      BY <1>0 DEF Remembered
  <2>1. thread[t].policy \in Policies /\ queue' = queue
        BY <1>2 DEF Acquire, Typed
  <2>2. PICK forgotten \in Forgettable(thread[t].policy) :
            pending' = [pending EXCEPT ![thread[t].policy] = @ \ forgotten]
        BY <1>2 DEF Acquire
  <2>3. forgotten \subseteq Finished(thread[t].policy)
        BY DEF Forgettable
  <2>4. pending'[q] \subseteq pending[q] /\ pending[q] \ pending'[q] \subseteq Finished(q)
        BY <2>1, <2>2, <2>3 DEF Typed
  <2>5. \A i \in DOMAIN queue[q] : queue[q][i] \notin Finished(q)
        BY DEF Finished, Range
  <2>6. Cardinality(pending'[q]) <= Cardinality(pending[q]) /\ Cardinality(pending'[q]) \in Nat
        BY <2>4, PendingIsFinite, FS_Subset, FS_CardinalityType
  <2>7. Cardinality(pending[q]) <= MaxPending /\ Cardinality(pending[q]) \in Nat
        BY PendingIsFinite DEF Remembered
  <2>8. \A i \in DOMAIN queue'[q] : queue'[q][i] \in pending'[q]
        BY <2>1, <2>4, <2>5 DEF Remembered
  <2> QED BY <2>6, <2>7, <2>8, MaxPendingAssumption
<1>3. ASSUME NEW t \in Threads, Submit(t) PROVE Remembered'
  <2> SUFFICES ASSUME mode # "async", NEW q \in Policies
               PROVE  /\ \A i \in DOMAIN queue'[q] : queue'[q][i] \in pending'[q]
                      /\ Cardinality(pending'[q]) <= MaxPending
      BY <1>0 DEF Remembered
  <2> DEFINE p == thread[t].policy
             r == thread[t].request
  <2>1. p \in Policies /\ r \in Nat \ {0}
        BY <1>3 DEF Submit, Typed, None
  <2>2. PICK ended \in SUBSET Finished(p) :
            /\ Cardinality(ended) = Excess(p)
            /\ pending' = [pending EXCEPT ![p] = (@ \ ended) \cup {r}]
            /\ queue' = [queue EXCEPT ![p] = @ \o <<r>>]
        BY <1>3 DEF Submit, Enqueue
  <2> HIDE DEF p, r
  <2>3. CASE q = p
    <3>1. pending'[q] = (pending[p] \ ended) \cup {r}
          BY <2>1, <2>2, <2>3 DEF Typed
    <3>2. \A i \in DOMAIN queue'[q] :
              (i \in DOMAIN queue[p] /\ queue'[q][i] = queue[p][i]) \/ queue'[q][i] = r
          BY <2>1, <2>2, <2>3 DEF Typed
    <3>3. \A i \in DOMAIN queue[p] : queue[p][i] \in pending[p] /\ queue[p][i] \notin ended
          BY <2>1, <2>2 DEF Remembered, Finished, Range
    <3>4. Cardinality(pending'[q]) <= MaxPending
          BY <2>1, <2>2, <3>1, MakesRoom
    <3> QED BY <3>1, <3>2, <3>3, <3>4
  <2>4. CASE q # p
    <3>1. pending'[q] = pending[q] /\ queue'[q] = queue[q]
          BY <2>1, <2>2, <2>4 DEF Typed
    <3> QED BY <3>1 DEF Remembered
  <2> QED BY <2>3, <2>4
<1>4. CASE Assign
  BY <1>0, <1>4 DEF Assign, Remembered
<1>5. ASSUME NEW p \in Policies, Finish(p) PROVE Remembered'
  <2> SUFFICES ASSUME mode # "async", NEW q \in Policies
               PROVE  /\ \A i \in DOMAIN queue'[q] : queue'[q][i] \in pending'[q]
                      /\ Cardinality(pending'[q]) <= MaxPending
      BY <1>0 DEF Remembered
  <2>1. pending' = pending
        BY <1>5 DEF Finish
  <2>2. \A i \in DOMAIN queue'[q] : \E j \in DOMAIN queue[q] : queue'[q][i] = queue[q][j]
        BY <1>5, FinishKeeps
  <2> QED BY <2>1, <2>2 DEF Remembered
<1> QED BY <1>1, <1>2, <1>3, <1>4, <1>5
        DEF Next, Work, BeginBatch, Take, SelectByTurn, SelectIdle, FlushIdle, ReadLoads, vars

LEMMA Bounded == Typed /\ Placed /\ Remembered => PendingBound
<1> SUFFICES ASSUME Typed, Placed, Remembered, mode # "async", NEW p \in Policies
             PROVE  Len(queue[p]) <= MaxPending
    BY DEF PendingBound
<1>1. queue[p] \in Seq(Nat \ {0})
      BY DEF Typed
<1>2. queue[p] \in Injection(1..Len(queue[p]), pending[p])
  <2>1. queue[p] \in [1..Len(queue[p]) -> pending[p]]
        BY <1>1 DEF Remembered
  <2>2. IsInjective(queue[p])
        BY DEF IsInjective, Placed, InQueues
  <2> QED BY <2>1, <2>2 DEF Injection
<1>3. Cardinality(1..Len(queue[p])) <= Cardinality(pending[p])
      BY <1>2, PendingIsFinite, FS_Injection
<1>4. Cardinality(1..Len(queue[p])) = Len(queue[p])
      BY <1>1, FS_Interval
<1>5. Cardinality(pending[p]) <= MaxPending /\ Cardinality(pending[p]) \in Nat
      BY PendingIsFinite DEF Remembered
<1> QED BY <1>1, <1>3, <1>4, <1>5, MaxPendingAssumption

----------------------------------------------------------------------------
\* The turns of a node: who was passed in this round is one ahead of who was not.
InTurn ==
    mode = "affinity" =>
        \A n \in Targets :
            /\ \E round \in Nat : \A i \in 1..Len(PoliciesOf(n)) :
                   given[n][PoliciesOf(n)[i]] =
                       IF i <= turns[n] % Len(PoliciesOf(n)) THEN round + 1 ELSE round
            /\ \A p \in Policies :
                   (\A i \in 1..Len(PoliciesOf(n)) : PoliciesOf(n)[i] # p) => given[n][p] = 0

\* What the deque holds, once, is idle; the one thread that selects keeps what it took.
IdleFree ==
    mode = "simple" =>
        /\ \A i \in DOMAIN idle :
               /\ queue[idle[i]] = <<>>
               /\ \A j \in DOMAIN idle : idle[i] = idle[j] => i = j
        /\ \A t \in Threads : thread[t].policy # None =>
               /\ queue[thread[t].policy] = <<>>
               /\ \A i \in DOMAIN idle : idle[i] # thread[t].policy
        /\ \A t \in Threads \ Workers : thread[t].pc = "rest"

\* The heap: who got a request was at the top of it.
Level ==
    mode = "async" =>
        /\ loads = <<>> => \A p \in Policies : given[Elsewhere][p] = 0
        /\ loads # <<>> =>
               \A p, q \in Policies : given[Elsewhere][p] > 0 => Entry(p) - 1 <= Entry(q)

Spread == InTurn /\ IdleFree /\ Level

LEMMA SpreadInit == Init => Spread
<1> SUFFICES ASSUME Init PROVE Spread
    OBVIOUS
<1>1. \A n \in Targets : \A p \in Policies : given[n][p] = 0
      BY DEF Init, NothingGiven
<1>2. InTurn
  <2> SUFFICES ASSUME NEW n \in Targets
               PROVE  \A i \in 1..Len(PoliciesOf(n)) :
                          given[n][PoliciesOf(n)[i]] =
                              IF i <= turns[n] % Len(PoliciesOf(n)) THEN 0 + 1 ELSE 0
      BY <1>1 DEF InTurn
  <2> DEFINE on == PoliciesOf(n)
  <2>1. on \in Seq(Policies) /\ Len(on) \in Nat \ {0}
        BY OfTarget
  <2>2. turns[n] = 0
        BY DEF Init
  <2> HIDE DEF on
  <2>3. 0 % Len(on) = 0
        BY <2>1
  <2>4. \A i \in 1..Len(on) : given[n][on[i]] = IF i <= turns[n] % Len(on) THEN 0 + 1 ELSE 0
        BY <1>1, <2>1, <2>2, <2>3
  <2> QED BY <2>4 DEF on
<1>3. IdleFree
  <2>1. \A i \in DOMAIN idle : i \in Policies /\ idle[i] = i
        BY DEF Init, EvalPolicies
  <2>2. \A p \in Policies : queue[p] = <<>>
        BY DEF Init
  <2>3. \A t \in Threads : thread[t].policy = None /\ thread[t].pc = "rest"
        BY DEF Init, Resting
  <2> QED BY <2>1, <2>2, <2>3 DEF IdleFree
<1>4. Level
      BY <1>1 DEF Init, Level, Targets
<1> QED BY <1>2, <1>3, <1>4 DEF Spread

\* A turn that is taken.
LEMMA TurnTaken ==
    ASSUME Typed, InTurn, NEW t \in Threads, SelectByTurn(t)
    PROVE  InTurn'
<1> DEFINE m == Target(thread[t].request)
           k == turns[m] % Len(PoliciesOf(m))
<1>1. m \in Targets
      BY TargetOf DEF SelectByTurn, None, Typed
<1>2. /\ mode = "affinity" /\ mode' = mode
      /\ turns' = [turns EXCEPT ![m] = @ + 1]
      /\ given' = [given EXCEPT ![m][PoliciesOf(m)[k + 1]] = @ + 1]
      BY DEF SelectByTurn, Selected
<1> SUFFICES ASSUME NEW n \in Targets
             PROVE  /\ \E round \in Nat : \A i \in 1..Len(PoliciesOf(n)) :
                           given'[n][PoliciesOf(n)[i]] =
                               IF i <= turns'[n] % Len(PoliciesOf(n)) THEN round + 1 ELSE round
                    /\ \A p \in Policies :
                           (\A i \in 1..Len(PoliciesOf(n)) : PoliciesOf(n)[i] # p)
                               => given'[n][p] = 0
    BY DEF InTurn
<1> HIDE DEF m
<1>3. CASE n # m
  <2>1. given'[n] = given[n] /\ turns'[n] = turns[n]
        BY <1>1, <1>2, <1>3 DEF Typed
  <2> QED BY <1>2, <2>1 DEF InTurn
<1>4. CASE n = m
  <2> DEFINE on == PoliciesOf(m)
             size == Len(PoliciesOf(m))
             p == PoliciesOf(m)[k + 1]
  <2>1. /\ on \in Seq(Policies) /\ size \in Nat \ {0} /\ size = Len(on)
        /\ \A i, j \in 1..size : on[i] = on[j] => i = j
        BY <1>1, OfTarget
  <2>2. turns[m] \in Nat /\ turns'[m] = turns[m] + 1 /\ k = turns[m] % size
        BY <1>1, <1>2 DEF Typed
  <2>3. PICK round \in Nat : \A i \in 1..size :
            given[m][on[i]] = IF i <= k THEN round + 1 ELSE round
        BY <1>1, <1>2 DEF InTurn
  <2>4. \A q \in Policies : (\A i \in 1..size : on[i] # q) => given[m][q] = 0
        BY <1>1, <1>2 DEF InTurn
  <2>5. given \in [Targets -> [Policies -> Nat]]
        BY DEF Typed
  <2>6. p = on[k + 1]
        OBVIOUS
  <2>7. given' = [given EXCEPT ![m][p] = @ + 1]
        BY <1>2
  <2> HIDE DEF on, size, k, p
  <2>8. /\ k \in 0..(size - 1)
        /\ turns'[m] % size = IF k = size - 1 THEN 0 ELSE k + 1
        BY <2>1, <2>2, NextTurn
  <2>9. p \in Policies /\ k + 1 \in 1..size
        BY <2>1, <2>6, <2>8
  <2>10. /\ given'[m][p] = given[m][p] + 1
         /\ \A q \in Policies \ {p} : given'[m][q] = given[m][q]
        BY <1>1, <2>5, <2>7, <2>9
  <2>11. ASSUME NEW i \in 1..size
         PROVE  given'[m][on[i]] = IF i <= k + 1 THEN round + 1 ELSE round
    <3>1. CASE i = k + 1
          BY <2>3, <2>6, <2>8, <2>10, <3>1
    <3>2. CASE i # k + 1
      <4>1. on[i] # p /\ on[i] \in Policies
            BY <2>1, <2>6, <2>9, <3>2
      <4>2. given'[m][on[i]] = given[m][on[i]]
            BY <2>10, <4>1
      <4> QED BY <2>3, <2>8, <3>2, <4>2
    <3> QED BY <3>1, <3>2
  <2>12. \E r \in Nat : \A i \in 1..size :
             given'[m][on[i]] = IF i <= turns'[m] % size THEN r + 1 ELSE r
    <3>1. CASE k = size - 1
      <4>1. \A i \in 1..size : given'[m][on[i]] = IF i <= 0 THEN (round + 1) + 1 ELSE round + 1
            BY <2>1, <2>11, <3>1
      <4>2. turns'[m] % size = 0
            BY <2>8, <3>1
      <4> QED BY <4>1, <4>2
    <3>2. CASE k # size - 1
      <4>1. turns'[m] % size = k + 1
            BY <2>8, <3>2
      <4> QED BY <2>11, <4>1
    <3> QED BY <3>1, <3>2
  <2>13. ASSUME NEW q \in Policies, \A i \in 1..size : on[i] # q
         PROVE  given'[m][q] = 0
        BY <2>4, <2>6, <2>9, <2>10, <2>13
  <2> QED BY <1>4, <2>12, <2>13 DEF on, size
<1> QED BY <1>3, <1>4

LEMMA IdleFreeStep == ASSUME Typed, IdleFree, [Next]_vars PROVE IdleFree'
<1>0. mode' = mode /\ Workers' = Workers
      BY DEF Next, Work, BeginBatch, Take, SelectByTurn, SelectIdle, FlushIdle, Acquire, Submit,
             ReadLoads, Assign, Finish, vars, Workers
<1> SUFFICES ASSUME mode = "simple" PROVE IdleFree'
    BY <1>0 DEF IdleFree
<1>1. \A t, u \in Workers : t = u
      BY DEF Workers
<1>2. ASSUME UNCHANGED <<queue, idle>>,
             \A t \in Threads : /\ thread'[t].policy \in {thread[t].policy, None}
                                /\ thread'[t].pc = "rest" \/ thread[t].pc # "rest" \/ t \in Workers
      PROVE  IdleFree'
      BY <1>0, <1>2 DEF IdleFree
<1>3. ASSUME NEW t \in Threads, Take(t) PROVE IdleFree'
  <2>1. \A u \in Threads : /\ thread'[u].policy \in {thread[u].policy, None}
                           /\ thread'[u].pc = "rest" \/ thread[u].pc # "rest" \/ u \in Workers
        BY <1>3 DEF Take, Typed, None
  <2> QED BY <1>2, <1>3, <2>1 DEF Take
<1>4. ASSUME NEW t \in Threads, SelectIdle(t) PROVE IdleFree'
  <2> DEFINE p == Head(idle)
  <2>1. /\ 1 \in DOMAIN idle /\ p = idle[1] /\ p \in Policies
        /\ \A i \in DOMAIN idle' : i + 1 \in DOMAIN idle /\ idle'[i] = idle[i + 1] /\ i \in Nat
                                   /\ i + 1 # 1
        BY <1>4 DEF SelectIdle, Typed
  <2>2. Selected(t, p) /\ queue' = queue /\ thread[t].pc = "select"
        BY <1>4 DEF SelectIdle
  <2> HIDE DEF p
  <2>3. /\ thread'[t].policy = p /\ \A u \in Threads \ {t} : thread'[u] = thread[u]
        BY <2>1, <2>2, SelectedTyped
  <2>4. /\ t \in Workers /\ \A u \in Threads \ {t} : thread[u].pc = "rest"
        BY <1>1, <2>2 DEF IdleFree
  <2>5. \A u \in Threads \ {t} : thread'[u].policy = None /\ thread'[u].pc = "rest"
        BY <2>3, <2>4 DEF Typed
  <2>6. \A i \in DOMAIN idle' :
            /\ queue'[idle'[i]] = <<>> /\ idle'[i] # p
            /\ \A j \in DOMAIN idle' : idle'[i] = idle'[j] => i = j
        BY <2>1, <2>2 DEF IdleFree
  <2>7. queue'[p] = <<>>
        BY <2>1, <2>2 DEF IdleFree
  <2> QED BY <1>0, <2>3, <2>4, <2>5, <2>6, <2>7 DEF IdleFree
<1>5. ASSUME NEW t \in Threads, FlushIdle(t) PROVE IdleFree'
  <2>1. PICK free \in SUBSET {p \in Policies : queue[p] = <<>>} : idle' \in SetToSeqs(free)
        BY <1>5 DEF FlushIdle
  <2>2. /\ \A i \in DOMAIN idle' : idle'[i] \in free
        /\ \A i, j \in DOMAIN idle' : idle'[i] = idle'[j] => i = j
        BY <2>1 DEF SetToSeqs
  <2>3. thread[t].pc = "select" /\ UNCHANGED <<thread, queue>>
        BY <1>5 DEF FlushIdle
  <2>4. t \in Workers /\ \A u \in Threads \ {t} : thread[u].pc = "rest"
        BY <1>1, <2>3 DEF IdleFree
  <2>5. \A u \in Threads : thread[u].policy = None
        BY <2>3, <2>4 DEF Typed
  <2> QED BY <1>0, <2>1, <2>2, <2>3, <2>4, <2>5 DEF IdleFree
<1>6. ASSUME NEW t \in Threads, Acquire(t) PROVE IdleFree'
  <2>1. \A u \in Threads : /\ thread'[u].policy \in {thread[u].policy, None}
                           /\ thread'[u].pc = "rest" \/ thread[u].pc # "rest" \/ u \in Workers
        BY <1>6 DEF Acquire, Typed
  <2> QED BY <1>2, <1>6, <2>1 DEF Acquire
<1>7. ASSUME NEW t \in Threads, Submit(t) PROVE IdleFree'
  <2> DEFINE p == thread[t].policy
  <2>1. /\ thread' = [thread EXCEPT ![t] = Resting] /\ idle' = idle /\ thread[t].pc = "wait"
        /\ p \in Policies /\ p # None
        /\ queue' = [queue EXCEPT ![p] = @ \o <<thread[t].request>>]
        BY <1>7 DEF Submit, Enqueue, Typed
  <2> HIDE DEF p
  <2>2. \A u \in Threads \ {t} : thread[u].pc = "rest" /\ thread'[u] = thread[u]
        BY <1>1, <2>1 DEF IdleFree
  <2>3. \A u \in Threads : thread'[u].policy = None /\ thread'[u].pc = "rest"
        BY <2>1, <2>2 DEF Typed, Resting
  <2>4. \A i \in DOMAIN idle : idle[i] # p
        BY <2>1 DEF IdleFree, p
  <2>5. \A i \in DOMAIN idle : queue'[idle[i]] = queue[idle[i]]
        BY <2>1, <2>4 DEF Typed
  <2> QED BY <1>0, <2>1, <2>3, <2>5 DEF IdleFree
<1>8. ASSUME NEW p \in Policies, Finish(p) PROVE IdleFree'
  <2>1. queue[p] # <<>> /\ UNCHANGED <<thread, idle>>
        BY <1>8 DEF Finish
  <2>2. \A q \in Policies : queue[q] = <<>> => queue'[q] = <<>>
    <3>1. PICK i \in DOMAIN queue[p] : queue' = [queue EXCEPT ![p] = RemoveAt(@, i)]
          BY <1>8, Finishes
    <3> QED BY <2>1, <3>1 DEF Typed
  <2>3. /\ \A i \in DOMAIN idle : idle[i] \in Policies
        /\ \A t \in Threads : thread[t].policy # None => thread[t].policy \in Policies
        BY DEF Typed
  <2> QED BY <1>0, <2>1, <2>2, <2>3 DEF IdleFree
<1>9. CASE UNCHANGED <<thread, queue, idle>>
  BY <1>2, <1>9
<1> QED BY <1>3, <1>4, <1>5, <1>6, <1>7, <1>8, <1>9
        DEF Next, Work, BeginBatch, SelectByTurn, ReadLoads, Assign, vars

LEMMA LevelStep == ASSUME Typed, Level, [Next]_vars PROVE Level'
<1>0. mode' = mode
      BY DEF Next, Work, BeginBatch, Take, SelectByTurn, SelectIdle, FlushIdle, Acquire, Submit,
             ReadLoads, Assign, Finish, vars
<1> SUFFICES ASSUME mode = "async" PROVE Level'
    BY <1>0 DEF Level
<1>1. CASE UNCHANGED <<loads, given>>
  BY <1>0, <1>1 DEF Level, Entry
<1>2. CASE BeginBatch
  BY <1>0, <1>2 DEF BeginBatch, Level, NothingGiven, Targets
<1>3. CASE ReadLoads
  <2>1. given' = given /\ \A p \in Policies : given[Elsewhere][p] = 0
        BY <1>3 DEF ReadLoads, Level
  <2> QED BY <1>0, <2>1 DEF Level
<1>4. CASE Assign
  <2> DEFINE top == Lightest
  <2>1. loads # <<>> /\ loads' = loads /\ given' = [given EXCEPT ![Elsewhere][top] = @ + 1]
        BY <1>4 DEF Assign
  <2>2. top \in Policies /\ \A q \in Policies : Entry(top) <= Entry(q)
        BY <2>1, Top
  <2> HIDE DEF top
  <2>3. \A p \in Policies : /\ loads[p] \in Nat /\ given[Elsewhere][p] \in Nat
                            /\ Entry(p) = loads[p] + given[Elsewhere][p]
        BY <2>1 DEF Typed, Targets, Entry
  <2>4. \A p \in Policies : given'[Elsewhere][p] = given[Elsewhere][p] + (IF p = top THEN 1 ELSE 0)
        BY <2>1, <2>2, <2>3 DEF Typed, Targets
  <2>5. ASSUME NEW p \in Policies, NEW q \in Policies, given'[Elsewhere][p] > 0
        PROVE  (loads[p] + given'[Elsewhere][p]) - 1 <= loads[q] + given'[Elsewhere][q]
    <3>1. CASE p = top
          BY <2>2, <2>3, <2>4, <3>1
    <3>2. CASE p # top
      <4>1. Entry(p) - 1 <= Entry(q)
            BY <2>1, <2>4, <2>5, <3>2 DEF Level
      <4> QED BY <2>3, <2>4, <3>2, <4>1
    <3> QED BY <3>1, <3>2
  <2>6. \A p, q \in Policies :
            given'[Elsewhere][p] > 0 =>
                (loads'[p] + given'[Elsewhere][p]) - 1 <= loads'[q] + given'[Elsewhere][q]
        BY <2>1, <2>5
  <2>7. loads' # <<>>
        BY <2>1
  <2> QED BY <2>6, <2>7 DEF Level, Entry
<1> QED BY <1>1, <1>2, <1>3, <1>4
        DEF Next, Work, Take, SelectByTurn, SelectIdle, FlushIdle, Acquire, Submit, Finish, vars

LEMMA SpreadStep == ASSUME Typed, Spread, [Next]_vars PROVE Spread'
<1>1. InTurn'
  <2>1. CASE \E t \in Threads : SelectByTurn(t)
    BY <2>1, TurnTaken DEF Spread
  <2>2. CASE UNCHANGED <<mode, turns, given>>
    BY <2>2 DEF Spread, InTurn
  <2>3. CASE mode' # "affinity"
    BY <2>3 DEF InTurn
  <2> QED BY <2>1, <2>2, <2>3 DEF Next, Work, BeginBatch, Take, SelectIdle, FlushIdle, Acquire,
              Submit, ReadLoads, Assign, Finish, vars
<1> QED BY <1>1, IdleFreeStep, LevelStep DEF Spread

LEMMA SpreadIsBalanced == Typed /\ Spread => Balanced
<1> SUFFICES ASSUME Typed, Spread PROVE Balanced
    OBVIOUS
<1>1. ASSUME mode = "affinity", NEW n \in Targets, NEW p \in Policies, NEW q \in Policies
      PROVE  /\ p \in Range(PoliciesOf(n)) /\ q \in Range(PoliciesOf(n))
                    => given[n][p] <= given[n][q] + 1
             /\ p \notin Range(PoliciesOf(n)) => given[n][p] = 0
  <2> DEFINE on == PoliciesOf(n)
             k == turns[n] % Len(PoliciesOf(n))
  <2>1. DOMAIN on = 1..Len(on)
        BY OfTarget
  <2>2. PICK round \in Nat : \A i \in 1..Len(on) :
            given[n][on[i]] = IF i <= k THEN round + 1 ELSE round
        BY <1>1 DEF Spread, InTurn
  <2>3. (\A i \in 1..Len(on) : on[i] # p) => given[n][p] = 0
        BY <1>1 DEF Spread, InTurn
  <2> HIDE DEF k, on
  <2>4. \A x \in Range(on) : given[n][x] \in {round, round + 1}
        BY <2>1, <2>2 DEF Range
  <2>5. p \notin Range(on) => given[n][p] = 0
        BY <2>1, <2>3 DEF Range
  <2> QED BY <2>4, <2>5 DEF on
<1>2. ASSUME mode = "simple"
      PROVE  /\ \A p \in Range(idle) : queue[p] = <<>>
             /\ Cardinality(Range(idle)) = Len(idle)
             /\ \A t \in Threads : thread[t].policy # None =>
                    queue[thread[t].policy] = <<>> /\ thread[t].policy \notin Range(idle)
  <2>1. idle \in Seq(Policies) /\ IsInjective(idle)
        BY <1>2 DEF Typed, Spread, IdleFree, IsInjective
  <2>2. idle \in Bijection(1..Len(idle), Range(idle))
        BY <2>1 DEF Bijection, Injection, Surjection, Range
  <2>3. Cardinality(Range(idle)) = Len(idle)
    <3>1. Len(idle) \in Nat
          BY <2>1
    <3>2. IsFiniteSet(1..Len(idle)) /\ Cardinality(1..Len(idle)) = Len(idle)
      <4> DEFINE n == Len(idle)
      <4>1. n \in Nat
            BY <3>1
      <4> HIDE DEF n
      <4>2. IsFiniteSet(1..n) /\ Cardinality(1..n) = n
            BY <4>1, FS_Interval
      <4> QED BY <4>2 DEF n
    <3>3. ExistsBijection(1..Len(idle), Range(idle))
          BY <2>2 DEF ExistsBijection
    <3>4. Cardinality(Range(idle)) = Cardinality(1..Len(idle))
          BY <3>2, <3>3, FS_Bijection
    <3> QED BY <3>2, <3>4
  <2> QED BY <1>2, <2>3 DEF Spread, IdleFree, Range
<1> QED BY <1>1, <1>2 DEF Balanced, Spread, Level

\* However many threads submit at once to however many actors: an actor never has more
\* unfinished tasks than TaskSubmitter allows, and each router spreads the requests as it
\* promises.
THEOREM LoadIsSpreadAndBounded == Spec => []SpreadAndBounded
<1> DEFINE IInv == Typed /\ Placed /\ Remembered /\ Spread
<1>1. Init => IInv
      BY TypedInit, PlacedInit, RememberedInit, SpreadInit
<1>2. IInv /\ [Next]_vars => IInv'
      BY TypedStep, PlacedStep, RememberedStep, SpreadStep
<1>3. IInv => SpreadAndBounded
      BY Bounded, SpreadIsBalanced DEF SpreadAndBounded
<1> QED BY <1>1, <1>2, <1>3, PTL DEF Spec

-----------------------------------------------------------------------------
(***************************************************************************)
(* EvalPolicy.  GateNeverLost is inductive.  What the wait for the first   *)
(* version needs: until that version is notified the updater has not       *)
(* moved; while the engine waits, the updater is somewhere on the one      *)
(* round that loads it, and "done" stays clear until that round has loaded *)
(* it or failed to.                                                        *)
(***************************************************************************)
Unnotified == pushed = 0 \/ (pushed = 1 /\ (order = "notify" \/ pc[Sender] = "ready"))

SenderInv ==
    /\ pc[Sender] \in {"unready", "add", "ready"} => order = "send"
    /\ pc[Sender] = "signal" => order = "notify"
    /\ pc[Sender] = "wait_done" => order = "wait"
    /\ pc[Sender] = "ready" => buffer = pushed /\ pushed # 0
    /\ order = "wait" => pushed = 1
    /\ order = "notify" => ready /\ buffer = pushed /\ pushed # 0
    /\ order = "wait" => ready /\ buffer = 1

Loaded == loaded = 1 \/ "load" \in raised

Round ==
    \/ pc[Updater] = "await" /\ signal /\ ~done
    \/ pc[Updater] \in {"gate", "blocked", "close", "assert", "take"} /\ ~done
    \/ pc[Updater] = "load" /\ held = 1 /\ ~done
    \/ pc[Updater] \in {"open", "unsignal"} /\ Loaded /\ ~done
    \/ pc[Updater] = "redone" /\ ~signal /\ Loaded /\ ~done
    \/ pc[Updater] = "await" /\ ~signal /\ Loaded

FirstInv ==
    /\ SenderInv
    /\ Unnotified => pc[Updater] = "await" /\ ~signal
    /\ Unnotified /\ pc[Sender] = "signal" => ~done
    /\ order = "wait" => Round

-----------------------------------------------------------------------------
(***************************************************************************)
(* Every variable stays in its range.                                      *)
(***************************************************************************)
LEMMA TypeInit == EvalInit => EvalTypeOK
<1> SUFFICES ASSUME EvalInit PROVE EvalTypeOK
  OBVIOUS
<1>1. pc \in [Thread -> Label]
  <2>1. "await" \in Label /\ "free" \in Label
    BY DEF Label, RollerLabel, UpdaterLabel
  <2> QED
    BY <2>1 DEF EvalInit
<1>2. \A t \in Client : pc[t] = "free"
  BY PolicyAssumption DEF EvalInit, Thread
<1>3. pc[Updater] = "await"
  BY DEF EvalInit, Thread
<1>4. /\ buffer \in 0..MaxVersion /\ pushed \in 0..MaxVersion
      /\ held \in 0..MaxVersion /\ loaded \in 0..MaxVersion
  BY PolicyAssumption DEF EvalInit
<1>5. pc[Sender] = "free"
  BY <1>2 DEF Client
<1>6. /\ idleAsInfer \in BOOLEAN /\ signal \in BOOLEAN /\ done \in BOOLEAN /\ ready \in BOOLEAN
      /\ order \in {"send", "notify", "wait"} /\ raised \subseteq Fallible
  BY DEF EvalInit
<1> QED
  BY <1>1, <1>2, <1>3, <1>4, <1>5, <1>6
     DEF EvalTypeOK, RollerLabel, SenderLabel, UpdaterLabel

LEMMA TypeStep == ASSUME EvalTypeOK, [EvalNext]_evalVars PROVE EvalTypeOK'
<1>1. ASSUME NEW r \in Roller, Request(r) PROVE EvalTypeOK'
  BY <1>1, PolicyAssumption
     DEF EvalTypeOK, Thread, Client, RollerLabel, SenderLabel, UpdaterLabel, Label,
         Request, Goto, gate, update, weights
<1>2. ASSUME NEW r \in Roller, CheckIdle(r) PROVE EvalTypeOK'
  BY <1>2, PolicyAssumption
     DEF EvalTypeOK, Thread, Client, RollerLabel, SenderLabel, UpdaterLabel, Label,
         CheckIdle, Goto, gate, update, weights
<1>3. ASSUME NEW r \in Roller, Gate(r) PROVE EvalTypeOK'
  BY <1>3, PolicyAssumption
     DEF EvalTypeOK, Thread, Client, RollerLabel, SenderLabel, UpdaterLabel, Label,
         Gate, Goto, gate, update, weights
<1>4. ASSUME NEW r \in Roller, Close(r) PROVE EvalTypeOK'
  BY <1>4, PolicyAssumption
     DEF EvalTypeOK, Thread, Client, RollerLabel, SenderLabel, UpdaterLabel, Label,
         Close, Goto, gate, update, weights
<1>5. ASSUME NEW r \in Roller, Respond(r) PROVE EvalTypeOK'
  BY <1>5, PolicyAssumption
     DEF EvalTypeOK, Thread, Client, RollerLabel, SenderLabel, UpdaterLabel, Label,
         Respond, Open, Awake, Goto, gate, update, weights
<1>6. ASSUME NEW r \in Roller, RolloutRaises(r) PROVE EvalTypeOK'
  BY <1>6, PolicyAssumption
     DEF EvalTypeOK, Thread, Client, RollerLabel, SenderLabel, UpdaterLabel, Label,
         RolloutRaises, Goto, gate, update, weights
<1>7. CASE ClearBuffer
  BY <1>7, PolicyAssumption
     DEF EvalTypeOK, Thread, Client, RollerLabel, SenderLabel, UpdaterLabel, Label,
         ClearBuffer, Goto, gate, update, weights
<1>8. CASE Unready
  BY <1>8, PolicyAssumption
     DEF EvalTypeOK, Thread, Client, RollerLabel, SenderLabel, UpdaterLabel, Label,
         Unready, Goto, gate, update, weights
<1>9. CASE AddStateDict
  BY <1>9, PolicyAssumption
     DEF EvalTypeOK, Thread, Client, RollerLabel, SenderLabel, UpdaterLabel, Label,
         AddStateDict, Goto, gate, update, weights
<1>10. CASE MarkReady
  BY <1>10, PolicyAssumption
     DEF EvalTypeOK, Thread, Client, RollerLabel, SenderLabel, UpdaterLabel, Label,
         MarkReady, Goto, gate, update, weights
<1>11. CASE ClearDone
  BY <1>11, PolicyAssumption
     DEF EvalTypeOK, Thread, Client, RollerLabel, SenderLabel, UpdaterLabel, Label,
         ClearDone, Goto, gate, update, weights
<1>12. CASE SetSignal
  BY <1>12, PolicyAssumption
     DEF EvalTypeOK, Thread, Client, RollerLabel, SenderLabel, UpdaterLabel, Label,
         SetSignal, Goto, gate, update, weights
<1>13. CASE BeginWait
  BY <1>13, PolicyAssumption
     DEF EvalTypeOK, Thread, Client, RollerLabel, SenderLabel, UpdaterLabel, Label,
         BeginWait, Goto, gate, update, weights
<1>14. CASE WaitReturns
  BY <1>14, PolicyAssumption
     DEF EvalTypeOK, Thread, Client, RollerLabel, SenderLabel, UpdaterLabel, Label,
         WaitReturns, Goto, gate, update, weights
<1>15. CASE AwaitSignal
  BY <1>15, PolicyAssumption
     DEF EvalTypeOK, Thread, Client, RollerLabel, SenderLabel, UpdaterLabel, Label,
         AwaitSignal, Goto, gate, update, weights
<1>16. CASE Gate(Updater)
  BY <1>16, PolicyAssumption
     DEF EvalTypeOK, Thread, Client, RollerLabel, SenderLabel, UpdaterLabel, Label,
         Gate, Goto, gate, update, weights
<1>17. CASE Close(Updater)
  BY <1>17, PolicyAssumption
     DEF EvalTypeOK, Thread, Client, RollerLabel, SenderLabel, UpdaterLabel, Label,
         Close, Goto, gate, update, weights
<1>18. CASE AssertReady
  BY <1>18, PolicyAssumption
     DEF EvalTypeOK, Thread, Client, RollerLabel, SenderLabel, UpdaterLabel, Label,
         AssertReady, Goto, gate, update, weights
<1>19. CASE TakeWeights
  BY <1>19, PolicyAssumption
     DEF EvalTypeOK, Thread, Client, RollerLabel, SenderLabel, UpdaterLabel, Label,
         TakeWeights, Goto, gate, update, weights
<1>20. CASE Load
  BY <1>20, PolicyAssumption
     DEF EvalTypeOK, Thread, Client, RollerLabel, SenderLabel, UpdaterLabel, Label,
         Load, Goto, gate, update, weights
<1>21. CASE LoadRaises
  BY <1>21, PolicyAssumption
     DEF EvalTypeOK, Thread, Client, RollerLabel, SenderLabel, UpdaterLabel, Label,
         LoadRaises, Goto, gate, update, weights
<1>22. CASE Reopen
  BY <1>22, PolicyAssumption
     DEF EvalTypeOK, Thread, Client, RollerLabel, SenderLabel, UpdaterLabel, Label,
         Reopen, Open, Awake, Goto, gate, update, weights
<1>23. CASE ClearSignal
  BY <1>23, PolicyAssumption
     DEF EvalTypeOK, Thread, Client, RollerLabel, SenderLabel, UpdaterLabel, Label,
         ClearSignal, Goto, gate, update, weights
<1>24. CASE SetDone
  BY <1>24, PolicyAssumption
     DEF EvalTypeOK, Thread, Client, RollerLabel, SenderLabel, UpdaterLabel, Label,
         SetDone, Goto, gate, update, weights
<1>25. CASE UNCHANGED evalVars
  BY <1>25
     DEF EvalTypeOK, Thread, Client, RollerLabel, SenderLabel, UpdaterLabel, Label,
         evalVars, gate, update, weights
<1> QED
  BY <1>1, <1>2, <1>3, <1>4, <1>5, <1>6, <1>7, <1>8, <1>9, <1>10, <1>11, <1>12,
     <1>13, <1>14, <1>15, <1>16, <1>17, <1>18, <1>19, <1>20, <1>21, <1>22, <1>23,
     <1>24, <1>25
     DEF EvalNext, Rollout, RecvWeights, Notify, WaitForWeightUpdateDone, UpdateWeights

THEOREM EvalTypeCorrect == EvalSpec => []EvalTypeOK
<1>1. EvalTypeOK /\ [EvalNext]_evalVars => EvalTypeOK'
  BY TypeStep
<1> QED
  BY TypeInit, <1>1, PTL DEF EvalSpec

-----------------------------------------------------------------------------
(***************************************************************************)
(* Unless rollout_step raises, the gate is never closed with nobody inside.*)
(***************************************************************************)
LEMMA GateStep ==
    ASSUME EvalTypeOK, GateNeverLost, [EvalNext]_evalVars
    PROVE  GateNeverLost'
<1>1. ASSUME NEW r \in Roller, Request(r) PROVE GateNeverLost'
  BY <1>1, PolicyAssumption
     DEF GateNeverLost, Updating, Inferring, EvalTypeOK, Thread, Client, RollerLabel,
         SenderLabel, UpdaterLabel, Label, Request, Goto, gate, update, weights
<1>2. ASSUME NEW r \in Roller, CheckIdle(r) PROVE GateNeverLost'
  BY <1>2, PolicyAssumption
     DEF GateNeverLost, Updating, Inferring, EvalTypeOK, Thread, Client, RollerLabel,
         SenderLabel, UpdaterLabel, Label, CheckIdle, Goto, gate, update, weights
<1>3. ASSUME NEW r \in Roller, Gate(r) PROVE GateNeverLost'
  BY <1>3, PolicyAssumption
     DEF GateNeverLost, Updating, Inferring, EvalTypeOK, Thread, Client, RollerLabel,
         SenderLabel, UpdaterLabel, Label, Gate, Goto, gate, update, weights
<1>4. ASSUME NEW r \in Roller, Close(r) PROVE GateNeverLost'
  BY <1>4, PolicyAssumption
     DEF GateNeverLost, Updating, Inferring, EvalTypeOK, Thread, Client, RollerLabel,
         SenderLabel, UpdaterLabel, Label, Close, Goto, gate, update, weights
<1>5. ASSUME NEW r \in Roller, Respond(r) PROVE GateNeverLost'
  BY <1>5, PolicyAssumption
     DEF GateNeverLost, Updating, Inferring, EvalTypeOK, Thread, Client, RollerLabel,
         SenderLabel, UpdaterLabel, Label, Respond, Open, Awake, Goto, gate, update,
         weights
<1>6. ASSUME NEW r \in Roller, RolloutRaises(r) PROVE GateNeverLost'
  BY <1>6, PolicyAssumption
     DEF GateNeverLost, Updating, Inferring, EvalTypeOK, Thread, Client, RollerLabel,
         SenderLabel, UpdaterLabel, Label, RolloutRaises, Goto, gate, update,
         weights
<1>7. CASE ClearBuffer
  BY <1>7, PolicyAssumption
     DEF GateNeverLost, Updating, Inferring, EvalTypeOK, Thread, Client, RollerLabel,
         SenderLabel, UpdaterLabel, Label, ClearBuffer, Goto, gate, update, weights
<1>8. CASE Unready
  BY <1>8, PolicyAssumption
     DEF GateNeverLost, Updating, Inferring, EvalTypeOK, Thread, Client, RollerLabel,
         SenderLabel, UpdaterLabel, Label, Unready, Goto, gate, update, weights
<1>9. CASE AddStateDict
  BY <1>9, PolicyAssumption
     DEF GateNeverLost, Updating, Inferring, EvalTypeOK, Thread, Client, RollerLabel,
         SenderLabel, UpdaterLabel, Label, AddStateDict, Goto, gate, update, weights
<1>10. CASE MarkReady
  BY <1>10, PolicyAssumption
     DEF GateNeverLost, Updating, Inferring, EvalTypeOK, Thread, Client, RollerLabel,
         SenderLabel, UpdaterLabel, Label, MarkReady, Goto, gate, update, weights
<1>11. CASE ClearDone
  BY <1>11, PolicyAssumption
     DEF GateNeverLost, Updating, Inferring, EvalTypeOK, Thread, Client, RollerLabel,
         SenderLabel, UpdaterLabel, Label, ClearDone, Goto, gate, update, weights
<1>12. CASE SetSignal
  BY <1>12, PolicyAssumption
     DEF GateNeverLost, Updating, Inferring, EvalTypeOK, Thread, Client, RollerLabel,
         SenderLabel, UpdaterLabel, Label, SetSignal, Goto, gate, update, weights
<1>13. CASE BeginWait
  BY <1>13, PolicyAssumption
     DEF GateNeverLost, Updating, Inferring, EvalTypeOK, Thread, Client, RollerLabel,
         SenderLabel, UpdaterLabel, Label, BeginWait, Goto, gate, update, weights
<1>14. CASE WaitReturns
  BY <1>14, PolicyAssumption
     DEF GateNeverLost, Updating, Inferring, EvalTypeOK, Thread, Client, RollerLabel,
         SenderLabel, UpdaterLabel, Label, WaitReturns, Goto, gate, update, weights
<1>15. CASE AwaitSignal
  BY <1>15, PolicyAssumption
     DEF GateNeverLost, Updating, Inferring, EvalTypeOK, Thread, Client, RollerLabel,
         SenderLabel, UpdaterLabel, Label, AwaitSignal, Goto, gate, update, weights
<1>16. CASE Gate(Updater)
  BY <1>16, PolicyAssumption
     DEF GateNeverLost, Updating, Inferring, EvalTypeOK, Thread, Client, RollerLabel,
         SenderLabel, UpdaterLabel, Label, Gate, Goto, gate, update, weights
<1>17. CASE Close(Updater)
  BY <1>17, PolicyAssumption
     DEF GateNeverLost, Updating, Inferring, EvalTypeOK, Thread, Client, RollerLabel,
         SenderLabel, UpdaterLabel, Label, Close, Goto, gate, update, weights
<1>18. CASE AssertReady
  BY <1>18, PolicyAssumption
     DEF GateNeverLost, Updating, Inferring, EvalTypeOK, Thread, Client, RollerLabel,
         SenderLabel, UpdaterLabel, Label, AssertReady, Goto, gate, update, weights
<1>19. CASE TakeWeights
  BY <1>19, PolicyAssumption
     DEF GateNeverLost, Updating, Inferring, EvalTypeOK, Thread, Client, RollerLabel,
         SenderLabel, UpdaterLabel, Label, TakeWeights, Goto, gate, update, weights
<1>20. CASE Load
  BY <1>20, PolicyAssumption
     DEF GateNeverLost, Updating, Inferring, EvalTypeOK, Thread, Client, RollerLabel,
         SenderLabel, UpdaterLabel, Label, Load, Goto, gate, update, weights
<1>21. CASE LoadRaises
  BY <1>21, PolicyAssumption
     DEF GateNeverLost, Updating, Inferring, EvalTypeOK, Thread, Client, RollerLabel,
         SenderLabel, UpdaterLabel, Label, LoadRaises, Goto, gate, update, weights
<1>22. CASE Reopen
  BY <1>22, PolicyAssumption
     DEF GateNeverLost, Updating, Inferring, EvalTypeOK, Thread, Client, RollerLabel,
         SenderLabel, UpdaterLabel, Label, Reopen, Open, Awake, Goto, gate, update,
         weights
<1>23. CASE ClearSignal
  BY <1>23, PolicyAssumption
     DEF GateNeverLost, Updating, Inferring, EvalTypeOK, Thread, Client, RollerLabel,
         SenderLabel, UpdaterLabel, Label, ClearSignal, Goto, gate, update, weights
<1>24. CASE SetDone
  BY <1>24, PolicyAssumption
     DEF GateNeverLost, Updating, Inferring, EvalTypeOK, Thread, Client, RollerLabel,
         SenderLabel, UpdaterLabel, Label, SetDone, Goto, gate, update, weights
<1>25. CASE UNCHANGED evalVars
  BY <1>25
     DEF GateNeverLost, Updating, Inferring, EvalTypeOK, Thread, Client, RollerLabel,
         SenderLabel, UpdaterLabel, Label, evalVars, gate, update, weights
<1> QED
  BY <1>1, <1>2, <1>3, <1>4, <1>5, <1>6, <1>7, <1>8, <1>9, <1>10, <1>11, <1>12,
     <1>13, <1>14, <1>15, <1>16, <1>17, <1>18, <1>19, <1>20, <1>21, <1>22, <1>23,
     <1>24, <1>25
     DEF EvalNext, Rollout, RecvWeights, Notify, WaitForWeightUpdateDone, UpdateWeights

THEOREM GateCorrect == EvalSpec => []GateNeverLost
<1>1. EvalInit => GateNeverLost
  BY DEF EvalInit, GateNeverLost
<1>2. EvalTypeOK /\ GateNeverLost /\ [EvalNext]_evalVars => GateNeverLost'
  BY GateStep
<1> QED
  BY <1>1, <1>2, EvalTypeCorrect, PTL DEF EvalSpec

-----------------------------------------------------------------------------
(***************************************************************************)
(* When the engine waits for its first version only, a wait that returns   *)
(* True finds that version loaded (unless loading it raised), whatever     *)
(* rollouts run or raise beside it.                                        *)
(***************************************************************************)
LEMMA FirstInit == EvalInit => FirstInv
  BY PolicyAssumption
     DEF EvalInit, FirstInv, SenderInv, Unnotified, Round, Loaded, Thread, Client

LEMMA FirstStep ==
    ASSUME Waited \subseteq {1}, EvalTypeOK, FirstInv, [EvalNext]_evalVars
    PROVE  FirstInv'
<1>1. ASSUME NEW r \in Roller, Request(r) PROVE FirstInv'
  BY <1>1, PolicyAssumption
     DEF FirstInv, SenderInv, Unnotified, Round, Loaded, EvalTypeOK, Thread, Client,
         RollerLabel, SenderLabel, UpdaterLabel, Label, Request, Goto, gate, update,
         weights
<1>2. ASSUME NEW r \in Roller, CheckIdle(r) PROVE FirstInv'
  BY <1>2, PolicyAssumption
     DEF FirstInv, SenderInv, Unnotified, Round, Loaded, EvalTypeOK, Thread, Client,
         RollerLabel, SenderLabel, UpdaterLabel, Label, CheckIdle, Goto, gate,
         update, weights
<1>3. ASSUME NEW r \in Roller, Gate(r) PROVE FirstInv'
  BY <1>3, PolicyAssumption
     DEF FirstInv, SenderInv, Unnotified, Round, Loaded, EvalTypeOK, Thread, Client,
         RollerLabel, SenderLabel, UpdaterLabel, Label, Gate, Goto, gate, update,
         weights
<1>4. ASSUME NEW r \in Roller, Close(r) PROVE FirstInv'
  BY <1>4, PolicyAssumption
     DEF FirstInv, SenderInv, Unnotified, Round, Loaded, EvalTypeOK, Thread, Client,
         RollerLabel, SenderLabel, UpdaterLabel, Label, Close, Goto, gate, update,
         weights
<1>5. ASSUME NEW r \in Roller, Respond(r) PROVE FirstInv'
  BY <1>5, PolicyAssumption
     DEF FirstInv, SenderInv, Unnotified, Round, Loaded, EvalTypeOK, Thread, Client,
         RollerLabel, SenderLabel, UpdaterLabel, Label, Respond, Open, Awake, Goto,
         gate, update, weights
<1>6. ASSUME NEW r \in Roller, RolloutRaises(r) PROVE FirstInv'
  BY <1>6, PolicyAssumption
     DEF FirstInv, SenderInv, Unnotified, Round, Loaded, EvalTypeOK, Thread, Client,
         RollerLabel, SenderLabel, UpdaterLabel, Label, RolloutRaises, Goto, gate,
         update, weights
<1>7. CASE ClearBuffer
  BY <1>7, PolicyAssumption
     DEF FirstInv, SenderInv, Unnotified, Round, Loaded, EvalTypeOK, Thread, Client,
         RollerLabel, SenderLabel, UpdaterLabel, Label, ClearBuffer, Goto, gate,
         update, weights
<1>8. CASE Unready
  BY <1>8, PolicyAssumption
     DEF FirstInv, SenderInv, Unnotified, Round, Loaded, EvalTypeOK, Thread, Client,
         RollerLabel, SenderLabel, UpdaterLabel, Label, Unready, Goto, gate, update,
         weights
<1>9. CASE AddStateDict
  BY <1>9, PolicyAssumption
     DEF FirstInv, SenderInv, Unnotified, Round, Loaded, EvalTypeOK, Thread, Client,
         RollerLabel, SenderLabel, UpdaterLabel, Label, AddStateDict, Goto, gate,
         update, weights
<1>10. CASE MarkReady
  BY <1>10, PolicyAssumption
     DEF FirstInv, SenderInv, Unnotified, Round, Loaded, EvalTypeOK, Thread, Client,
         RollerLabel, SenderLabel, UpdaterLabel, Label, MarkReady, Goto, gate,
         update, weights
<1>11. CASE ClearDone
  BY <1>11, PolicyAssumption
     DEF FirstInv, SenderInv, Unnotified, Round, Loaded, EvalTypeOK, Thread, Client,
         RollerLabel, SenderLabel, UpdaterLabel, Label, ClearDone, Goto, gate,
         update, weights
<1>12. CASE SetSignal
  BY <1>12, PolicyAssumption
     DEF FirstInv, SenderInv, Unnotified, Round, Loaded, EvalTypeOK, Thread, Client,
         RollerLabel, SenderLabel, UpdaterLabel, Label, SetSignal, Goto, gate,
         update, weights
<1>13. CASE BeginWait
  BY <1>13, PolicyAssumption
     DEF FirstInv, SenderInv, Unnotified, Round, Loaded, EvalTypeOK, Thread, Client,
         RollerLabel, SenderLabel, UpdaterLabel, Label, BeginWait, Goto, gate,
         update, weights
<1>14. CASE WaitReturns
  BY <1>14, PolicyAssumption
     DEF FirstInv, SenderInv, Unnotified, Round, Loaded, EvalTypeOK, Thread, Client,
         RollerLabel, SenderLabel, UpdaterLabel, Label, WaitReturns, Goto, gate,
         update, weights
<1>15. CASE AwaitSignal
  BY <1>15, PolicyAssumption
     DEF FirstInv, SenderInv, Unnotified, Round, Loaded, EvalTypeOK, Thread, Client,
         RollerLabel, SenderLabel, UpdaterLabel, Label, AwaitSignal, Goto, gate,
         update, weights
<1>16. CASE Gate(Updater)
  BY <1>16, PolicyAssumption
     DEF FirstInv, SenderInv, Unnotified, Round, Loaded, EvalTypeOK, Thread, Client,
         RollerLabel, SenderLabel, UpdaterLabel, Label, Gate, Goto, gate, update,
         weights
<1>17. CASE Close(Updater)
  BY <1>17, PolicyAssumption
     DEF FirstInv, SenderInv, Unnotified, Round, Loaded, EvalTypeOK, Thread, Client,
         RollerLabel, SenderLabel, UpdaterLabel, Label, Close, Goto, gate, update,
         weights
<1>18. CASE AssertReady
  BY <1>18, PolicyAssumption
     DEF FirstInv, SenderInv, Unnotified, Round, Loaded, EvalTypeOK, Thread, Client,
         RollerLabel, SenderLabel, UpdaterLabel, Label, AssertReady, Goto, gate,
         update, weights
<1>19. CASE TakeWeights
  BY <1>19, PolicyAssumption
     DEF FirstInv, SenderInv, Unnotified, Round, Loaded, EvalTypeOK, Thread, Client,
         RollerLabel, SenderLabel, UpdaterLabel, Label, TakeWeights, Goto, gate, update,
         weights
<1>20. CASE Load
  BY <1>20, PolicyAssumption
     DEF FirstInv, SenderInv, Unnotified, Round, Loaded, EvalTypeOK, Thread, Client,
         RollerLabel, SenderLabel, UpdaterLabel, Label, Load, Goto, gate, update,
         weights
<1>21. CASE LoadRaises
  BY <1>21, PolicyAssumption
     DEF FirstInv, SenderInv, Unnotified, Round, Loaded, EvalTypeOK, Thread, Client,
         RollerLabel, SenderLabel, UpdaterLabel, Label, LoadRaises, Goto, gate,
         update, weights
<1>22. CASE Reopen
  BY <1>22, PolicyAssumption
     DEF FirstInv, SenderInv, Unnotified, Round, Loaded, EvalTypeOK, Thread, Client,
         RollerLabel, SenderLabel, UpdaterLabel, Label, Reopen, Open, Awake, Goto,
         gate, update, weights
<1>23. CASE ClearSignal
  BY <1>23, PolicyAssumption
     DEF FirstInv, SenderInv, Unnotified, Round, Loaded, EvalTypeOK, Thread, Client,
         RollerLabel, SenderLabel, UpdaterLabel, Label, ClearSignal, Goto, gate,
         update, weights
<1>24. CASE SetDone
  BY <1>24, PolicyAssumption
     DEF FirstInv, SenderInv, Unnotified, Round, Loaded, EvalTypeOK, Thread, Client,
         RollerLabel, SenderLabel, UpdaterLabel, Label, SetDone, Goto, gate, update,
         weights
<1>25. CASE UNCHANGED evalVars
  BY <1>25
     DEF FirstInv, SenderInv, Unnotified, Round, Loaded, EvalTypeOK, Thread, Client,
         RollerLabel, SenderLabel, UpdaterLabel, Label, evalVars, gate, update, weights
<1> QED
  BY <1>1, <1>2, <1>3, <1>4, <1>5, <1>6, <1>7, <1>8, <1>9, <1>10, <1>11, <1>12,
     <1>13, <1>14, <1>15, <1>16, <1>17, <1>18, <1>19, <1>20, <1>21, <1>22, <1>23,
     <1>24, <1>25
     DEF EvalNext, Rollout, RecvWeights, Notify, WaitForWeightUpdateDone, UpdateWeights

THEOREM FreshCorrect ==
    ASSUME Waited \subseteq {1}
    PROVE  EvalSpec => FreshWhenDone
<1>1. EvalTypeOK /\ FirstInv /\ [EvalNext]_evalVars => FirstInv'
  BY FirstStep
<1>2. EvalTypeOK /\ FirstInv /\ [EvalNext]_evalVars
        => [(pc[Sender] = "wait_done" /\ pc'[Sender] = "free" /\ done)
                => (loaded = pushed \/ "load" \in raised)]_evalVars
  BY DEF FirstInv, SenderInv, Round, Loaded, evalVars, gate, update, weights
<1> QED
  BY FirstInit, <1>1, <1>2, EvalTypeCorrect, PTL DEF EvalSpec, FreshWhenDone
=============================================================================
