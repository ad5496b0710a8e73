--------------------------- MODULE Rollout_proofs ---------------------------
(***************************************************************************)
(* Proofs about Rollout, EnvGroup and DataBuffer, for any environments,    *)
(* sub-environments and shards.                                            *)
(*                                                                         *)
(* The argument follows one environment at a time.  Its calls wait in the  *)
(* queue of its shard; a "stance" says what has been done for it when a    *)
(* call has run.  At the shard, stance a says what is in the open episodes *)
(* and the containers (AtShard, Pure).  The calls in the queue lead from a *)
(* to a stance b (Leads), and b fits where the engine's loop and the       *)
(* environment are (AtFront).  A step either submits calls, which moves b, *)
(* or lets the shard run one, which moves a.  The sampling thread is       *)
(* followed beside that, for one shard at a time (SamplerInv).             *)
(***************************************************************************)
EXTENDS Rollout, FiniteSetTheorems, SequenceTheorems, WellFoundedInduction, TLAPS

-----------------------------------------------------------------------------
(***************************************************************************)
(* The calls for one environment on their way to its shard.  A stance is   *)
(* what has been done for the environment once a call is executed: the     *)
(* last complete row (row), the return that waits for its response (cur),  *)
(* what comes next (phase), and whether its episodes were truncated since  *)
(* (closed).  x is inAutoReset.                                            *)
(***************************************************************************)
Phases == {"return", "response", "truncate"}
Records == [row : Returns, cur : Returns, phase : Phases, closed : BOOLEAN]

\* The return that may come next: the one after the last row, or that of a reset; the rsl
\* loop stores the last return again when it goes on after a truncation.
Due(x, a, r) ==
    IF ~a.closed THEN Follows(a.row, r)
    ELSE IF x \/ a.row.resets = 0 THEN r.resets = a.row.resets + 1 /\ r.steps = 0
    ELSE r = a.row

\* The environment is truncated after this row.
Full(x, a, r) == IF x THEN r.steps = MaxSteps ELSE ~a.closed /\ r.steps % MaxSteps = 0

\* The stances that calls lead to.
Sound(x, a) ==
    /\ a.row.resets = 0 => a.closed
    /\ a.phase = "truncate" => ~a.closed /\ IF x THEN a.row.steps = MaxSteps ELSE a.row.steps % MaxSteps = 0
    /\ a.phase = "response" => Due(x, a, a.cur)
    /\ IF x THEN a.row.resets > 0 =>
                    /\ a.closed \/ a.phase = "truncate" => a.row.steps = MaxSteps
                    /\ ~a.closed /\ a.phase # "truncate" => a.row.steps < MaxSteps
            ELSE a.row.resets <= 1

Stances(x, e) == {a \in Records : a.row.env = e /\ a.cur.env = e /\ Sound(x, a)}

Stored(a, r) == [row |-> a.row, cur |-> r, phase |-> "response", closed |-> a.closed]
Grown(x, a, r) ==
    [row |-> r, cur |-> r, phase |-> IF Full(x, a, r) THEN "truncate" ELSE "return", closed |-> FALSE]
Closed(a) == [row |-> a.row, cur |-> a.cur, phase |-> "return", closed |-> TRUE]

Calls ==
    [op : {"pair", "return", "response"}, ret : Returns] \cup [op : {"truncate"}, envs : Seq(Envs)]
        \cup [op : {"size", "clear"}] \cup [op : {"get"}, n : Int]

Carries(c) == c.op \in {"pair", "return", "response"}
Concerns(e, c) == (Carries(c) /\ c.ret.env = e) \/ (c.op = "truncate" /\ e \in ToSet(c.envs))

\* The call c for e is in order after stance a, and leads to stance b.
Does(x, e, a, c, b) ==
    \/ ~Concerns(e, c) /\ b = a
    \/ /\ Concerns(e, c)
       /\ \/ c.op = "pair" /\ a.phase = "return" /\ Due(x, a, c.ret) /\ b = Grown(x, a, c.ret)
          \/ c.op = "return" /\ a.phase = "return" /\ Due(x, a, c.ret) /\ b = Stored(a, c.ret)
          \/ c.op = "response" /\ a.phase = "response" /\ a.cur = c.ret /\ b = Grown(x, a, c.ret)
          \/ c.op = "truncate" /\ a.phase = "truncate" /\ b = Closed(a)

\* The calls of q are in order for e, and lead from stance a to stance b.
Leads(x, e, a, q, b) ==
    \E st \in [0..Len(q) -> Stances(x, e)] :
        /\ st[0] = a /\ st[Len(q)] = b
        /\ \A i \in 1..Len(q) : Does(x, e, st[i - 1], q[i], st[i])

At(r) == [resets |-> r.resets, steps |-> r.steps]
Before(q, r) == q.resets < r.resets \/ (q.resets = r.resets /\ q.steps < r.steps)
UpTo(q, r) == Before(q, r) \/ (q.resets = r.resets /\ q.steps = r.steps)

-----------------------------------------------------------------------------
(***************************************************************************)
(* What a shard holds of an environment with stance a: the open episodes,  *)
(* the pushed ones, and the returns in them.                               *)
(***************************************************************************)
RunOf(k, rows) ==
    /\ \A i \in DOMAIN rows : rows[i].resp = rows[i].ret /\ rows[i].ret.env = k[1]
    /\ \A i \in 1..(Len(rows) - 1) :
          Follows(rows[i].ret, rows[i + 1].ret) /\ (i > 1 => ~Closes(k, rows[i].ret))

LastOf(p) == p.rows[Len(p.rows)].ret

OpenWhole(e, a) ==
    ~Broken(e) => \A k \in ToSet(KeysOf(e)) :
        /\ a.closed => active[k] = <<>>
        /\ RunOf(k, active[k])
        /\ Len(active[k]) > 1 /\ a.phase # "truncate" => ~Closes(k, a.row)
        /\ ~auto /\ ~a.closed => active[k] # <<>> /\ (a.phase = "truncate" => Len(active[k]) > 1)

Rising(rows) == \A i, j \in DOMAIN rows : i < j => Before(rows[i].ret, rows[j].ret)

OpenOrdered(e, a) ==
    \A k \in ToSet(KeysOf(e)) :
        /\ active[k] # <<>> => active[k][Len(active[k])].ret = a.row
        /\ Rising(active[k])

PushedOrdered(e, a) ==
    \A p \in Pushed : p.key[1] = e =>
        /\ p.key \in ToSet(KeysOf(e)) /\ p.rows # <<>>
        /\ HasRows(p) => /\ UpTo(LastOf(p), a.row)
                         /\ active[p.key] # <<>> => UpTo(LastOf(p), active[p.key][1].ret)

AtShard(e, a) ==
    /\ a.phase = "response" => current[e] = <<a.cur>>
    /\ OpenWhole(e, a) /\ OpenOrdered(e, a) /\ PushedOrdered(e, a)

\* The returns up to the last row.
Past(a) ==
    {at \in [resets : Nat, steps : Nat] :
        /\ 1 <= at.resets
        /\ \/ at.resets < a.row.resets /\ at.steps <= MaxSteps
           \/ at.resets = a.row.resets /\ at.steps <= a.row.steps}

PastKept(e, b) == ~Broken(e) => \A k \in ToSet(KeysOf(e)) : Past(b) \subseteq Kept(k)

-----------------------------------------------------------------------------
(***************************************************************************)
(* Where an environment is in its loop, when the last call submitted for   *)
(* it leads to stance b.                                                   *)
(***************************************************************************)
Idle(e) == task[e] = "none" /\ result[e] = {}
Is(e, r) == r.env = e /\ At(r) = position[e]
Rests(e, b) == b.phase = "return" /\ At(b.row) = position[e]
Waits(b, r) == b.phase = "response" /\ b.cur = r
Holds(e, b, r) == b.phase = "return" /\ Is(e, r) /\ Due(inAutoReset, b, r)

\* A step is under way, or its return is not collected.
Away(e, b) ==
    /\ b.phase = "return" /\ b.row.resets > 0
    /\ \/ /\ task[e] = (IF inAutoReset /\ b.closed THEN "reset" ELSE "step") /\ result[e] = {}
          /\ At(b.row) = position[e]
       \/ task[e] = "none" /\ \E r \in result[e] : result[e] = {r} /\ Holds(e, b, r)

SyncFront(e, b) ==
    /\ pc \in {"reset", "store_pairs", "step", "rolled_out", "sampled", "done"}
    /\ Idle(e)
    /\ pc \in {"reset", "rolled_out", "sampled", "done"} => Rests(e, b) /\ b.closed
    /\ pc # "reset" => DOMAIN batch = Envs /\ position[e].resets > 0
    /\ pc \in {"store_pairs", "step"} => position[e].steps = iter /\ counter[e] = iter
    /\ pc = "store_pairs" => Holds(e, b, batch[e]) /\ (e \in flags <=> iter = MaxSteps)
    /\ pc = "step" => Rests(e, b) /\ ~b.closed

AsyncFront(e, b) ==
    /\ pc \in {"reset", "store_returns", "store_responses", "step_async", "collect", "done"}
    /\ pc = "reset" => Idle(e) /\ Rests(e, b) /\ b.closed
    /\ pc # "reset" =>
         IF pc # "collect" /\ e \in DOMAIN batch
         THEN /\ Idle(e) /\ Is(e, batch[e]) /\ position[e].resets > 0
              /\ counter[e] = position[e].steps
              /\ e \in flags <=> position[e].steps = MaxSteps
              /\ pc = "store_returns" => Holds(e, b, batch[e])
              /\ pc = "store_responses" => Waits(b, batch[e])
              /\ pc \in {"step_async", "done"} => Rests(e, b)
         ELSE Away(e, b) /\ counter[e] = IF b.closed THEN -1 ELSE b.row.steps

\* The returns that the rsl loop goes on with after MaxSteps steps.
Finished(e, b, r) ==
    Idle(e) /\ Is(e, r) /\ ~b.closed /\ r.steps % MaxSteps = 0

RslFront(e, b) ==
    /\ pc \in {"reset", "store_returns", "step_async", "store_responses", "collect", "store_last",
               "store_last_responses", "truncate", "rolled_out", "sampled", "done"}
    /\ flags = {} /\ counter[e] = -1
    /\ pc = "reset" => Idle(e) /\ Rests(e, b) /\ b.closed /\ b.row.resets = 0 /\ e \notin DOMAIN last /\ taken[e] = 0
    /\ pc \in {"store_returns", "step_async", "store_responses", "collect"} =>
         IF e \in DOMAIN last
         THEN /\ Finished(e, b, last[e]) /\ Holds(e, b, last[e])
              /\ pc # "collect" => e \notin DOMAIN batch
         ELSE IF pc # "collect" /\ e \in DOMAIN batch
         THEN /\ taken[e] < MaxSteps /\ batch[e].steps % MaxSteps = taken[e]
              /\ b.closed <=> taken[e] = 0
              /\ batch[e].env = e /\ batch[e].resets > 0
              /\ pc # "store_responses" => Idle(e) /\ Is(e, batch[e])
              /\ IF pc = "store_returns" THEN Holds(e, b, batch[e]) ELSE Waits(b, batch[e])
              /\ pc = "store_responses" =>
                   Away(e, [row |-> batch[e], cur |-> batch[e], phase |-> "return", closed |-> FALSE])
         ELSE /\ Away(e, b) /\ ~b.closed
              /\ taken[e] < MaxSteps /\ b.row.steps % MaxSteps = taken[e]
    /\ pc = "store_last" => e \in DOMAIN last /\ Finished(e, b, last[e]) /\ Holds(e, b, last[e])
    /\ pc = "store_last_responses" =>
         e \in DOMAIN last /\ batch = last /\ Finished(e, b, last[e]) /\ Waits(b, last[e])
    /\ pc \in {"truncate", "rolled_out", "sampled", "done"} =>
         /\ e \in DOMAIN batch /\ Idle(e) /\ Is(e, batch[e]) /\ b.row = batch[e] /\ b.row.resets > 0
         /\ batch[e].steps % MaxSteps = 0
    /\ pc = "truncate" => b.phase = "truncate"
    /\ pc \in {"rolled_out", "sampled", "done"} =>
         Rests(e, b) /\ b.closed /\ taken[e] = 0 /\ e \notin DOMAIN last

InRange(e) == counter[e] \in -1..MaxSteps /\ iter \in 0..MaxSteps /\ taken[e] \in 0..MaxSteps

AtFront(e, b) ==
    /\ InRange(e)
    /\ loop = "sync" => SyncFront(e, b)
    /\ loop = "async" => AsyncFront(e, b)
    /\ loop = "rsl" => RslFront(e, b)

\* RSLRLEngine restarts an episode from its last return, which an auto-truncating buffer
\* has pushed already: the two are not used together.
NoAutoRsl == loop = "rsl" => ~auto

-----------------------------------------------------------------------------
(***************************************************************************)
(* The sampling thread and the shards.                                     *)
(***************************************************************************)
Sampled == {"size", "get", "clear"}
In_(q, op) == {i \in DOMAIN q : q[i].op = op}
Asked(s) == \E i \in 1..asked : shards[i] = s

\* In the calls that wait, those of a sample are in order.
Line(q) ==
    /\ \A op \in {"size", "get"} : \A i, j \in In_(q, op) : i = j
    /\ \A i \in In_(q, "get"), j \in In_(q, "clear") : i < j
    /\ \A i \in In_(q, "get") \cup In_(q, "clear"), j \in In_(q, "size") : i < j

\* The shard has told its size n, and the sample goes on from there.
Sized(sp, ask, n) == (sp \in Rounds /\ ask /\ n >= 0) \/ sp = "get"

\* What waits fits what the thread sp waits for.
Asking(q, sp, ask, n) ==
    /\ In_(q, "get") # {} => sp = "clear" \/ In_(q, "clear") # {}
    /\ In_(q, "size") # {} => sp \in Rounds /\ ask /\ n = -1
    /\ Sized(sp, ask, n) => \A op \in Sampled : In_(q, op) = {}
    /\ sp = "clear" => In_(q, "clear") = {} /\ In_(q, "size") = {}

\* The first m episodes of the container st are those last counted, n rows.
Told(st, cn, n) ==
    \E m \in 0..Len(st) : n = LengthOf(SubSeq(st, 1, m)) /\ cn = ToSet(SubSeq(st, 1, m))

\* The shard was read by the sample that is not cleared yet.
Got(q, sp) == In_(q, "get") = {} /\ (sp = "clear" \/ In_(q, "clear") # {})

SamplerInv(s) ==
    /\ Line(mailbox[s]) /\ Asking(mailbox[s], spc, Asked(s), sizes[s])
    /\ Sized(spc, Asked(s), sizes[s]) => Told(stored[s], counted[s], sizes[s])
    /\ \A i \in In_(mailbox[s], "get") : Told(stored[s], counted[s], mailbox[s][i].n)
    /\ Got(mailbox[s], spc) => counted[s] \subseteq delivered
    /\ ~Got(mailbox[s], spc) => ToSet(stored[s]) \cap delivered = {}
    /\ \A p \in dropped : HasRows(p) => p \notin counted[s] /\ p \notin ToSet(stored[s])
    /\ \A p \in counted[s] : HasRows(p) /\ shardOf[p.key[1]] = s /\ p \in Pushed

-----------------------------------------------------------------------------
(***************************************************************************)
(* The types, with what every value is about.                              *)
(***************************************************************************)
Positions == [resets : Nat, steps : Nat]

\* Calls are executed where the environments they are about are kept.
Placed(s, c) ==
    /\ Carries(c) => shardOf[c.ret.env] = s
    /\ c.op = "truncate" =>
         /\ \A i \in DOMAIN c.envs : shardOf[c.envs[i]] = s
         /\ \A i, j \in DOMAIN c.envs : c.envs[i] = c.envs[j] => i = j
         /\ loop # "rsl" => Len(c.envs) = 1

OfEnv(e, r) == r \in Returns /\ r.env = e

EnvTyped ==
    /\ counter \in [Envs -> Int] /\ task \in [Envs -> {"none", "step", "reset"}]
    /\ DOMAIN result = Envs
    /\ \A e \in Envs : result[e] = {} \/ \E r : OfEnv(e, r) /\ result[e] = {r}
    /\ position \in [Envs -> Positions]

RollTyped ==
    /\ loop \in {"sync", "rsl", "async"} /\ running \in BOOLEAN
    /\ DOMAIN batch \subseteq Envs /\ \A e \in DOMAIN batch : OfEnv(e, batch[e])
    /\ DOMAIN last \subseteq Envs /\ \A e \in DOMAIN last : OfEnv(e, last[e])
    /\ flags \subseteq Envs /\ iter \in Nat /\ taken \in [Envs -> Nat]
    /\ epochs \in Nat /\ (pc # "done" => epochs > 0)
    /\ rollout_epoch \in Nat /\ round \in 1..rollout_epoch

SampleTyped ==
    /\ spc \in {"idle", "poll", "check", "sizes", "get", "clear", "failed"}
    /\ loop # "async" /\ spc # "idle" => pc = "rolled_out"
    /\ asked \in 0..Len(shards) /\ samples \in Nat

ShardTyped ==
    /\ auto \in BOOLEAN /\ shardOf \in [Envs -> Shards]
    /\ mailbox \in [Shards -> Seq(Calls)]
    /\ \A s \in Shards : \A c \in ToSet(mailbox[s]) : Placed(s, c)
    /\ current \in [Envs -> Seq(Returns)] /\ active \in [AllKeys -> Seq(Row)]
    /\ stored \in [Shards -> Seq(Episode)] /\ sizes \in [Shards -> Nat \cup {-1}]
    /\ \A s \in Shards : \A p \in ToSet(stored[s]) : HasRows(p) /\ shardOf[p.key[1]] = s
    /\ delivered \subseteq Episode /\ dropped \subseteq Episode
    /\ counted \in [Shards -> SUBSET Episode] /\ torn \subseteq Envs

Typed ==
    /\ \E c \in Configs : loop = c.loop /\ auto = c.auto
    /\ EnvTyped /\ RollTyped /\ SampleTyped /\ ShardTyped
-----------------------------------------------------------------------------
(***************************************************************************)
(* Induction over the natural numbers, and what it says of FlattenSeq.     *)
(***************************************************************************)
\* A set of numbers has a least one.
LEMMA Least ==
    ASSUME NEW T, T \subseteq Nat, T # {}
    PROVE  \E x \in T : \A y \in T : x <= y
<1> DEFINE R == {ss \in Nat \X Nat : ss[1] < ss[2]}
<1>1. IsWellFoundedOn(R, Nat)
  <2>1. R = OpToRel(<, Nat)
        BY DEF OpToRel
  <2> QED BY <2>1, NatLessThanWellFounded
<1>2. PICK x \in T : \A y \in T : ~(<<y, x>> \in R)
  <2> HIDE DEF R
  <2> QED BY <1>1, WFMin
<1> SUFFICES ASSUME NEW y \in T, ~(x <= y) PROVE FALSE
    BY <1>2
<1>3. <<y, x>> \in Nat \X Nat /\ y < x
      OBVIOUS
<1>4. <<y, x>> \in R
      BY <1>3
<1> QED BY <1>2, <1>4

\* Induction over the natural numbers, for a set in place of a formula.
LEMMA SetInduction ==
    ASSUME NEW S, 0 \in S, \A n \in Nat : n \in S => n + 1 \in S
    PROVE  Nat \subseteq S
<1> SUFFICES ASSUME Nat \ S # {} PROVE FALSE
    OBVIOUS
<1>1. PICK x \in Nat \ S : \A y \in Nat \ S : x <= y
      BY Least
<1>2. x - 1 \in Nat /\ ~(x <= x - 1) /\ (x - 1) + 1 = x
      BY <1>1
<1> QED BY <1>1, <1>2

\* What the function inside FlattenSeq satisfies.
FlattensTo(f, ss, n) == f = [i \in 1..n |-> IF i = 1 THEN ss[i] ELSE f[i - 1] \o ss[i]]

\* The recursive function inside FlattenSeq exists, for any sequence of sequences.
LEMMA FlattenExists ==
    ASSUME NEW T, NEW ss \in Seq(Seq(T)), NEW n \in 1..Len(ss)
    PROVE  \E f : FlattensTo(f, ss, n)
<1> DEFINE S == {k \in Nat : k \in 1..Len(ss) => \E f : FlattensTo(f, ss, k)}
<1>1. 0 \in S
      OBVIOUS
<1>2. ASSUME NEW k \in Nat, k \in S PROVE k + 1 \in S
  <2> SUFFICES ASSUME k + 1 \in 1..Len(ss) PROVE \E f : FlattensTo(f, ss, k + 1)
      OBVIOUS
  <2>1. CASE k = 0
    <3> DEFINE g == [i \in 1..1 |-> ss[1]]
    <3>1. g = [i \in 1..1 |-> IF i = 1 THEN ss[i] ELSE g[i - 1] \o ss[i]]
          OBVIOUS
    <3>2. FlattensTo(g, ss, 1)
          BY <3>1 DEF FlattensTo
    <3> QED BY <2>1, <3>2
  <2>2. CASE k # 0
    <3>1. k \in 1..Len(ss)
          BY <2>2
    <3>2. PICK f : FlattensTo(f, ss, k)
          BY <1>2, <3>1
    <3> DEFINE g == [i \in 1..(k + 1) |-> IF i = k + 1 THEN f[k] \o ss[k + 1] ELSE f[i]]
    <3>3. \A i \in 1..k : f[i] = IF i = 1 THEN ss[i] ELSE f[i - 1] \o ss[i]
          BY <3>2 DEF FlattensTo
    <3>4. \A i \in 1..(k + 1) : g[i] = IF i = 1 THEN ss[i] ELSE g[i - 1] \o ss[i]
      <4> SUFFICES ASSUME NEW i \in 1..(k + 1)
                   PROVE  g[i] = IF i = 1 THEN ss[i] ELSE g[i - 1] \o ss[i]
          OBVIOUS
      <4>1. CASE i = k + 1
        <5>1. i - 1 = k /\ k \in 1..(k + 1) /\ k # k + 1 /\ i # 1
              BY <2>2, <4>1
        <5>2. g[k] = f[k]
              BY <5>1
        <5> QED BY <4>1, <5>1, <5>2
      <4>2. CASE i # k + 1 /\ i = 1
            BY <3>3, <4>2
      <4>3. CASE i # k + 1 /\ i # 1
        <5>1. i \in 1..k /\ i - 1 \in 1..(k + 1) /\ i - 1 # k + 1
              BY <4>3
        <5>2. g[i] = f[i] /\ g[i - 1] = f[i - 1]
              BY <4>3, <5>1
        <5> QED BY <3>3, <4>3, <5>1, <5>2
      <4> QED BY <4>1, <4>2, <4>3
    <3>5. g = [i \in 1..(k + 1) |-> IF i = 1 THEN ss[i] ELSE g[i - 1] \o ss[i]]
      <4>1. g = [i \in 1..(k + 1) |-> g[i]]
            OBVIOUS
      <4> HIDE DEF g
      <4> QED BY <3>4, <4>1
    <3> QED BY <3>5 DEF FlattensTo
  <2> QED BY <2>1, <2>2
<1>3. Nat \subseteq S
  <2> HIDE DEF S
  <2> QED BY <1>1, <1>2, SetInduction
<1> QED BY <1>3

\* FlattenSeq is the last value of that function.
LEMMA FlattenIs ==
    ASSUME NEW T, NEW ss \in Seq(Seq(T)), ss # <<>>
    PROVE  \E f : FlattensTo(f, ss, Len(ss)) /\ FlattenSeq(ss) = f[Len(ss)]
<1> DEFINE f == CHOOSE g : FlattensTo(g, ss, Len(ss))
<1>1. Len(ss) \in 1..Len(ss) /\ Len(ss) # 0
      OBVIOUS
<1>2. \E g : FlattensTo(g, ss, Len(ss))
      BY <1>1, FlattenExists
<1>3. FlattensTo(f, ss, Len(ss))
      BY <1>2
<1>4. FlattenSeq(ss) = f[Len(ss)]
      BY <1>1 DEF FlattenSeq, FlattensTo
<1> QED BY <1>3, <1>4

\* What holds of the empty sequence and goes on holding when the next part is added holds of
\* the flattened sequence; P is the set of the [number of parts, sequence] of which it holds.
LEMMA FlattenBy ==
    ASSUME NEW T, NEW ss \in Seq(Seq(T)), NEW P, <<0, <<>>>> \in P,
           \A i \in 1..Len(ss) : \A q \in Seq(T) : <<i - 1, q>> \in P => <<i, q \o ss[i]>> \in P
    PROVE  FlattenSeq(ss) \in Seq(T) /\ <<Len(ss), FlattenSeq(ss)>> \in P
<1>1. CASE ss = <<>>
  <2>1. FlattenSeq(ss) = <<>> /\ Len(ss) = 0
        BY <1>1 DEF FlattenSeq
  <2> QED BY <2>1
<1>2. CASE ss # <<>>
  <2>1. PICK f : FlattensTo(f, ss, Len(ss)) /\ FlattenSeq(ss) = f[Len(ss)]
        BY <1>2, FlattenIs
  <2> DEFINE n == Len(ss)
             S == {i \in Nat : i \in 1..n => f[i] \in Seq(T) /\ <<i, f[i]>> \in P}
  <2>2. n \in Nat \ {0} /\ \A i \in 1..n : ss[i] \in Seq(T)
        BY <1>2
  <2>3. \A i \in 1..n : f[i] = IF i = 1 THEN ss[i] ELSE f[i - 1] \o ss[i]
        BY <2>1 DEF FlattensTo
  <2>4. 0 \in S
        OBVIOUS
  <2>5. ASSUME NEW i \in Nat, i \in S PROVE i + 1 \in S
    <3> SUFFICES ASSUME i + 1 \in 1..n PROVE f[i + 1] \in Seq(T) /\ <<i + 1, f[i + 1]>> \in P
        OBVIOUS
    <3>1. (i + 1) - 1 = i
          OBVIOUS
    <3>2. CASE i = 0
      <4>1. <<>> \in Seq(T) /\ <<>> \o ss[1] = ss[1] /\ f[1] = ss[1] /\ ss[1] \in Seq(T)
        <5>1. ss[1] \in Seq(T) /\ f[1] = ss[1]
              BY <2>2, <2>3, <3>2
        <5> QED BY <5>1, ConcatEmptySeq
      <4>2. 1 \in 1..Len(ss) /\ 1 - 1 = 0 /\ i + 1 = 1
            BY <3>2
      <4>3. <<1 - 1, <<>>>> \in P
            BY <4>2
      <4>4. <<1, <<>> \o ss[1]>> \in P
            BY <4>1, <4>2, <4>3
      <4>5. f[1] \in Seq(T) /\ <<1, f[1]>> \in P
            BY <4>1, <4>4
      <4> QED BY <4>2, <4>5
    <3>3. CASE i # 0
      <4>1. i \in 1..n /\ i + 1 # 1
            BY <2>2, <3>3
      <4>2. f[i] \in Seq(T) /\ <<i, f[i]>> \in P
            BY <2>5, <4>1
      <4>3. f[i + 1] = f[i] \o ss[i + 1] /\ ss[i + 1] \in Seq(T)
            BY <2>2, <2>3, <3>1, <4>1
      <4>4. f[i] \o ss[i + 1] \in Seq(T)
            BY <4>2, <4>3, ConcatProperties
      <4> QED BY <3>1, <4>2, <4>3, <4>4
    <3> QED BY <3>2, <3>3
  <2>6. Nat \subseteq S
    <3> HIDE DEF S
    <3> QED BY <2>4, <2>5, SetInduction
  <2>7. n \in S /\ n \in 1..n
        BY <2>2, <2>6
  <2> QED BY <2>1, <2>7
<1> QED BY <1>1, <1>2

\* The elements of a flattened sequence are those of its parts.
LEMMA Flattened ==
    ASSUME NEW T, NEW ss \in Seq(Seq(T))
    PROVE  /\ FlattenSeq(ss) \in Seq(T)
           /\ \A r \in DOMAIN FlattenSeq(ss) :
                 \E i \in DOMAIN ss : \E k \in DOMAIN ss[i] : FlattenSeq(ss)[r] = ss[i][k]
           /\ \A i \in DOMAIN ss : \A k \in DOMAIN ss[i] :
                 \E r \in DOMAIN FlattenSeq(ss) : FlattenSeq(ss)[r] = ss[i][k]
<1> DEFINE Fits(n, q) ==
              /\ \A r \in DOMAIN q : \E i \in 1..n : \E k \in DOMAIN ss[i] : q[r] = ss[i][k]
              /\ \A i \in 1..n : \A k \in DOMAIN ss[i] : \E r \in DOMAIN q : q[r] = ss[i][k]
           P == {np \in Nat \X Seq(T) : Fits(np[1], np[2])}
<1>1. <<0, <<>>>> \in P
  <2>1. DOMAIN <<>> = {} /\ 1..0 = {} /\ <<>> \in Seq(T)
        OBVIOUS
  <2>2. Fits(0, <<>>)
        BY <2>1
  <2> HIDE DEF Fits
  <2> QED BY <2>1, <2>2
<1>2. ASSUME NEW n \in 1..Len(ss), NEW q \in Seq(T), <<n - 1, q>> \in P
      PROVE  <<n, q \o ss[n]>> \in P
  <2>1. ss[n] \in Seq(T) /\ n \in Nat /\ n - 1 \in Nat
        OBVIOUS
  <2>2. Fits(n - 1, q)
        BY <1>2
  <2> DEFINE t == ss[n]
             Q == q \o t
             L == Len(q)
  <2>3. /\ Q \in Seq(T) /\ L \in Nat /\ DOMAIN q = 1..L /\ DOMAIN t = 1..Len(t) /\ Len(t) \in Nat
        /\ DOMAIN Q = 1..(L + Len(t))
        /\ \A r \in 1..L : Q[r] = q[r]
        /\ \A k \in 1..Len(t) : Q[L + k] = t[k]
    <3> HIDE DEF t
    <3>1. t \in Seq(T)
          BY <2>1 DEF t
    <3>2. Q \in Seq(T) /\ Len(Q) = L + Len(t)
          BY <3>1, ConcatProperties
    <3>3. \A r \in 1..Len(Q) : Q[r] = IF r <= L THEN q[r] ELSE t[r - L]
          BY <3>1, ConcatProperties
    <3>4. L \in Nat /\ Len(t) \in Nat
          BY <3>1
    <3> HIDE DEF Q, L
    <3>5. \A r \in 1..L : r \in 1..Len(Q) /\ r <= L
          BY <3>2, <3>4
    <3>6. \A k \in 1..Len(t) : L + k \in 1..Len(Q) /\ ~(L + k <= L) /\ (L + k) - L = k
          BY <3>2, <3>4
    <3>7. DOMAIN q = 1..L /\ DOMAIN t = 1..Len(t) /\ DOMAIN Q = 1..(L + Len(t))
          BY <3>1, <3>2 DEF L
    <3> QED BY <3>2, <3>3, <3>4, <3>5, <3>6, <3>7
  <2> HIDE DEF Q, L
  <2>4. \A i \in 1..n : i \in 1..(n - 1) \/ i = n
        BY <2>1
  <2>5. \A i \in 1..(n - 1) : i \in 1..n
        BY <2>1
  <2>6. ASSUME NEW r \in DOMAIN Q PROVE \E i \in 1..n : \E k \in DOMAIN ss[i] : Q[r] = ss[i][k]
    <3>1. CASE r \in 1..L
      <4>1. PICK i \in 1..(n - 1) : \E k \in DOMAIN ss[i] : q[r] = ss[i][k]
            BY <2>2, <2>3, <3>1
      <4>2. i \in 1..n /\ Q[r] = q[r]
            BY <2>3, <2>5, <3>1
      <4> QED BY <4>1, <4>2
    <3>2. CASE r \notin 1..L
      <4>1. r - L \in 1..Len(t) /\ L + (r - L) = r
            BY <2>3, <3>2
      <4>2. Q[r] = t[r - L] /\ n \in 1..n
            BY <2>1, <2>3, <4>1
      <4> QED BY <2>3, <4>1, <4>2
    <3> QED BY <3>1, <3>2
  <2>7. ASSUME NEW i \in 1..n, NEW k \in DOMAIN ss[i] PROVE \E r \in DOMAIN Q : Q[r] = ss[i][k]
    <3>1. CASE i \in 1..(n - 1)
      <4>1. PICK r \in 1..L : q[r] = ss[i][k]
            BY <2>2, <2>3, <3>1
      <4>2. r \in 1..(L + Len(t))
            BY <2>3
      <4> QED BY <2>3, <4>1, <4>2
    <3>2. CASE i = n
      <4>1. k \in 1..Len(t) /\ Q[L + k] = t[k]
            BY <2>3, <3>2
      <4>2. L + k \in 1..(L + Len(t))
            BY <2>3, <4>1
      <4> QED BY <2>3, <3>2, <4>1, <4>2
    <3> QED BY <2>4, <3>1, <3>2
  <2>8. Fits(n, Q)
        BY <2>6, <2>7
  <2> HIDE DEF Fits
  <2> QED BY <2>1, <2>3, <2>8 DEF Q
<1> HIDE DEF P
<1>3. FlattenSeq(ss) \in Seq(T) /\ <<Len(ss), FlattenSeq(ss)>> \in P
      BY <1>1, <1>2, FlattenBy
<1>4. Fits(Len(ss), FlattenSeq(ss))
      BY <1>3 DEF P
<1>5. DOMAIN ss = 1..Len(ss)
      OBVIOUS
<1> QED BY <1>3, <1>4, <1>5

\* Two sequences in one.
LEMMA Joined ==
    ASSUME NEW T, NEW q \in Seq(T), NEW t \in Seq(T)
    PROVE  /\ q \o t \in Seq(T) /\ Len(q \o t) = Len(q) + Len(t)
           /\ DOMAIN (q \o t) = 1..(Len(q) + Len(t))
           /\ \A i \in 1..Len(q) : (q \o t)[i] = q[i]
           /\ \A i \in 1..Len(t) : (q \o t)[Len(q) + i] = t[i]
           /\ ToSet(q \o t) = ToSet(q) \cup ToSet(t)
<1> DEFINE Q == q \o t
           L == Len(q)
           M == Len(t)
<1>1. Q \in Seq(T) /\ Len(Q) = L + M /\ \A r \in 1..Len(Q) : Q[r] = IF r <= L THEN q[r] ELSE t[r - L]
      BY ConcatProperties
<1>2. L \in Nat /\ M \in Nat /\ DOMAIN q = 1..L /\ DOMAIN t = 1..M
      OBVIOUS
<1> HIDE DEF Q, L, M
<1>3. DOMAIN Q = 1..(L + M)
      BY <1>1
<1>4. \A i \in 1..L : Q[i] = q[i] /\ i \in DOMAIN Q
  <2>1. \A i \in 1..L : i \in 1..Len(Q) /\ i <= L
        BY <1>1, <1>2
  <2> QED BY <1>1, <1>3, <2>1
<1>5. \A i \in 1..M : Q[L + i] = t[i] /\ L + i \in DOMAIN Q
  <2>1. \A i \in 1..M : L + i \in 1..Len(Q) /\ ~(L + i <= L) /\ (L + i) - L = i
        BY <1>1, <1>2
  <2> QED BY <1>1, <1>3, <2>1
<1>6. ASSUME NEW r \in DOMAIN Q PROVE Q[r] \in ToSet(q) \cup ToSet(t)
  <2>1. CASE r \in 1..L
        BY <1>2, <1>4, <2>1 DEF ToSet
  <2>2. CASE r \notin 1..L
    <3>1. r - L \in 1..M /\ L + (r - L) = r
          BY <1>2, <1>3, <2>2
    <3> QED BY <1>2, <1>5, <3>1 DEF ToSet
  <2> QED BY <2>1, <2>2
<1>7. \A y \in ToSet(q) \cup ToSet(t) : y \in ToSet(Q)
      BY <1>2, <1>4, <1>5 DEF ToSet
<1>8. ToSet(Q) = ToSet(q) \cup ToSet(t)
  <2>1. \A y \in ToSet(Q) : y \in ToSet(q) \cup ToSet(t)
        BY <1>6 DEF ToSet
  <2> QED BY <1>7, <2>1
<1> QED BY <1>1, <1>3, <1>4, <1>5, <1>8 DEF Q, L, M

-----------------------------------------------------------------------------
(***************************************************************************)
(* Sequences of calls that lead from stance to stance.                     *)
(***************************************************************************)
LEMMA LeadsNowhere ==
    ASSUME NEW x, NEW e, NEW a \in Stances(x, e), NEW T, NEW q \in Seq(T),
           \A i \in DOMAIN q : ~Concerns(e, q[i])
    PROVE  Leads(x, e, a, q, a)
<1> DEFINE st == [i \in 0..Len(q) |-> a]
<1>1. Len(q) \in Nat /\ DOMAIN q = 1..Len(q)
      OBVIOUS
<1>2. st \in [0..Len(q) -> Stances(x, e)] /\ st[0] = a /\ st[Len(q)] = a
      BY <1>1
<1>3. \A i \in 1..Len(q) : Does(x, e, st[i - 1], q[i], st[i])
  <2>1. \A i \in 1..Len(q) : i \in 0..Len(q) /\ i - 1 \in 0..Len(q)
        BY <1>1
  <2> QED BY <1>1, <2>1 DEF Does
<1> HIDE DEF st
<1> QED BY <1>2, <1>3 DEF Leads

LEMMA LeadsOne ==
    ASSUME NEW x, NEW e, NEW a \in Stances(x, e), NEW c, NEW b \in Stances(x, e),
           Does(x, e, a, c, b)
    PROVE  Leads(x, e, a, <<c>>, b)
<1> DEFINE st == [i \in 0..1 |-> IF i = 0 THEN a ELSE b]
           q == <<c>>
<1>1. Len(q) = 1 /\ q[1] = c
      OBVIOUS
<1>2. st \in [0..1 -> Stances(x, e)] /\ st[0] = a /\ st[1] = b
      OBVIOUS
<1>3. \A i \in 1..1 : i = 1 /\ i - 1 = 0
      OBVIOUS
<1> HIDE DEF st, q
<1>4. \A i \in 1..Len(q) : Does(x, e, st[i - 1], q[i], st[i])
      BY <1>1, <1>2, <1>3
<1> QED BY <1>1, <1>2, <1>4 DEF Leads, q

LEMMA LeadsOn ==
    ASSUME NEW x, NEW e, NEW T, NEW q \in Seq(T), NEW t \in Seq(T), NEW a, NEW b, NEW d,
           Leads(x, e, a, q, b), Leads(x, e, b, t, d)
    PROVE  Leads(x, e, a, q \o t, d)
<1>1. PICK f \in [0..Len(q) -> Stances(x, e)] :
          /\ f[0] = a /\ f[Len(q)] = b
          /\ \A i \in 1..Len(q) : Does(x, e, f[i - 1], q[i], f[i])
      BY DEF Leads
<1>2. PICK g \in [0..Len(t) -> Stances(x, e)] :
          /\ g[0] = b /\ g[Len(t)] = d
          /\ \A i \in 1..Len(t) : Does(x, e, g[i - 1], t[i], g[i])
      BY DEF Leads
<1> DEFINE L == Len(q)
           M == Len(t)
           Q == q \o t
           st == [i \in 0..(L + M) |-> IF i <= L THEN f[i] ELSE g[i - L]]
<1>3. L \in Nat /\ M \in Nat /\ Len(Q) = L + M
      BY ConcatProperties
<1>4. \A i \in 1..(L + M) : Q[i] = IF i <= L THEN q[i] ELSE t[i - L]
      BY <1>3, ConcatProperties
<1> HIDE DEF L, M, Q
<1>5. \A i \in 0..(L + M) : i <= L => i \in 0..L /\ st[i] = f[i]
      BY <1>3
<1>6. \A i \in 0..(L + M) : i >= L => i - L \in 0..M /\ st[i] = g[i - L]
  <2> SUFFICES ASSUME NEW i \in 0..(L + M), i >= L
               PROVE  i - L \in 0..M /\ st[i] = g[i - L]
      OBVIOUS
  <2>1. i - L \in 0..M
        BY <1>3
  <2>2. CASE i = L
    <3>1. i - L = 0 /\ L \in 0..L
          BY <1>3, <2>2
    <3>2. st[i] = f[L] /\ f[L] = b
          BY <1>1, <1>5, <2>2 DEF L
    <3> QED BY <1>2, <2>1, <3>1, <3>2
  <2>3. CASE i # L
    <3>1. ~(i <= L)
          BY <1>3, <2>3
    <3> QED BY <2>1, <3>1
  <2> QED BY <2>2, <2>3
<1>7. st \in [0..(L + M) -> Stances(x, e)]
  <2>1. \A i \in 0..(L + M) : (i <= L => i \in 0..L) /\ (~(i <= L) => i - L \in 0..M)
        BY <1>3
  <2>2. f \in [0..L -> Stances(x, e)] /\ g \in [0..M -> Stances(x, e)]
        BY DEF L, M
  <2> QED BY <2>1, <2>2
<1>8. st[0] = a /\ st[L + M] = d
  <2>1. 0 \in 0..(L + M) /\ 0 <= L /\ L + M \in 0..(L + M) /\ L + M >= L /\ (L + M) - L = M
        BY <1>3
  <2> HIDE DEF st
  <2>2. st[0] = f[0] /\ st[L + M] = g[M]
        BY <1>5, <1>6, <2>1
  <2> QED BY <1>1, <1>2, <2>2 DEF M
<1> HIDE DEF st
<1>9. ASSUME NEW i \in 1..(L + M) PROVE Does(x, e, st[i - 1], Q[i], st[i])
  <2>1. i \in 0..(L + M) /\ i - 1 \in 0..(L + M)
        BY <1>3
  <2>2. CASE i <= L
    <3>1. i \in 1..Len(q) /\ i - 1 <= L
          BY <1>3, <2>2 DEF L
    <3>2. st[i] = f[i] /\ st[i - 1] = f[i - 1] /\ Q[i] = q[i]
          BY <1>4, <1>5, <2>1, <2>2, <3>1
    <3> QED BY <1>1, <3>1, <3>2
  <2>3. CASE ~(i <= L)
    <3>1. i >= L /\ i - 1 >= L /\ i - L \in 1..M /\ (i - 1) - L = (i - L) - 1
          BY <1>3, <2>3
    <3>2. st[i] = g[i - L] /\ st[i - 1] = g[(i - L) - 1] /\ Q[i] = t[i - L]
          BY <1>4, <1>6, <2>1, <2>3, <3>1
    <3> QED BY <1>2, <3>1, <3>2 DEF M
  <2> QED BY <2>2, <2>3
<1>10. \E s \in [0..Len(Q) -> Stances(x, e)] :
          /\ s[0] = a /\ s[Len(Q)] = d
          /\ \A i \in 1..Len(Q) : Does(x, e, s[i - 1], Q[i], s[i])
       BY <1>3, <1>7, <1>8, <1>9
<1> QED BY <1>10 DEF Leads, Q

LEMMA LeadsNext ==
    ASSUME NEW x, NEW e, NEW T, NEW q \in Seq(T), q # <<>>, NEW a, NEW b, Leads(x, e, a, q, b)
    PROVE  \E d \in Stances(x, e) : Does(x, e, a, Head(q), d) /\ Leads(x, e, d, Tail(q), b)
<1>1. PICK f \in [0..Len(q) -> Stances(x, e)] :
          /\ f[0] = a /\ f[Len(q)] = b
          /\ \A i \in 1..Len(q) : Does(x, e, f[i - 1], q[i], f[i])
      BY DEF Leads
<1> DEFINE n == Len(q) - 1
           t == Tail(q)
           g == [i \in 0..n |-> f[i + 1]]
<1>2. /\ n \in Nat /\ Len(q) = n + 1 /\ Len(t) = n /\ Head(q) = q[1]
      /\ \A i \in 1..n : t[i] = q[i + 1]
      BY HeadTailProperties
<1> HIDE DEF n, t
<1>3. \A i \in 0..n : i + 1 \in 0..Len(q)
      BY <1>2
<1>4. g \in [0..n -> Stances(x, e)]
      BY <1>3
<1>5. g[0] = f[1] /\ g[n] = b
  <2>1. 0 \in 0..n /\ n \in 0..n /\ 0 + 1 = 1
        BY <1>2
  <2> QED BY <1>1, <1>2, <2>1
<1>6. ASSUME NEW i \in 1..n PROVE Does(x, e, g[i - 1], t[i], g[i])
  <2>1. i + 1 \in 1..Len(q) /\ (i + 1) - 1 = (i - 1) + 1 /\ i \in 0..n /\ i - 1 \in 0..n
        BY <1>2
  <2>2. Does(x, e, f[(i + 1) - 1], q[i + 1], f[i + 1])
        BY <1>1, <2>1
  <2> QED BY <1>2, <2>1, <2>2
<1> HIDE DEF g
<1>7. Leads(x, e, f[1], t, b)
      BY <1>2, <1>4, <1>5, <1>6 DEF Leads
<1>8. 1 \in 1..Len(q) /\ 1 - 1 = 0 /\ 1 \in 0..Len(q)
      BY <1>2
<1>9. Does(x, e, a, Head(q), f[1]) /\ f[1] \in Stances(x, e)
  <2>1. Does(x, e, f[1 - 1], q[1], f[1])
        BY <1>1, <1>8
  <2> QED BY <1>1, <1>2, <1>8, <2>1
<1> QED BY <1>7, <1>9 DEF t

LEMMA LeadsWithin ==
    ASSUME NEW x, NEW e, NEW T, NEW q \in Seq(T), NEW a, NEW b, Leads(x, e, a, q, b)
    PROVE  a \in Stances(x, e) /\ b \in Stances(x, e)
<1>1. 0 \in 0..Len(q) /\ Len(q) \in 0..Len(q)
      OBVIOUS
<1> QED BY <1>1 DEF Leads

\* Calls lead to stances that are sound.
LEMMA Movement ==
    ASSUME NEW x \in BOOLEAN, NEW e \in Envs, NEW a \in Stances(x, e), NEW r \in Returns, r.env = e
    PROVE  /\ a.phase = "return" /\ Due(x, a, r) =>
                 Stored(a, r) \in Stances(x, e) /\ Grown(x, a, r) \in Stances(x, e)
           /\ a.phase = "response" /\ a.cur = r => Grown(x, a, r) \in Stances(x, e) /\ Due(x, a, r)
           /\ a.phase = "truncate" => Closed(a) \in Stances(x, e)
<1>1. /\ a \in Records /\ a.row.env = e /\ a.cur.env = e /\ Sound(x, a)
      /\ a.row \in Returns /\ a.cur \in Returns /\ a.phase \in Phases /\ a.closed \in BOOLEAN
      BY DEF Stances, Records
<1>2. MaxSteps \in Nat \ {0}
      BY MaxStepsAssumption
<1>3. /\ a.row.resets \in Nat /\ a.row.steps \in Nat
      /\ r.resets \in Nat /\ r.steps \in Nat
      BY <1>1 DEF Returns
<1>4. a.phase = "response" /\ a.cur = r => Due(x, a, r)
      BY <1>1 DEF Sound
<1>5. ASSUME a.phase = "return", Due(x, a, r) PROVE Stored(a, r) \in Stances(x, e)
  <2> DEFINE b == Stored(a, r)
  <2>1. b \in Records /\ b.row = a.row /\ b.cur = r /\ b.phase = "response" /\ b.closed = a.closed
        BY <1>1 DEF Stored, Records, Phases
  <2> HIDE DEF b
  <2>2. Due(x, b, b.cur)
        BY <1>5, <2>1 DEF Due
  <2>3. Sound(x, b)
        BY <1>1, <1>5, <2>1, <2>2 DEF Sound
  <2> QED BY <1>1, <2>1, <2>3 DEF Stances, b
<1>6. ASSUME a.phase # "truncate", Due(x, a, r) PROVE Grown(x, a, r) \in Stances(x, e)
  <2> DEFINE b == Grown(x, a, r)
  <2>1. /\ b \in Records /\ b.row = r /\ b.cur = r /\ b.closed = FALSE
        /\ b.phase = IF Full(x, a, r) THEN "truncate" ELSE "return"
        BY <1>1 DEF Grown, Records, Phases
  <2> HIDE DEF b
  <2>2. r.resets > 0
    <3>1. CASE ~a.closed
          BY <1>1, <1>3, <1>6, <3>1 DEF Due, Follows, Sound
    <3>2. CASE a.closed
          BY <1>3, <1>6, <3>2 DEF Due
    <3> QED BY <3>1, <3>2
  <2>3. x => r.steps <= MaxSteps
    <3>1. CASE ~a.closed
      <4>1. a.row.resets > 0
            BY <1>1, <1>3, <3>1 DEF Sound
      <4>2. x => a.row.steps < MaxSteps
            BY <1>1, <1>6, <3>1, <4>1 DEF Sound
      <4>3. r.steps = a.row.steps + 1
            BY <1>6, <3>1 DEF Due, Follows
      <4> QED BY <1>2, <1>3, <4>2, <4>3
    <3>2. CASE a.closed
          BY <1>2, <1>3, <1>6, <3>2 DEF Due
    <3> QED BY <3>1, <3>2
  <2>4. ~x => r.resets <= 1
    <3>1. ~x => a.row.resets <= 1
          BY <1>1 DEF Sound
    <3>2. CASE ~a.closed
          BY <1>6, <3>1, <3>2 DEF Due, Follows
    <3>3. CASE a.closed
          BY <1>3, <1>6, <3>1, <3>3 DEF Due
    <3> QED BY <3>2, <3>3
  <2>5. b.phase = "truncate" => IF x THEN r.steps = MaxSteps ELSE r.steps % MaxSteps = 0
        BY <2>1 DEF Full
  <2>6. x /\ b.phase # "truncate" => r.steps < MaxSteps
    <3>1. x /\ b.phase # "truncate" => r.steps # MaxSteps
          BY <2>1 DEF Full
    <3> QED BY <1>2, <1>3, <2>3, <3>1
  <2>7. b.phase # "response"
        BY <2>1
  <2>8. Sound(x, b)
        BY <1>3, <2>1, <2>2, <2>4, <2>5, <2>6, <2>7 DEF Sound
  <2> QED BY <2>1, <2>8 DEF Stances, b
<1>7. ASSUME a.phase = "truncate" PROVE Closed(a) \in Stances(x, e)
  <2> DEFINE b == Closed(a)
  <2>1. b \in Records /\ b.row = a.row /\ b.cur = a.cur /\ b.closed = TRUE /\ b.phase = "return"
        BY <1>1 DEF Closed, Records, Phases
  <2> HIDE DEF b
  <2>2. Sound(x, b)
        BY <1>1, <1>7, <2>1 DEF Sound
  <2> QED BY <1>1, <2>1, <2>2 DEF Stances, b
<1> QED BY <1>4, <1>5, <1>6, <1>7

-----------------------------------------------------------------------------
(***************************************************************************)
(* What the front end adds to the calls that wait at a shard.              *)
(***************************************************************************)

\* A finite set as a sequence.
LEMMA InTurn ==
    ASSUME NEW S, IsFiniteSet(S)
    PROVE  /\ SetToSeq(S) \in Seq(S) /\ Len(SetToSeq(S)) = Cardinality(S)
           /\ \A i, j \in DOMAIN SetToSeq(S) : SetToSeq(S)[i] = SetToSeq(S)[j] => i = j
           /\ \A d \in S : \E i \in DOMAIN SetToSeq(S) : SetToSeq(S)[i] = d
<1> DEFINE n == Cardinality(S)
           F == {f \in [1..n -> S] : IsInjective(f)}
<1>1. n \in Nat /\ \E f : f \in F
      BY FS_CardinalityType DEF ExistsBijection, Bijection, Injection
<1>2. SetToSeq(S) \in F
  <2>1. SetToSeq(S) = CHOOSE f : f \in F
        BY DEF SetToSeq
  <2> HIDE DEF F
  <2> QED BY <1>1, <2>1
<1> DEFINE q == SetToSeq(S)
<1> HIDE DEF q
<1>3. q \in [1..n -> S] /\ IsInjective(q)
      BY <1>2 DEF q
<1>4. q \in Surjection(1..n, S)
  <2>1. q \in Injection(1..n, S)
        BY <1>3 DEF Injection
  <2>2. Cardinality(1..n) = n
    <3>1. Cardinality(1..n) = IF 1 > n THEN 0 ELSE n - 1 + 1
          BY <1>1, FS_Interval, 1 \in Int, n \in Int
    <3> QED BY <1>1, <3>1
  <2> QED BY <2>1, <2>2, FS_Injection
<1>5. q \in Seq(S) /\ Len(q) = n /\ DOMAIN q = 1..n
      BY <1>1, <1>3
<1>6. \A d \in S : \E i \in DOMAIN q : q[i] = d
      BY <1>4, <1>5 DEF Surjection
<1> QED BY <1>3, <1>5, <1>6 DEF q, IsInjective

\* A call made for one environment.
CallFor(e, c) ==
    c \in Calls /\ ((Carries(c) /\ c.ret.env = e) \/ (c.op = "truncate" /\ c.envs = <<e>>))

CallsFor(calls) ==
    /\ DOMAIN calls \subseteq Envs
    /\ \A e \in DOMAIN calls : calls[e] \in Seq(Calls) /\ \A i \in DOMAIN calls[e] : CallFor(e, calls[e][i])

LEMMA ForOne ==
    ASSUME NEW d, NEW e, NEW c, CallFor(e, c)
    PROVE  (Concerns(d, c) <=> d = e) /\ c \in Calls
<1>1. c.op = "truncate" /\ c.envs = <<e>> => ToSet(c.envs) = {e}
  <2>1. ToSet(<<e>>) = {e}
        BY DEF ToSet
  <2> QED BY <2>1
<1>2. ~(Carries(c) /\ c.op = "truncate")
      BY DEF Carries
<1> QED BY <1>1, <1>2 DEF CallFor, Concerns

\* The parts of which the calls for a shard are made up.
Here(s, calls) == SetToSeq({e \in DOMAIN calls : shardOf[e] = s})
PartsFor(s, calls) == [i \in DOMAIN Here(s, calls) |-> calls[Here(s, calls)[i]]]

LEMMA PartsOf ==
    ASSUME NEW s, NEW calls, CallsFor(calls)
    PROVE  /\ DOMAIN Here(s, calls) = 1..Len(Here(s, calls)) /\ Len(Here(s, calls)) \in Nat
           /\ \A i \in DOMAIN Here(s, calls) :
                 Here(s, calls)[i] \in DOMAIN calls /\ shardOf[Here(s, calls)[i]] = s
           /\ PartsFor(s, calls) \in Seq(Seq(Calls))
           /\ Len(PartsFor(s, calls)) = Len(Here(s, calls))
           /\ DOMAIN PartsFor(s, calls) = DOMAIN Here(s, calls)
           /\ \A i \in DOMAIN Here(s, calls) : PartsFor(s, calls)[i] = calls[Here(s, calls)[i]]
           /\ CallsOn(s, calls) = FlattenSeq(PartsFor(s, calls))
           /\ \A i, j \in DOMAIN Here(s, calls) : Here(s, calls)[i] = Here(s, calls)[j] => i = j
           /\ \A e \in DOMAIN calls : shardOf[e] = s =>
                 \E i \in DOMAIN Here(s, calls) : Here(s, calls)[i] = e
<1> DEFINE S == {e \in DOMAIN calls : shardOf[e] = s}
           here == SetToSeq(S)
           parts == [i \in DOMAIN here |-> calls[here[i]]]
<1>1. IsFiniteSet(S)
  <2>1. S \in SUBSET Envs
        BY DEF CallsFor
  <2> QED BY <2>1, EnvsAssumption, FS_Subset
<1>2. /\ here \in Seq(S)
      /\ \A i, j \in DOMAIN here : here[i] = here[j] => i = j
      /\ \A d \in S : \E i \in DOMAIN here : here[i] = d
  <2> HIDE DEF S
  <2> QED BY <1>1, InTurn
<1>3. CallsOn(s, calls) = FlattenSeq(parts)
      BY DEF CallsOn
<1> HIDE DEF here
<1>4. DOMAIN here = 1..Len(here) /\ Len(here) \in Nat /\ \A i \in 1..Len(here) : here[i] \in S
      BY <1>2
<1>5. parts \in Seq(Seq(Calls)) /\ Len(parts) = Len(here) /\ DOMAIN parts = DOMAIN here
  <2>1. \A i \in 1..Len(here) : calls[here[i]] \in Seq(Calls)
        BY <1>4 DEF CallsFor
  <2>2. parts \in [1..Len(here) -> Seq(Calls)]
        BY <1>4, <2>1
  <2> QED BY <1>4, <2>2
<1>6. \A i \in DOMAIN here : parts[i] = calls[here[i]]
      OBVIOUS
<1> HIDE DEF parts
<1>7. here = Here(s, calls) /\ parts = PartsFor(s, calls)
      BY DEF here, parts, Here, PartsFor
<1>8. DOMAIN here = 1..Len(here) /\ Len(here) \in Nat
      BY <1>4
<1>9. \A i \in DOMAIN here : here[i] \in DOMAIN calls /\ shardOf[here[i]] = s
      BY <1>4
<1> QED BY <1>2, <1>3, <1>5, <1>6, <1>7, <1>8, <1>9

\* Of which elements they are.
LEMMA CallsOnAre ==
    ASSUME NEW s, NEW calls, CallsFor(calls)
    PROVE  /\ CallsOn(s, calls) \in Seq(Calls)
           /\ \A r \in DOMAIN CallsOn(s, calls) :
                 \E e \in DOMAIN calls : shardOf[e] = s /\ CallFor(e, CallsOn(s, calls)[r])
                                         /\ \E k \in DOMAIN calls[e] : CallsOn(s, calls)[r] = calls[e][k]
           /\ \A e \in DOMAIN calls : shardOf[e] = s => \A k \in DOMAIN calls[e] :
                 \E r \in DOMAIN CallsOn(s, calls) : CallsOn(s, calls)[r] = calls[e][k]
<1> DEFINE here == Here(s, calls)
           parts == PartsFor(s, calls)
           q == CallsOn(s, calls)
<1>1. /\ DOMAIN here = 1..Len(here) /\ Len(here) \in Nat
      /\ \A i \in DOMAIN here : here[i] \in DOMAIN calls /\ shardOf[here[i]] = s
      /\ parts \in Seq(Seq(Calls)) /\ DOMAIN parts = DOMAIN here
      /\ \A i \in DOMAIN here : parts[i] = calls[here[i]]
      /\ q = FlattenSeq(parts)
      /\ \A e \in DOMAIN calls : shardOf[e] = s => \E i \in DOMAIN here : here[i] = e
      BY PartsOf
<1> HIDE DEF q
<1>3. /\ q \in Seq(Calls)
      /\ \A r \in DOMAIN q : \E i \in DOMAIN parts : \E k \in DOMAIN parts[i] : q[r] = parts[i][k]
      /\ \A i \in DOMAIN parts : \A k \in DOMAIN parts[i] : \E r \in DOMAIN q : q[r] = parts[i][k]
  <2> HIDE DEF parts, here
  <2>1. parts \in Seq(Seq(Calls)) /\ q = FlattenSeq(parts)
        BY <1>1
  <2>2. /\ FlattenSeq(parts) \in Seq(Calls)
        /\ \A r \in DOMAIN FlattenSeq(parts) :
              \E i \in DOMAIN parts : \E k \in DOMAIN parts[i] : FlattenSeq(parts)[r] = parts[i][k]
        /\ \A i \in DOMAIN parts : \A k \in DOMAIN parts[i] :
              \E r \in DOMAIN FlattenSeq(parts) : FlattenSeq(parts)[r] = parts[i][k]
        BY <2>1, Flattened
  <2> QED BY <2>1, <2>2
<1>4. ASSUME NEW r \in DOMAIN q
      PROVE  \E e \in DOMAIN calls : /\ shardOf[e] = s /\ CallFor(e, q[r])
                                     /\ \E k \in DOMAIN calls[e] : q[r] = calls[e][k]
  <2>1. PICK i \in DOMAIN parts : \E k \in DOMAIN parts[i] : q[r] = parts[i][k]
        BY <1>3
  <2>2. here[i] \in DOMAIN calls /\ shardOf[here[i]] = s /\ parts[i] = calls[here[i]]
        BY <1>1
  <2>3. PICK k \in DOMAIN calls[here[i]] : q[r] = calls[here[i]][k]
        BY <2>1, <2>2
  <2>4. CallFor(here[i], q[r])
        BY <2>2, <2>3 DEF CallsFor
  <2> QED BY <2>2, <2>3, <2>4
<1>5. ASSUME NEW e \in DOMAIN calls, shardOf[e] = s, NEW k \in DOMAIN calls[e]
      PROVE  \E r \in DOMAIN q : q[r] = calls[e][k]
  <2>1. PICK i \in DOMAIN here : here[i] = e
        BY <1>1, <1>5
  <2>2. parts[i] = calls[e] /\ i \in DOMAIN parts
        BY <1>1, <2>1
  <2> QED BY <1>3, <2>2
<1> QED BY <1>3, <1>4, <1>5 DEF q

\* They lead an environment where the calls made for it lead.
LEMMA CallsOnLead ==
    ASSUME NEW x, NEW e \in Envs, NEW calls, CallsFor(calls), NEW a \in Stances(x, e), NEW b,
           IF e \in DOMAIN calls THEN Leads(x, e, a, calls[e], b) ELSE b = a
    PROVE  Leads(x, e, a, CallsOn(shardOf[e], calls), b)
<1> DEFINE s == shardOf[e]
           here == Here(s, calls)
           parts == PartsFor(s, calls)
           to(n) == IF \E i \in 1..n : here[i] = e THEN b ELSE a
           P == {np \in Nat \X Seq(Calls) : Leads(x, e, a, np[2], to(np[1]))}
<1>1. /\ DOMAIN here = 1..Len(here) /\ Len(here) \in Nat
      /\ \A i \in DOMAIN here : here[i] \in DOMAIN calls /\ shardOf[here[i]] = s
      /\ parts \in Seq(Seq(Calls)) /\ Len(parts) = Len(here)
      /\ \A i \in DOMAIN here : parts[i] = calls[here[i]]
      /\ CallsOn(s, calls) = FlattenSeq(parts)
      /\ \A i, j \in DOMAIN here : here[i] = here[j] => i = j
      /\ \A d \in DOMAIN calls : shardOf[d] = s => \E i \in DOMAIN here : here[i] = d
      BY PartsOf
<1>2. Len(here) \in Nat /\ DOMAIN here = 1..Len(here)
      BY <1>1
<1>3. <<0, <<>>>> \in P
  <2>1. <<>> \in Seq(Calls) /\ DOMAIN <<>> = {} /\ 1..0 = {}
        OBVIOUS
  <2>2. Leads(x, e, a, <<>>, a)
        BY <2>1, LeadsNowhere
  <2>3. to(0) = a
        BY <2>1
  <2> HIDE DEF to
  <2> QED BY <2>1, <2>2, <2>3
<1>4. ASSUME NEW n \in 1..Len(parts), NEW q \in Seq(Calls), <<n - 1, q>> \in P
      PROVE  <<n, q \o parts[n]>> \in P
  <2>1. /\ n \in Nat /\ n - 1 \in Nat /\ n \in DOMAIN here /\ parts[n] = calls[here[n]]
        /\ parts[n] \in Seq(Calls) /\ here[n] \in DOMAIN calls
    <3>1. n \in Nat /\ n - 1 \in Nat /\ n \in DOMAIN here
          BY <1>1, <1>2
    <3>2. here[n] \in DOMAIN calls
          BY <1>1, <3>1
    <3>3. parts[n] \in Seq(Calls)
      <4> HIDE DEF parts
      <4> QED BY <1>1
    <3> QED BY <1>1, <3>1, <3>2, <3>3
  <2>2. Leads(x, e, a, q, to(n - 1))
        BY <1>4
  <2>3. to(n - 1) \in Stances(x, e)
        BY <2>2, LeadsWithin
  <2>4. Leads(x, e, to(n - 1), parts[n], to(n))
    <3>1. CASE here[n] = e
      <4>1. ~\E i \in 1..(n - 1) : here[i] = e
        <5>1. \A i \in 1..(n - 1) : i \in DOMAIN here /\ i # n
              BY <1>1, <1>2, <2>1
        <5> QED BY <1>1, <2>1, <3>1, <5>1
      <4>2. to(n - 1) = a /\ to(n) = b
        <5>1. n \in 1..n
              BY <2>1
        <5> QED BY <3>1, <4>1, <5>1
      <4> HIDE DEF to
      <4> QED BY <2>1, <3>1, <4>2
    <3>2. CASE here[n] # e
      <4>1. \A i \in DOMAIN parts[n] : ~Concerns(e, parts[n][i])
        <5>1. \A i \in DOMAIN parts[n] : CallFor(here[n], parts[n][i])
              BY <2>1 DEF CallsFor
        <5> QED BY <3>2, <5>1, ForOne
      <4>2. to(n) = to(n - 1)
        <5>1. \A i : i \in 1..n <=> (i \in 1..(n - 1) \/ i = n)
              BY <2>1
        <5> QED BY <3>2, <5>1
      <4> HIDE DEF to
      <4> QED BY <2>1, <2>3, <4>1, <4>2, LeadsNowhere
    <3> QED BY <3>1, <3>2
  <2> HIDE DEF to
  <2>5. Leads(x, e, a, q \o parts[n], to(n))
        BY <2>1, <2>2, <2>4, LeadsOn
  <2>6. q \o parts[n] \in Seq(Calls)
        BY <2>1, ConcatProperties
  <2> QED BY <2>1, <2>5, <2>6
<1> HIDE DEF P
<1>5. <<Len(parts), FlattenSeq(parts)>> \in P
      BY <1>1, <1>3, <1>4, FlattenBy
<1>6. Leads(x, e, a, FlattenSeq(parts), to(Len(parts)))
      BY <1>5 DEF P
<1>7. to(Len(parts)) = b
  <2>1. CASE e \in DOMAIN calls
    <3>1. \E i \in 1..Len(here) : here[i] = e
          BY <1>1, <1>2, <2>1
    <3> QED BY <1>1, <3>1
  <2>2. CASE e \notin DOMAIN calls
    <3>1. a = b
          BY <2>2
    <3> QED BY <3>1
  <2> QED BY <2>1, <2>2
<1> QED BY <1>1, <1>6, <1>7

-----------------------------------------------------------------------------
(***************************************************************************)
(* Keys, and the episodes that are pushed.                                 *)
(***************************************************************************)

\* A set of indices that contains all that are smaller.
LEMMA Initial ==
    ASSUME NEW n \in Nat, NEW R, R \subseteq 1..n, \A i \in R : \A j \in 1..i : j \in R
    PROVE  \E m \in 0..n : R = 1..m /\ Cardinality(R) = m
<1>1. \A m \in 0..n : Cardinality(1..m) = m
  <2> SUFFICES ASSUME NEW m \in 0..n PROVE Cardinality(1..m) = m
      OBVIOUS
  <2>1. Cardinality(1..m) = IF 1 > m THEN 0 ELSE m - 1 + 1
        BY FS_Interval, 1 \in Int, m \in Int
  <2> QED BY <2>1
<1>2. CASE R = 1..n
      BY <1>1, <1>2
<1>3. CASE R # 1..n
  <2> DEFINE T == {i \in 1..n : i \notin R}
  <2>1. T \subseteq Nat /\ T # {}
    <3>1. \E i \in 1..n : i \notin R
          BY <1>3
    <3> QED BY <3>1
  <2>2. PICK t \in T : \A y \in T : t <= y
    <3> HIDE DEF T
    <3> QED BY <2>1, Least
  <2>3. t \in 1..n /\ t \notin R /\ t - 1 \in 0..n
        OBVIOUS
  <2>4. \A i \in 1..n : i \in R <=> i \in 1..(t - 1)
    <3> SUFFICES ASSUME NEW i \in 1..n PROVE i \in R <=> i \in 1..(t - 1)
        OBVIOUS
    <3>1. i \in R => ~(t <= i)
      <4>1. t <= i => t \in 1..i
            BY <2>3
      <4> QED BY <2>3, <4>1
    <3>2. i \notin R => t <= i
          BY <2>2
    <3> QED BY <2>3, <3>1, <3>2
  <2>5. R = 1..(t - 1)
    <3>1. \A i \in 1..(t - 1) : i \in 1..n
          BY <2>3
    <3> QED BY <2>4, <3>1
  <2> QED BY <1>1, <2>3, <2>5
<1> QED BY <1>2, <1>3

\* The one part of a flattened sequence.
LEMMA FlattenOne == ASSUME NEW T, NEW q \in Seq(T) PROVE FlattenSeq(<<q>>) = q
<1> DEFINE ss == <<q>>
<1>1. ss \in Seq(Seq(T)) /\ ss # <<>> /\ Len(ss) = 1 /\ ss[1] = q
      OBVIOUS
<1> HIDE DEF ss
<1>2. PICK f : FlattensTo(f, ss, 1) /\ FlattenSeq(ss) = f[1]
      BY <1>1, FlattenIs
<1>3. f[1] = ss[1]
  <2>1. 1 \in 1..1
        OBVIOUS
  <2> QED BY <1>2, <2>1 DEF FlattensTo
<1> QED BY <1>1, <1>2, <1>3 DEF ss

LEMMA SubSets == ASSUME NEW e \in Envs PROVE SubEnvs[e] # {} /\ IsFiniteSet(SubEnvs[e])
BY SubEnvsAssumption

LEMMA KeyIn ==
    ASSUME NEW e \in Envs, NEW t, t = "all" \/ \E d \in Envs : t \in SubEnvs[d]
    PROVE  <<e, t>> \in AllKeys
<1> DEFINE W == {"all"} \cup UNION {SubEnvs[x] : x \in Envs}
<1>1. t \in W
      OBVIOUS
<1>2. AllKeys = {<<d, y>> : d \in Envs, y \in W}
      BY DEF AllKeys
<1> HIDE DEF W
<1> QED BY <1>1, <1>2

\* The keys of an environment are its own, and one if it is not split.
LEMMA Keys ==
    ASSUME NEW e \in Envs
    PROVE  /\ KeysOf(e) \in Seq(AllKeys) /\ DOMAIN KeysOf(e) = 1..Len(KeysOf(e))
           /\ \A i \in DOMAIN KeysOf(e) : KeysOf(e)[i] \in AllKeys /\ KeysOf(e)[i][1] = e
           /\ \A i, j \in DOMAIN KeysOf(e) : KeysOf(e)[i] = KeysOf(e)[j] => i = j
           /\ ~Splits(e) => KeysOf(e) = << <<e, "all">> >>
<1>1. CASE Splits(e)
  <2> DEFINE n == Cardinality(SubEnvs[e])
             q == SetToSeq(SubEnvs[e])
             K == [i \in 1..n |-> <<e, q[i]>>]
  <2>1. /\ q \in Seq(SubEnvs[e]) /\ Len(q) = n
        /\ \A i, j \in DOMAIN q : q[i] = q[j] => i = j
        BY SubSets, InTurn
  <2>2. KeysOf(e) = K
        BY <1>1 DEF KeysOf, SubKeys
  <2> HIDE DEF n, q
  <2>3. n \in Nat /\ DOMAIN q = 1..n /\ \A i \in 1..n : q[i] \in SubEnvs[e]
        BY <2>1
  <2>4. \A i \in 1..n : K[i] \in AllKeys /\ K[i][1] = e /\ K[i][2] = q[i]
    <3> SUFFICES ASSUME NEW i \in 1..n PROVE K[i] \in AllKeys /\ K[i][1] = e /\ K[i][2] = q[i]
        OBVIOUS
    <3>1. K[i] = <<e, q[i]>>
          OBVIOUS
    <3>2. <<e, q[i]>> \in AllKeys
          BY <2>3, KeyIn
    <3> QED BY <3>1, <3>2
  <2>5. DOMAIN K = 1..n /\ K \in Seq(AllKeys) /\ Len(K) = n
    <3>1. K \in [1..n -> AllKeys]
          BY <2>4
    <3> QED BY <2>3, <3>1
  <2>7. \A i, j \in 1..n : q[i] = q[j] => i = j
        BY <2>1, <2>3
  <2>6. \A i, j \in DOMAIN K : K[i] = K[j] => i = j
    <3> HIDE DEF K
    <3> SUFFICES ASSUME NEW i \in 1..n, NEW j \in 1..n, K[i] = K[j] PROVE i = j
        BY <2>5
    <3>1. q[i] = q[j]
          BY <2>4
    <3> QED BY <2>7, <3>1
  <2>8. \A i \in DOMAIN K : K[i] \in AllKeys /\ K[i][1] = e
    <3> HIDE DEF K
    <3> QED BY <2>4, <2>5
  <2> HIDE DEF K
  <2> QED BY <1>1, <2>2, <2>5, <2>6, <2>8
<1>2. CASE ~Splits(e)
  <2>1. KeysOf(e) = << <<e, "all">> >>
        BY <1>2 DEF KeysOf
  <2>2. <<e, "all">> \in AllKeys
        BY DEF AllKeys
  <2> QED BY <2>1, <2>2
<1> QED BY <1>1, <1>2

\* The keys that a row ends.
LEMMA EndedKeys ==
    ASSUME NEW e \in Envs, NEW row
    PROVE  /\ EndedIn(e, row) \in Seq(AllKeys) /\ DOMAIN EndedIn(e, row) = 1..Len(EndedIn(e, row))
           /\ ToSet(EndedIn(e, row)) = {k \in ToSet(KeysOf(e)) : EndsKey(e, k, row)}
           /\ ~Splits(e) => Len(EndedIn(e, row)) <= 1
<1> DEFINE keys == KeysOf(e)
           part(i) == IF EndsKey(e, keys[i], row) THEN <<keys[i]>> ELSE <<>>
           ss == [i \in DOMAIN keys |-> part(i)]
           q == EndedIn(e, row)
<1>1. /\ keys \in Seq(AllKeys) /\ DOMAIN keys = 1..Len(keys) /\ Len(keys) \in Nat
      /\ \A i \in DOMAIN keys : keys[i] \in AllKeys
      /\ ~Splits(e) => Len(keys) = 1
  <2>1. Len(<< <<e, "all">> >>) = 1
        OBVIOUS
  <2> QED BY <2>1, Keys
<1>2. q = FlattenSeq(ss)
      BY DEF EndedIn
<1> HIDE DEF keys, q
<1>3. \A i \in DOMAIN keys : part(i) \in Seq(AllKeys) /\ Len(part(i)) <= 1
      BY <1>1
<1>4. ss \in Seq(Seq(AllKeys)) /\ Len(ss) = Len(keys) /\ DOMAIN ss = DOMAIN keys
      /\ \A i \in DOMAIN keys : ss[i] = part(i)
  <2> HIDE DEF part
  <2>1. ss \in [1..Len(keys) -> Seq(AllKeys)]
        BY <1>1, <1>3
  <2> QED BY <1>1, <2>1
<1> HIDE DEF ss
<1>5. /\ q \in Seq(AllKeys)
      /\ \A r \in DOMAIN q : \E i \in DOMAIN ss : \E k \in DOMAIN ss[i] : q[r] = ss[i][k]
      /\ \A i \in DOMAIN ss : \A k \in DOMAIN ss[i] : \E r \in DOMAIN q : q[r] = ss[i][k]
  <2>1. /\ FlattenSeq(ss) \in Seq(AllKeys)
        /\ \A r \in DOMAIN FlattenSeq(ss) :
              \E i \in DOMAIN ss : \E k \in DOMAIN ss[i] : FlattenSeq(ss)[r] = ss[i][k]
        /\ \A i \in DOMAIN ss : \A k \in DOMAIN ss[i] :
              \E r \in DOMAIN FlattenSeq(ss) : FlattenSeq(ss)[r] = ss[i][k]
        BY <1>4, Flattened
  <2> QED BY <1>2, <2>1
<1>6. ASSUME NEW r \in DOMAIN q PROVE q[r] \in ToSet(keys) /\ EndsKey(e, q[r], row)
  <2>1. PICK i \in DOMAIN ss : \E k \in DOMAIN ss[i] : q[r] = ss[i][k]
        BY <1>5
  <2>2. PICK k \in DOMAIN ss[i] : q[r] = ss[i][k]
        BY <2>1
  <2>3. EndsKey(e, keys[i], row) /\ ss[i] = <<keys[i]>>
        BY <1>4, <2>2
  <2>4. q[r] = keys[i]
        BY <2>2, <2>3
  <2> QED BY <1>4, <2>3, <2>4 DEF ToSet
<1>7. ASSUME NEW k \in ToSet(keys), EndsKey(e, k, row) PROVE k \in ToSet(q)
  <2>1. PICK i \in DOMAIN keys : keys[i] = k
        BY DEF ToSet
  <2>2. ss[i] = <<k>> /\ i \in DOMAIN ss
        BY <1>4, <1>7, <2>1
  <2>3. 1 \in DOMAIN ss[i] /\ ss[i][1] = k
        BY <2>2
  <2>4. \E r \in DOMAIN q : q[r] = k
        BY <1>5, <2>2, <2>3
  <2> QED BY <2>4 DEF ToSet
<1>8. ToSet(q) = {k \in ToSet(keys) : EndsKey(e, k, row)}
  <2>1. \A k \in ToSet(q) : k \in ToSet(keys) /\ EndsKey(e, k, row)
        BY <1>6 DEF ToSet
  <2> QED BY <1>7, <2>1
<1>9. ASSUME ~Splits(e) PROVE Len(q) <= 1
  <2>1. ss = << ss[1] >>
        BY <1>1, <1>4, <1>9
  <2>2. ss[1] \in Seq(AllKeys) /\ Len(ss[1]) <= 1
    <3> HIDE DEF part
    <3>1. 1 \in DOMAIN keys
          BY <1>1, <1>9
    <3> QED BY <1>3, <1>4, <3>1
  <2>3. FlattenSeq(<< ss[1] >>) = ss[1]
        BY <2>2, FlattenOne
  <2> QED BY <1>2, <2>1, <2>2, <2>3
<1>10. DOMAIN q = 1..Len(q)
       BY <1>5
<1> QED BY <1>5, <1>8, <1>9, <1>10 DEF q, keys

\* The episodes that push stores, up to the first without rows, which is dropped.
Rowless(E) == {i \in DOMAIN E : ~HasRows(E[i])}

LEMMA Pushing ==
    ASSUME NEW T, NEW E \in Seq(T), NEW s \in Shards, NEW missed, Push(s, E, missed),
           NEW U, T \subseteq U, stored \in [Shards -> Seq(U)]
    PROVE  /\ dropped' = dropped \cup {E[i] : i \in Rowless(E)}
           /\ torn' = torn \cup missed \cup {E[i].key[1] : i \in Rowless(E)}
           /\ \E m \in 0..Len(E) :
                 /\ stored' = [stored EXCEPT ![s] = @ \o SubSeq(E, 1, m)]
                 /\ SubSeq(E, 1, m) \in Seq(U)
                 /\ ToSet(SubSeq(E, 1, m)) = {E[i] : i \in 1..m}
                 /\ stored'[s] \in Seq(U)
                 /\ ToSet(stored'[s]) = ToSet(stored[s]) \cup {E[i] : i \in 1..m}
                 /\ \A i \in 1..m : i \in DOMAIN E /\ HasRows(E[i])
                 /\ Rowless(E) = {} => m = Len(E)
<1> DEFINE R == Rowless(E)
           pushed == {i \in DOMAIN E : \A j \in R : i < j}
<1>1. DOMAIN E = 1..Len(E) /\ Len(E) \in Nat
      OBVIOUS
<1>2. /\ stored' = [stored EXCEPT ![s] = @ \o SubSeq(E, 1, Cardinality(pushed))]
      /\ dropped' = dropped \cup {E[i] : i \in R}
      /\ torn' = torn \cup missed \cup {E[i].key[1] : i \in R}
      BY DEF Push, Rowless
<1>3. PICK m \in 0..Len(E) : pushed = 1..m /\ Cardinality(pushed) = m
  <2>1. pushed \subseteq 1..Len(E)
        BY <1>1
  <2>2. \A i \in pushed : \A j \in 1..i : j \in pushed
    <3> SUFFICES ASSUME NEW i \in pushed, NEW j \in 1..i PROVE j \in pushed
        OBVIOUS
    <3>1. \A r \in R : r \in Nat
          BY <1>1 DEF Rowless
    <3>2. i \in 1..Len(E) /\ \A r \in R : i < r
          BY <1>1
    <3>3. \A r \in R : j < r
          BY <3>1, <3>2
    <3>4. j \in 1..Len(E)
          BY <1>1, <3>2
    <3> QED BY <1>1, <3>3, <3>4
  <2> HIDE DEF pushed
  <2> QED BY <1>1, <2>1, <2>2, Initial
<1>4. \A i \in 1..m : i \in DOMAIN E /\ HasRows(E[i])
  <2> SUFFICES ASSUME NEW i \in 1..m PROVE i \in DOMAIN E /\ HasRows(E[i])
      OBVIOUS
  <2>1. i \in DOMAIN E /\ \A j \in R : i < j
        BY <1>3
  <2>2. i \notin R
        BY <1>1, <2>1
  <2> QED BY <2>1, <2>2 DEF Rowless
<1>5. R = {} => m = Len(E)
  <2> SUFFICES ASSUME R = {} PROVE m = Len(E)
      OBVIOUS
  <2>1. pushed = 1..Len(E)
        BY <1>1
  <2>2. Cardinality(1..Len(E)) = m
        BY <1>3, <2>1
  <2> HIDE DEF R, pushed
  <2>3. Cardinality(1..Len(E)) = IF 1 > Len(E) THEN 0 ELSE Len(E) - 1 + 1
        BY <1>1, FS_Interval, 1 \in Int, Len(E) \in Int
  <2>4. \A n \in Nat, k \in Nat : k = (IF 1 > n THEN 0 ELSE n - 1 + 1) => k = n
        OBVIOUS
  <2>5. m \in Nat /\ Len(E) \in Nat
        BY <1>1
  <2> QED BY <2>2, <2>3, <2>4, <2>5
<1> HIDE DEF R, pushed
<1> DEFINE t == SubSeq(E, 1, m)
<1>6. t \in Seq(U) /\ Len(t) = m /\ \A i \in 1..m : t[i] = E[i]
  <2>1. Len(t) = m /\ \A i \in 1..m : t[i] = E[i]
    <3>1. 1 \in 1..(Len(E) + 1) /\ m \in (1 - 1)..Len(E)
          BY <1>1
    <3> QED BY <1>1, <3>1, SubSeqProperties
  <2>2. t \in Seq(T)
        BY <1>1, SubSeqProperties
  <2> QED BY <2>1, <2>2
<1>7. DOMAIN t = 1..m /\ ToSet(t) = {E[i] : i \in 1..m}
  <2> HIDE DEF t
  <2>1. DOMAIN t = 1..m
        BY <1>6
  <2> QED BY <1>6, <2>1 DEF ToSet
<1> HIDE DEF t
<1>8. stored'[s] = stored[s] \o t /\ stored[s] \in Seq(U)
      BY <1>2, <1>3 DEF t
<1>9. stored[s] \o t \in Seq(U) /\ ToSet(stored[s] \o t) = ToSet(stored[s]) \cup ToSet(t)
      BY <1>6, <1>8, Joined
<1>10. stored' = [stored EXCEPT ![s] = @ \o t]
       BY <1>2, <1>3 DEF t
<1> QED BY <1>2, <1>4, <1>5, <1>6, <1>7, <1>8, <1>9, <1>10 DEF R, t

-----------------------------------------------------------------------------
(***************************************************************************)
(* Folds: the table of the environments, and the length of containers.     *)
(***************************************************************************)
Op(kind, a, x) == IF kind = "table" THEN Register(a, x) ELSE a + ItemsOf(x)

\* The function inside FoldLeft, on the subsets of the first n indices.
Folds(f, kind, base, q, n) ==
    f = [s \in SUBSET (1..n) |->
            IF s = {} THEN base ELSE Op(kind, f[s \ {Max(s)}], q[Max(s)])]

LEMMA TopOf ==
    ASSUME NEW n \in Nat, NEW s \in SUBSET (1..(n + 1))
    PROVE  /\ n + 1 \in s => Max(s) = n + 1 /\ s \ {n + 1} \in SUBSET (1..n)
           /\ n + 1 \notin s => s \in SUBSET (1..n)
<1>1. ASSUME n + 1 \in s PROVE Max(s) = n + 1
  <2>1. \A y \in s : n + 1 >= y
        OBVIOUS
  <2>2. \A x \in s : (\A y \in s : x >= y) => x = n + 1
    <3> SUFFICES ASSUME NEW x \in s, x >= n + 1 PROVE x = n + 1
        BY <1>1
    <3> QED OBVIOUS
  <2> QED BY <1>1, <2>1, <2>2 DEF Max
<1>2. \A x \in 1..(n + 1) : x # n + 1 => x \in 1..n
      OBVIOUS
<1> QED BY <1>1, <1>2

LEMMA FoldExists ==
    ASSUME NEW kind, NEW base, NEW q, NEW n \in Nat
    PROVE  \E f : Folds(f, kind, base, q, n)
<1> DEFINE S == {k \in Nat : \E f : Folds(f, kind, base, q, k)}
<1>1. 0 \in S
  <2> DEFINE f == [s \in SUBSET (1..0) |-> base]
  <2>1. \A s \in SUBSET (1..0) : s = {}
        OBVIOUS
  <2>2. f = [s \in SUBSET (1..0) |->
               IF s = {} THEN base ELSE Op(kind, f[s \ {Max(s)}], q[Max(s)])]
        BY <2>1
  <2>3. Folds(f, kind, base, q, 0)
        BY <2>2 DEF Folds
  <2> QED BY <2>3
<1>2. ASSUME NEW k \in Nat, k \in S PROVE k + 1 \in S
  <2>1. PICK f : Folds(f, kind, base, q, k)
        BY <1>2
  <2> DEFINE g == [s \in SUBSET (1..(k + 1)) |->
                      IF k + 1 \in s THEN Op(kind, f[s \ {k + 1}], q[k + 1]) ELSE f[s]]
             step(h, s) == IF s = {} THEN base ELSE Op(kind, h[s \ {Max(s)}], q[Max(s)])
  <2>2. \A s \in SUBSET (1..k) : f[s] = step(f, s)
        BY <2>1 DEF Folds
  <2>3. \A s \in SUBSET (1..k) : g[s] = f[s]
    <3>1. \A s \in SUBSET (1..k) : s \in SUBSET (1..(k + 1)) /\ k + 1 \notin s
          OBVIOUS
    <3> QED BY <3>1
  <2>4. ASSUME NEW s \in SUBSET (1..(k + 1)) PROVE g[s] = step(g, s)
    <3>1. CASE k + 1 \in s
      <4>1. Max(s) = k + 1 /\ s \ {k + 1} \in SUBSET (1..k) /\ s # {}
            BY <3>1, TopOf
      <4>2. g[s] = Op(kind, f[s \ {k + 1}], q[k + 1])
            BY <3>1
      <4>3. g[s \ {k + 1}] = f[s \ {k + 1}]
            BY <2>3, <4>1
      <4> HIDE DEF g
      <4> QED BY <4>1, <4>2, <4>3
    <3>2. CASE k + 1 \notin s
      <4>1. s \in SUBSET (1..k)
            BY <3>2, TopOf
      <4>2. s \ {Max(s)} \in SUBSET (1..k)
            BY <4>1
      <4>3. g[s] = f[s] /\ g[s \ {Max(s)}] = f[s \ {Max(s)}]
            BY <2>3, <4>1, <4>2
      <4> HIDE DEF g
      <4> QED BY <2>2, <4>1, <4>3
    <3> QED BY <3>1, <3>2
  <2>5. Folds(g, kind, base, q, k + 1)
    <3>1. g = [s \in SUBSET (1..(k + 1)) |-> g[s]]
          OBVIOUS
    <3> HIDE DEF g
    <3> QED BY <2>4, <3>1 DEF Folds
  <2> QED BY <2>5
<1>3. Nat \subseteq S
  <2> HIDE DEF S
  <2> QED BY <1>1, <1>2, SetInduction
<1> QED BY <1>3

LEMMA FoldSteps ==
    ASSUME NEW kind, NEW base, NEW q, NEW n \in Nat, NEW h, Folds(h, kind, base, q, n)
    PROVE  /\ h[1..0] = base
           /\ \A k \in 1..n : h[1..k] = Op(kind, h[1..(k - 1)], q[k])
<1>1. \A s \in SUBSET (1..n) :
          h[s] = IF s = {} THEN base ELSE Op(kind, h[s \ {Max(s)}], q[Max(s)])
      BY DEF Folds
<1>2. h[1..0] = base
  <2>1. 1..0 = {} /\ 1..0 \in SUBSET (1..n)
        OBVIOUS
  <2> QED BY <1>1, <2>1
<1>3. ASSUME NEW k \in 1..n PROVE h[1..k] = Op(kind, h[1..(k - 1)], q[k])
  <2>1. k \in Nat /\ k - 1 \in Nat /\ (k - 1) + 1 = k
        OBVIOUS
  <2>2. 1..k \in SUBSET (1..n) /\ k \in 1..k
        OBVIOUS
  <2>3. Max(1..k) = k
        BY <2>1, <2>2, TopOf
  <2>4. (1..k) \ {k} = 1..(k - 1)
        BY <2>1
  <2>5. 1..k # {}
        BY <2>2
  <2>6. h[1..k] = Op(kind, h[(1..k) \ {Max(1..k)}], q[Max(1..k)])
        BY <1>1, <2>2, <2>5
  <2> QED BY <2>3, <2>4, <2>6
<1> QED BY <1>2, <1>3

LEMMA FoldStart ==
    ASSUME NEW kind, NEW base, NEW q, NEW n \in Nat, NEW h, Folds(h, kind, base, q, n)
    PROVE  h[1..0] = base
<1>1. \A s \in SUBSET (1..n) :
          h[s] = IF s = {} THEN base ELSE Op(kind, h[s \ {Max(s)}], q[Max(s)])
      BY DEF Folds
<1>2. 1..0 = {} /\ 1..0 \in SUBSET (1..n)
      OBVIOUS
<1> QED BY <1>1, <1>2

\* The length of a container of some episodes.
LEMMA LengthFold ==
    ASSUME NEW T, NEW q \in Seq(T)
    PROVE  \E h : Folds(h, "length", 0, q, Len(q)) /\ LengthOf(q) = h[1..Len(q)]
<1> DEFINE n == Len(q)
           Is_(f) == f = [s \in SUBSET (1..n) |->
                            IF s = {} THEN 0 ELSE f[s \ {Max(s)}] + ItemsOf(q[Max(s)])]
           h == CHOOSE f : Is_(f)
<1>1. DOMAIN q = 1..n /\ n \in Nat
      OBVIOUS
<1>2. LengthOf(q) = h[1..n]
  <2>1. LengthOf(q) = (CHOOSE f : f = [s \in SUBSET DOMAIN q |->
              IF s = {} THEN 0 ELSE f[s \ {Max(s)}] + ItemsOf(q[Max(s)])])[DOMAIN q]
        BY DEF LengthOf, FoldLeft, MapThenFoldSet
  <2> QED BY <1>1, <2>1
<1> HIDE DEF h
<1>3. \A f : Folds(f, "length", 0, q, n) <=> Is_(f)
  <2>1. \A a, x : Op("length", a, x) = a + ItemsOf(x)
        BY DEF Op
  <2> TAKE f
  <2> DEFINE F1 == [s \in SUBSET (1..n) |-> IF s = {} THEN 0 ELSE Op("length", f[s \ {Max(s)}], q[Max(s)])]
             F2 == [s \in SUBSET (1..n) |-> IF s = {} THEN 0 ELSE f[s \ {Max(s)}] + ItemsOf(q[Max(s)])]
  <2>2. F1 = F2
        BY <2>1
  <2>3. Folds(f, "length", 0, q, n) <=> f = F1
        BY Zenon DEF Folds
  <2>4. Is_(f) <=> f = F2
        BY Zenon
  <2> HIDE DEF F1, F2, Is_
  <2> QED BY <2>2, <2>3, <2>4
<1>4. Is_(h)
  <2>1. \E f : Is_(f)
        BY <1>1, <1>3, FoldExists
  <2> HIDE DEF Is_
  <2> QED BY <2>1 DEF h
<1> QED BY <1>2, <1>3, <1>4

LEMMA LengthAppend ==
    ASSUME NEW T, NEW q \in Seq(T), NEW p \in T
    PROVE  LengthOf(Append(q, p)) = LengthOf(q) + ItemsOf(p) /\ LengthOf(<<>>) = 0
<1> DEFINE n == Len(q)
           t == Append(q, p)
<1>1. n \in Nat /\ t \in Seq(T) /\ Len(t) = n + 1 /\ t[n + 1] = p /\ \A i \in 1..n : t[i] = q[i]
      OBVIOUS
<1> HIDE DEF t
<1>2. PICK h : Folds(h, "length", 0, q, n) /\ LengthOf(q) = h[1..n]
      BY LengthFold
<1>3. PICK g : Folds(g, "length", 0, t, n + 1) /\ LengthOf(t) = g[1..(n + 1)]
      BY <1>1, LengthFold
<1> HIDE DEF n
<1>4. h[1..0] = 0 /\ \A k \in 1..n : h[1..k] = Op("length", h[1..(k - 1)], q[k])
  <2>1. n \in Nat /\ Folds(h, "length", 0, q, n)
        BY <1>1, <1>2
  <2> HIDE <1>1, <1>2, <1>3
  <2> QED BY <2>1, FoldSteps
<1>5. g[1..0] = 0 /\ \A k \in 1..(n + 1) : g[1..k] = Op("length", g[1..(k - 1)], t[k])
      BY <1>1, <1>3, FoldSteps, n + 1 \in Nat
<1>6. h[1..n] = g[1..n]
  <2> DEFINE S == {k \in Nat : k <= n => h[1..k] = g[1..k]}
  <2>1. 0 \in S
        BY <1>4, <1>5
  <2>2. ASSUME NEW k \in Nat, k \in S PROVE k + 1 \in S
    <3> SUFFICES ASSUME k + 1 <= n PROVE h[1..(k + 1)] = g[1..(k + 1)]
        OBVIOUS
    <3>1. k + 1 \in 1..n /\ k + 1 \in 1..(n + 1) /\ (k + 1) - 1 = k
          BY <1>1
    <3>2. h[1..k] = g[1..k]
          BY <1>1, <2>2
    <3>3. h[1..(k + 1)] = Op("length", h[1..k], q[k + 1])
          BY <1>4, <3>1
    <3>4. g[1..(k + 1)] = Op("length", g[1..k], t[k + 1])
          BY <1>5, <3>1
    <3> QED BY <1>1, <3>1, <3>2, <3>3, <3>4
  <2>3. Nat \subseteq S
    <3> HIDE DEF S
    <3> QED BY <2>1, <2>2, SetInduction
  <2> QED BY <1>1, <2>3
<1>7. g[1..(n + 1)] = Op("length", g[1..n], p)
  <2>1. n + 1 \in 1..(n + 1) /\ (n + 1) - 1 = n
        BY <1>1
  <2> QED BY <1>1, <1>5, <2>1
<1>8. LengthOf(t) = LengthOf(q) + ItemsOf(p)
      BY <1>2, <1>3, <1>6, <1>7 DEF Op
<1>9. LengthOf(<<>>) = 0
  <2> DEFINE z == <<>>
  <2>1. z \in Seq(T) /\ Len(z) = 0
        OBVIOUS
  <2> HIDE DEF z
  <2>2. PICK f : Folds(f, "length", 0, z, 0) /\ LengthOf(z) = f[1..0]
        BY <2>1, LengthFold
  <2>3. f[1..0] = 0
        BY <2>2, FoldStart, 0 \in Nat
  <2> QED BY <2>2, <2>3 DEF z
<1> QED BY <1>8, <1>9 DEF t

LEMMA Product == \A a, b \in Nat : a * b \in Nat /\ (a + 1) * b = a * b + b
OBVIOUS

\* What an episode adds to the length of its container.
LEMMA ItemsTyped == ASSUME NEW p \in Episode, HasRows(p) PROVE ItemsOf(p) \in Nat
<1>1. p.key \in AllKeys /\ p.rows \in Seq(Row)
      BY DEF Episode
<1>2. p.key[1] \in Envs
      BY <1>1 DEF AllKeys
<1>3. Cardinality(SubEnvs[p.key[1]]) \in Nat
      BY <1>2, SubEnvsAssumption, FS_CardinalityType
<1> DEFINE m == SubEpisodes(p)
           n == IF Unit = "episode" THEN 1 ELSE Len(p.rows) - 1
<1>4. m \in Nat
      BY <1>3 DEF SubEpisodes
<1>5. n \in Nat
      BY <1>1 DEF HasRows
<1>6. ItemsOf(p) = m * n
      BY DEF ItemsOf
<1> HIDE DEF m, n
<1> QED BY <1>4, <1>5, <1>6, Product

\* Episodes with rows: the more, the longer the container.
LEMMA LengthRises ==
    ASSUME NEW q \in Seq(Episode), \A i \in 1..Len(q) : HasRows(q[i]),
           NEW m \in 0..Len(q)
    PROVE  /\ LengthOf(SubSeq(q, 1, m)) \in Nat
           /\ \A i \in 0..m : LengthOf(SubSeq(q, 1, i)) <= LengthOf(SubSeq(q, 1, m))
<1> DEFINE n == Len(q)
           R(k) == LengthOf(SubSeq(q, 1, k))
           S == {k \in Nat : k <= n => R(k) \in Nat /\ \A i \in 0..k : R(i) \in Nat /\ R(i) <= R(k)}
<1>0. n \in Nat
      OBVIOUS
<1>1. R(0) = 0
  <2>1. SubSeq(q, 1, 0) = <<>>
        OBVIOUS
  <2>2. LengthOf(<<>>) = 0
        BY LengthAppend, q \in Seq({q[i] : i \in DOMAIN q} \cup {0}), 0 \in {q[i] : i \in DOMAIN q} \cup {0}
  <2> QED BY <2>1, <2>2
<1>2. 0 \in S
      BY <1>1
<1>3. ASSUME NEW k \in Nat, k \in S PROVE k + 1 \in S
  <2> SUFFICES ASSUME k + 1 <= n PROVE R(k + 1) \in Nat /\ \A i \in 0..(k + 1) : R(i) \in Nat /\ R(i) <= R(k + 1)
      OBVIOUS
  <2>1. SubSeq(q, 1, k + 1) = Append(SubSeq(q, 1, k), q[k + 1]) /\ SubSeq(q, 1, k) \in Seq(Episode)
        /\ q[k + 1] \in Episode
        BY <1>0
  <2>2. R(k + 1) = R(k) + ItemsOf(q[k + 1])
        BY <2>1, LengthAppend
  <2>3. ItemsOf(q[k + 1]) \in Nat
    <3>1. k + 1 \in 1..Len(q)
          BY <1>0
    <3> QED BY <2>1, <3>1, ItemsTyped
  <2>4. R(k) \in Nat /\ \A i \in 0..k : R(i) \in Nat /\ R(i) <= R(k)
        BY <1>0, <1>3
  <2> HIDE DEF R
  <2>5. R(k + 1) \in Nat /\ R(k) <= R(k + 1)
        BY <2>2, <2>3, <2>4
  <2>6. ASSUME NEW i \in 0..(k + 1) PROVE R(i) \in Nat /\ R(i) <= R(k + 1)
    <3>1. CASE i = k + 1
          BY <2>5, <3>1
    <3>2. CASE i # k + 1
      <4>1. i \in 0..k
            BY <3>2
      <4> QED BY <2>4, <2>5, <4>1
    <3> QED BY <3>1, <3>2
  <2> QED BY <2>5, <2>6
<1>4. Nat \subseteq S
  <2> HIDE DEF S
  <2> QED BY <1>2, <1>3, SetInduction
<1>5. m \in Nat /\ m <= n
      BY <1>0
<1> HIDE DEF R, n
<1> QED BY <1>4, <1>5 DEF R
-----------------------------------------------------------------------------
(***************************************************************************)
(* Division, and the shards that the environments are dealt out to.        *)
(***************************************************************************)
LEMMA Monotone == \A a, b, c \in Nat : a <= b => a * c <= b * c
OBVIOUS

LEMMA Division ==
    ASSUME NEW k \in Nat, NEW m \in Nat \ {0}
    PROVE  /\ k \div m \in Nat /\ k % m \in 0..(m - 1)
           /\ k = (k \div m) * m + (k % m)
OBVIOUS

\* What is left over is unique.
LEMMA OneRemainder ==
    ASSUME NEW m \in Nat \ {0}, NEW q1 \in Nat, NEW q2 \in Nat,
           NEW r1 \in 0..(m - 1), NEW r2 \in 0..(m - 1), q1 * m + r1 = q2 * m + r2
    PROVE  r1 = r2
<1>1. ASSUME NEW a \in Nat, NEW b \in Nat, a < b
      PROVE  a * m + m <= b * m
      BY <1>1, Monotone, Product, a + 1 <= b, a + 1 \in Nat
<1>2. q1 * m \in Nat /\ q2 * m \in Nat
      BY Product
<1>3. CASE q1 < q2
      BY <1>1, <1>2, <1>3
<1>4. CASE q2 < q1
      BY <1>1, <1>2, <1>4
<1>5. CASE q1 = q2
      BY <1>2, <1>5
<1> QED BY <1>3, <1>4, <1>5

LEMMA Remainder ==
    ASSUME NEW m \in Nat \ {0}, NEW q \in Nat, NEW r \in 0..(m - 1)
    PROVE  (q * m + r) % m = r /\ q * m + r \in Nat
<1> DEFINE k == q * m + r
<1>1. k \in Nat
      BY Product
<1>2. k \div m \in Nat /\ k % m \in 0..(m - 1) /\ k = (k \div m) * m + (k % m)
  <2> HIDE DEF k
  <2> QED BY <1>1, Division
<1>3. q * m + r = (k \div m) * m + (k % m)
      BY <1>2
<1> HIDE DEF k
<1>4. k % m = r
      BY <1>2, <1>3, OneRemainder
<1> QED BY <1>1, <1>4 DEF k

\* A counter that goes up by one wraps after the last.
LEMMA NextTurn ==
    ASSUME NEW k \in Nat, NEW m \in Nat \ {0}
    PROVE  /\ k % m \in 0..(m - 1)
           /\ (k + 1) % m = IF k % m = m - 1 THEN 0 ELSE (k % m) + 1
<1> DEFINE q == k \div m
           r == k % m
<1>1. q \in Nat /\ r \in 0..(m - 1) /\ k = q * m + r
      BY Division
<1>2. (q + 1) * m = q * m + m /\ q * m \in Nat /\ q + 1 \in Nat
      BY <1>1, Product
<1> HIDE DEF q, r
<1>3. CASE r = m - 1
  <2>1. k + 1 = (q + 1) * m + 0 /\ 0 \in 0..(m - 1)
        BY <1>1, <1>2, <1>3
  <2>2. ((q + 1) * m + 0) % m = 0
        BY <1>2, <2>1, Remainder
  <2> QED BY <1>1, <1>3, <2>1, <2>2 DEF r
<1>4. CASE r # m - 1
  <2>1. k + 1 = q * m + (r + 1) /\ r + 1 \in 0..(m - 1)
        BY <1>1, <1>2, <1>4
  <2>2. (q * m + (r + 1)) % m = r + 1
        BY <1>1, <2>1, Remainder
  <2> QED BY <1>1, <1>4, <2>1, <2>2 DEF r
<1> QED BY <1>3, <1>4

\* From every cursor, every shard is reached.
LEMMA Wraps ==
    ASSUME NEW c \in 0..(NumShards - 1), NEW s \in Shards
    PROVE  \E i \in 0..(NumShards - 1) : ((c + i) % NumShards) + 1 = s
<1>1. NumShards \in Nat \ {0} /\ s - 1 \in 0..(NumShards - 1) /\ s \in Int
      BY NumShardsAssumption DEF Shards
<1>2. CASE c <= s - 1
  <2>1. s - 1 - c \in 0..(NumShards - 1) /\ c + (s - 1 - c) = 0 * NumShards + (s - 1)
        BY <1>1, <1>2
  <2>2. (0 * NumShards + (s - 1)) % NumShards = s - 1
        BY <1>1, Remainder, 0 \in Nat
  <2>3. (c + (s - 1 - c)) % NumShards = s - 1
        BY <2>1, <2>2
  <2>4. ((c + (s - 1 - c)) % NumShards) + 1 = s
    <3> DEFINE z == (c + (s - 1 - c)) % NumShards
    <3>1. z = s - 1
          BY <2>3
    <3> HIDE DEF z
    <3>2. z + 1 = s
          BY <1>1, <3>1
    <3> QED BY <3>2 DEF z
  <2> QED BY <2>1, <2>4
<1>3. CASE c > s - 1
  <2> DEFINE i == s - 1 - c + NumShards
  <2>1. i \in 0..(NumShards - 1) /\ c + i = 1 * NumShards + (s - 1)
        BY <1>1, <1>3
  <2>2. (1 * NumShards + (s - 1)) % NumShards = s - 1
        BY <1>1, Remainder, 1 \in Nat
  <2> HIDE DEF i
  <2>3. (c + i) % NumShards = s - 1
        BY <2>1, <2>2
  <2>4. ((c + i) % NumShards) + 1 = s
    <3> DEFINE z == (c + i) % NumShards
    <3>1. z = s - 1
          BY <2>3
    <3> HIDE DEF z
    <3>2. z + 1 = s
          BY <1>1, <3>1
    <3> QED BY <3>2 DEF z
  <2> QED BY <2>1, <2>4
<1>4. c <= s - 1 \/ c > s - 1
      BY <1>1
<1> QED BY <1>2, <1>3, <1>4

Tables == [shard : [Envs -> 0..NumShards], count : [Shards -> Nat], cursor : 0..(NumShards - 1)]

LEMMA Registers ==
    ASSUME NEW t \in Tables, NEW e \in Envs
    PROVE  /\ Register(t, e) \in Tables /\ Register(t, e).shard[e] \in Shards
           /\ \A d \in Envs : d # e => Register(t, e).shard[d] = t.shard[d]
<1> DEFINE N == NumShards
           shardAt(i) == ((t.cursor + i) % N) + 1
           C == {t.count[s] : s \in Shards}
           I == {i \in 0..(N - 1) : t.count[shardAt(i)] = Min(C)}
           k == Min(I)
<1>1. N \in Nat \ {0} /\ Shards = 1..N
      BY NumShardsAssumption DEF Shards
<1>2. t.shard \in [Envs -> 0..N] /\ t.count \in [Shards -> Nat] /\ t.cursor \in 0..(N - 1)
      BY DEF Tables
<1>3. ASSUME NEW x \in Nat PROVE x % N \in 0..(N - 1) /\ (x % N) + 1 \in Shards
  <2>1. x % N \in 0..(N - 1)
        BY <1>1, Division, Zenon
  <2>2. PICK y : y = x % N
        OBVIOUS
  <2>3. y \in 0..(N - 1) => y + 1 \in 1..N
        BY <1>1
  <2> QED BY <1>1, <2>1, <2>2, <2>3, Zenon
<1>4. \E s \in Shards : t.count[s] = Min(C)
  <2>1. C \subseteq Nat
        BY <1>2
  <2>2. C # {}
    <3>1. 1 \in Shards
          BY <1>1
    <3>2. t.count[1] \in C
          BY <3>1
    <3> QED BY <3>2
  <2>3. \E x \in C : \A y \in C : x <= y
    <3> HIDE DEF C
    <3> QED BY <2>1, <2>2, Least
  <2>4. Min(C) \in C
    <3> HIDE DEF C
    <3> QED BY <2>3 DEF Min
  <2> QED BY <2>4
<1>5. \A i \in 0..(N - 1) : t.cursor + i \in Nat /\ t.cursor + i + 1 \in Nat
      BY <1>1, <1>2
<1>6. I # {}
  <2>1. PICK s \in Shards : t.count[s] = Min(C)
        BY <1>4
  <2>2. \E i \in 0..(N - 1) : shardAt(i) = s
        BY <1>2, Wraps
  <2> HIDE DEF C
  <2> QED BY <2>1, <2>2
<1>7. k \in 0..(N - 1)
  <2>1. I \subseteq Nat /\ I \subseteq 0..(N - 1)
        OBVIOUS
  <2> HIDE DEF I
  <2>2. \E x \in I : \A y \in I : x <= y
        BY <1>6, <2>1, Least
  <2>3. Min(I) \in I
        BY <2>2 DEF Min
  <2> QED BY <2>1, <2>3
<1>8. Register(t, e) = [shard |-> [t.shard EXCEPT ![e] = shardAt(k)],
                        count |-> [t.count EXCEPT ![shardAt(k)] = @ + 1],
                        cursor |-> (t.cursor + k + 1) % N]
      BY DEF Register
<1> HIDE DEF k
<1>9. shardAt(k) \in Shards /\ (t.cursor + k + 1) % N \in 0..(N - 1)
      BY <1>3, <1>5, <1>7
<1> HIDE DEF shardAt
<1>10. [t.shard EXCEPT ![e] = shardAt(k)] \in [Envs -> 0..N]
       BY <1>1, <1>2, <1>9
<1>11. [t.count EXCEPT ![shardAt(k)] = @ + 1] \in [Shards -> Nat]
       BY <1>2, <1>9
<1>12. [t.shard EXCEPT ![e] = shardAt(k)][e] = shardAt(k)
       /\ \A d \in Envs : d # e => [t.shard EXCEPT ![e] = shardAt(k)][d] = t.shard[d]
       BY <1>2
<1>13. Register(t, e).shard = [t.shard EXCEPT ![e] = shardAt(k)]
       BY <1>8
<1>14. Register(t, e) \in Tables
       BY <1>8, <1>9, <1>10, <1>11 DEF Tables
<1> QED BY <1>9, <1>12, <1>13, <1>14

\* Every environment has a shard.
LEMMA TableComplete == EpisodeTable.shard \in [Envs -> Shards]
<1> DEFINE n == Len(EnvOrder)
           Is_(f) == f = [s \in SUBSET (1..n) |->
                       IF s = {} THEN EmptyTable ELSE Register(f[s \ {Max(s)}], EnvOrder[Max(s)])]
           h == CHOOSE f : Is_(f)
<1>1. DOMAIN EnvOrder = 1..n /\ n \in Nat /\ \A i \in 1..n : EnvOrder[i] \in Envs
      BY EnvOrderAssumption
<1>2. EpisodeTable = h[1..n]
  <2>1. EpisodeTable = (CHOOSE f : f = [s \in SUBSET DOMAIN EnvOrder |->
              IF s = {} THEN EmptyTable ELSE Register(f[s \ {Max(s)}], EnvOrder[Max(s)])])[DOMAIN EnvOrder]
        BY DEF EpisodeTable, FoldLeft, MapThenFoldSet
  <2> QED BY <1>1, <2>1
<1> HIDE DEF h
<1>3. \A f : Folds(f, "table", EmptyTable, EnvOrder, n) <=> Is_(f)
  <2>1. \A a, x : Op("table", a, x) = Register(a, x)
        BY DEF Op
  <2> QED BY <2>1 DEF Folds
<1>4. Folds(h, "table", EmptyTable, EnvOrder, n)
  <2>1. \E f : Is_(f)
        BY <1>1, <1>3, FoldExists
  <2>2. Is_(h)
    <3> HIDE DEF Is_
    <3> QED BY <2>1 DEF h
  <2> QED BY <1>3, <2>2
<1> HIDE DEF Is_
<1>5. h[1..0] = EmptyTable
      BY <1>1, <1>4, FoldStart
<1>6. \A k \in 1..n : h[1..k] = Op("table", h[1..(k - 1)], EnvOrder[k])
      BY <1>1, <1>4, FoldSteps
<1> DEFINE S == {k \in Nat : k <= n => /\ h[1..k] \in Tables
                                       /\ \A i \in 1..k : h[1..k].shard[EnvOrder[i]] \in Shards}
<1>7. 0 \in S
  <2>1. NumShards \in Nat \ {0}
        BY NumShardsAssumption
  <2>2. EmptyTable \in Tables
        BY <2>1 DEF EmptyTable, Tables
  <2> QED BY <1>5, <2>2
<1>8. ASSUME NEW k \in Nat, k \in S PROVE k + 1 \in S
  <2> SUFFICES ASSUME k + 1 <= n
               PROVE  /\ h[1..(k + 1)] \in Tables
                      /\ \A i \in 1..(k + 1) : h[1..(k + 1)].shard[EnvOrder[i]] \in Shards
      OBVIOUS
  <2>1. k + 1 \in 1..n /\ (k + 1) - 1 = k
        BY <1>1
  <2>2. h[1..k] \in Tables /\ \A i \in 1..k : h[1..k].shard[EnvOrder[i]] \in Shards
        BY <1>1, <1>8
  <2>3. h[1..(k + 1)] = Register(h[1..k], EnvOrder[k + 1])
    <3>1. h[1..(k + 1)] = Op("table", h[1..k], EnvOrder[k + 1])
          BY <1>6, <2>1
    <3> QED BY <3>1 DEF Op
  <2> DEFINE t == h[1..k]
             e == EnvOrder[k + 1]
  <2>4. /\ Register(t, e) \in Tables /\ Register(t, e).shard[e] \in Shards
        /\ \A d \in Envs : d # e => Register(t, e).shard[d] = t.shard[d]
        BY <1>1, <2>1, <2>2, Registers
  <2>5. ASSUME NEW i \in 1..(k + 1) PROVE Register(t, e).shard[EnvOrder[i]] \in Shards
    <3>1. CASE EnvOrder[i] = e
          BY <2>4, <3>1
    <3>2. CASE EnvOrder[i] # e
      <4>1. i \in 1..k /\ i \in 1..n
            BY <1>1, <2>1, <3>2
      <4> QED BY <1>1, <2>2, <2>4, <3>2, <4>1
    <3> QED BY <3>1, <3>2
  <2> QED BY <2>3, <2>4, <2>5
<1>9. h[1..n] \in Tables /\ \A i \in 1..n : h[1..n].shard[EnvOrder[i]] \in Shards
  <2>1. Nat \subseteq S
    <3> HIDE DEF S
    <3> QED BY <1>7, <1>8, SetInduction
  <2>2. n \in S /\ n <= n
        BY <1>1, <2>1
  <2> QED BY <2>2
<1>10. \A e \in Envs : \E i \in 1..n : EnvOrder[i] = e
       BY <1>1, EnvOrderAssumption DEF ToSet
<1>11. \A e \in Envs : h[1..n].shard[e] \in Shards
       BY <1>9, <1>10
<1>12. h[1..n].shard \in [Envs -> 0..NumShards]
       BY <1>9 DEF Tables
<1> QED BY <1>2, <1>11, <1>12
-----------------------------------------------------------------------------
(***************************************************************************)
(* What the calls do to a shard.                                           *)
(***************************************************************************)
NoneRaised(G) == {p \in G : HasRows(p)}

\* The episodes G are pushed: of those with rows, t are stored.
Pushes(s, G, t) ==
    /\ t \in Seq(Episode) /\ ToSet(t) \subseteq {p \in G : HasRows(p)}
    /\ stored' = [stored EXCEPT ![s] = @ \o t]
    /\ stored'[s] \in Seq(Episode) /\ ToSet(stored'[s]) = ToSet(stored[s]) \cup ToSet(t)
    /\ dropped' = dropped \cup {p \in G : ~HasRows(p)}

Torn(missed, G) == torn \cup missed \cup {p.key[1] : p \in {p \in G : ~HasRows(p)}}

LEMMA PushSome ==
    ASSUME NEW E \in Seq(Episode), NEW s \in Shards, NEW missed, Push(s, E, missed),
           stored \in [Shards -> Seq(Episode)]
    PROVE  /\ torn' = Torn(missed, ToSet(E))
           /\ \E t : /\ Pushes(s, ToSet(E), t)
                     /\ (\A p \in ToSet(E) : HasRows(p)) \/ Len(E) <= 1 =>
                           ToSet(t) = {p \in ToSet(E) : HasRows(p)}
<1> DEFINE G == ToSet(E)
           R == Rowless(E)
<1>1. DOMAIN E = 1..Len(E) /\ Len(E) \in Nat /\ G = {E[i] : i \in DOMAIN E}
      BY DEF ToSet
<1>2. /\ dropped' = dropped \cup {E[i] : i \in R}
      /\ torn' = torn \cup missed \cup {E[i].key[1] : i \in R}
      /\ \E m \in 0..Len(E) :
            /\ stored' = [stored EXCEPT ![s] = @ \o SubSeq(E, 1, m)]
            /\ SubSeq(E, 1, m) \in Seq(Episode)
            /\ ToSet(SubSeq(E, 1, m)) = {E[i] : i \in 1..m}
            /\ stored'[s] \in Seq(Episode)
            /\ ToSet(stored'[s]) = ToSet(stored[s]) \cup {E[i] : i \in 1..m}
            /\ \A i \in 1..m : i \in DOMAIN E /\ HasRows(E[i])
            /\ R = {} => m = Len(E)
      BY Pushing
<1>3. PICK m \in 0..Len(E) :
            /\ stored' = [stored EXCEPT ![s] = @ \o SubSeq(E, 1, m)]
            /\ SubSeq(E, 1, m) \in Seq(Episode)
            /\ ToSet(SubSeq(E, 1, m)) = {E[i] : i \in 1..m}
            /\ stored'[s] \in Seq(Episode)
            /\ ToSet(stored'[s]) = ToSet(stored[s]) \cup {E[i] : i \in 1..m}
            /\ \A i \in 1..m : i \in DOMAIN E /\ HasRows(E[i])
            /\ R = {} => m = Len(E)
      BY <1>2
<1> DEFINE t == SubSeq(E, 1, m)
<1>4. {E[i] : i \in R} = {p \in G : ~HasRows(p)}
      BY <1>1 DEF Rowless
<1>5. {E[i].key[1] : i \in R} = {p.key[1] : p \in {p \in G : ~HasRows(p)}}
  <2>1. \A i \in R : E[i] \in G /\ ~HasRows(E[i])
        BY <1>1 DEF Rowless
  <2>2. ASSUME NEW p \in G, ~HasRows(p) PROVE \E i \in R : p = E[i]
    <3>1. PICK i \in DOMAIN E : p = E[i]
          BY <1>1
    <3> QED BY <2>2, <3>1 DEF Rowless
  <2> HIDE DEF G, R
  <2> QED BY <2>1, <2>2
<1> HIDE DEF G
<1>6. ToSet(t) \subseteq {p \in G : HasRows(p)}
      BY <1>1, <1>3
<1>7. ASSUME (\A p \in G : HasRows(p)) \/ Len(E) <= 1 PROVE ToSet(t) = {p \in G : HasRows(p)}
  <2>1. CASE \A p \in G : HasRows(p)
    <3>1. R = {}
          BY <1>1, <2>1 DEF Rowless
    <3> QED BY <1>1, <1>3, <1>6, <3>1
  <2>2. CASE Len(E) <= 1
    <3>1. CASE R = {}
          BY <1>1, <1>3, <1>6, <3>1
    <3>2. CASE R # {}
      <4>1. \A i \in DOMAIN E : i = 1
            BY <1>1, <2>2
      <4>2. {p \in G : HasRows(p)} = {}
            BY <1>1, <3>2, <4>1 DEF Rowless
      <4> QED BY <1>6, <4>2
    <3> QED BY <3>1, <3>2
  <2> QED BY <1>7, <2>1, <2>2
<1>8. Pushes(s, G, t)
      BY <1>2, <1>3, <1>4, <1>6 DEF Pushes
<1> HIDE DEF t
<1>9. torn' = Torn(missed, G)
      BY <1>2, <1>5 DEF Torn
<1> QED BY <1>7, <1>8, <1>9 DEF G

\* The episodes that a row ends.
EndedKeysOf(e, row) == {k \in ToSet(KeysOf(e)) : EndsKey(e, k, row)}
GrownOf(e, row) == {[key |-> k, rows |-> Append(active[k], row)] : k \in EndedKeysOf(e, row)}

LEMMA RowAdded ==
    ASSUME ShardTyped, NEW s \in Shards, NEW e \in Envs, NEW row \in Row, AddRow(s, e, row)
    PROVE  /\ active' = [k \in AllKeys |->
                           IF k \in EndedKeysOf(e, row) THEN <<>>
                           ELSE IF k \in ToSet(KeysOf(e)) THEN Append(active[k], row) ELSE active[k]]
           /\ active' \in [AllKeys -> Seq(Row)]
           /\ GrownOf(e, row) \subseteq Episode /\ \A p \in GrownOf(e, row) : p.key[1] = e
           /\ torn' = Torn({}, GrownOf(e, row))
           /\ \E t : /\ Pushes(s, GrownOf(e, row), t)
                     /\ (\A p \in GrownOf(e, row) : HasRows(p)) \/ ~Splits(e) =>
                           ToSet(t) = {p \in GrownOf(e, row) : HasRows(p)}
<1> DEFINE ended == EndedIn(e, row)
           g(i) == [key |-> ended[i], rows |-> Append(active[ended[i]], row)]
           E == [i \in DOMAIN ended |-> g(i)]
<1>1. /\ ended \in Seq(AllKeys) /\ DOMAIN ended = 1..Len(ended)
      /\ ToSet(ended) = EndedKeysOf(e, row)
      /\ ~Splits(e) => Len(ended) <= 1
      BY EndedKeys DEF EndedKeysOf
<1>2. active \in [AllKeys -> Seq(Row)] /\ stored \in [Shards -> Seq(Episode)]
      BY DEF ShardTyped
<1>3. /\ active' = [k \in AllKeys |->
                      IF k \in ToSet(ended) THEN <<>>
                      ELSE IF k \in ToSet(KeysOf(e)) THEN Append(active[k], row) ELSE active[k]]
      /\ Push(s, E, {})
      BY DEF AddRow
<1> HIDE DEF ended
<1>4. \A i \in DOMAIN ended : ended[i] \in AllKeys
      BY <1>1
<1>5. \A k \in AllKeys : Append(active[k], row) \in Seq(Row)
      BY <1>2
<1>6. \A i \in DOMAIN ended : g(i) \in Episode
      BY <1>4, <1>5 DEF Episode
<1> HIDE DEF g
<1>7. E \in Seq(Episode) /\ Len(E) = Len(ended) /\ DOMAIN E = DOMAIN ended
  <2>1. E \in [1..Len(ended) -> Episode]
        BY <1>1, <1>6
  <2>2. Len(ended) \in Nat
        BY <1>1
  <2> QED BY <1>1, <2>1, <2>2
<1>8. \A i \in DOMAIN ended : E[i] = g(i)
      OBVIOUS
<1>9. ToSet(E) = GrownOf(e, row)
  <2>1. ToSet(E) = {g(i) : i \in DOMAIN ended}
    <3> HIDE DEF E
    <3> QED BY <1>7, <1>8 DEF ToSet
  <2>2. EndedKeysOf(e, row) = {ended[i] : i \in DOMAIN ended}
        BY <1>1 DEF ToSet
  <2> QED BY <2>1, <2>2 DEF GrownOf, g
<1> HIDE DEF E
<1>10. /\ torn' = Torn({}, ToSet(E))
       /\ \E t : /\ Pushes(s, ToSet(E), t)
                 /\ (\A p \in ToSet(E) : HasRows(p)) \/ Len(E) <= 1 =>
                       ToSet(t) = {p \in ToSet(E) : HasRows(p)}
       BY <1>2, <1>3, <1>7, PushSome
<1>11. active' \in [AllKeys -> Seq(Row)]
       BY <1>2, <1>3, <1>5
<1>12. GrownOf(e, row) \subseteq Episode
       BY <1>6, <1>7, <1>8, <1>9 DEF ToSet
<1>13. \A p \in GrownOf(e, row) : p.key[1] = e
  <2>1. \A k \in ToSet(KeysOf(e)) : k[1] = e
        BY Keys DEF ToSet
  <2> QED BY <2>1 DEF GrownOf, EndedKeysOf
<1> QED BY <1>1, <1>3, <1>7, <1>9, <1>10, <1>11, <1>12, <1>13

\* The open episodes of some keys.
OpenOf(K) == {[key |-> k, rows |-> active[k]] : k \in K}

\* The environments that a truncation comes to, and what it takes from them.
ReachedBy(call) == {i \in DOMAIN call.envs : \A j \in 1..(i - 1) : ~Raises(call.envs[j])}
PoppedBy(call) == UNION {PoppedKeys(call.envs[i]) : i \in ReachedBy(call)}
TakenBy(call) ==
    {k \in AllKeys : \E i \in ReachedBy(call) : Missing(call.envs[i]) = {} /\ k \in ToSet(KeysOf(call.envs[i]))}
MissedBy(call) == {call.envs[i] : i \in {j \in ReachedBy(call) : Missing(call.envs[j]) # {}}}

LEMMA EpisodesAre ==
    ASSUME ShardTyped, NEW e \in Envs
    PROVE  EpisodesOf(KeysOf(e)) \in Seq(Episode) /\ ToSet(EpisodesOf(KeysOf(e))) = OpenOf(ToSet(KeysOf(e)))
           /\ Len(EpisodesOf(KeysOf(e))) = Len(KeysOf(e))
<1> DEFINE K == KeysOf(e)
           g(k) == [key |-> k, rows |-> active[k]]
           E == [i \in DOMAIN K |-> g(K[i])]
<1>1. K \in Seq(AllKeys) /\ DOMAIN K = 1..Len(K) /\ Len(K) \in Nat /\ \A i \in DOMAIN K : K[i] \in AllKeys
      BY Keys
<1>2. EpisodesOf(K) = E
      BY DEF EpisodesOf
<1> HIDE DEF K
<1>3. active \in [AllKeys -> Seq(Row)]
      BY DEF ShardTyped
<1>4. \A k \in AllKeys : g(k) \in Episode
      BY <1>3 DEF Episode
<1>5. OpenOf(ToSet(K)) = {g(k) : k \in ToSet(K)}
      BY DEF OpenOf
<1> HIDE DEF g
<1>6. E \in Seq(Episode) /\ Len(E) = Len(K) /\ DOMAIN E = DOMAIN K
  <2>1. E \in [1..Len(K) -> Episode]
        BY <1>1, <1>4
  <2> QED BY <1>1, <2>1
<1>7. ToSet(E) = {g(k) : k \in ToSet(K)}
  <2>1. \A i \in DOMAIN K : E[i] = g(K[i])
        OBVIOUS
  <2> HIDE DEF E
  <2> QED BY <1>6, <2>1 DEF ToSet
<1> QED BY <1>2, <1>5, <1>6, <1>7 DEF K

\* A truncation pushes what it takes.
LEMMA Truncates ==
    ASSUME ShardTyped, NEW s \in Shards, NEW call \in Calls, call.op = "truncate", Truncate(s, call)
    PROVE  /\ active' = [k \in AllKeys |-> IF k \in PoppedBy(call) THEN <<>> ELSE active[k]]
           /\ active' \in [AllKeys -> Seq(Row)]
           /\ OpenOf(TakenBy(call)) \subseteq Episode
           /\ torn' = Torn(MissedBy(call), OpenOf(TakenBy(call)))
           /\ \E t : /\ Pushes(s, OpenOf(TakenBy(call)), t)
                     /\ \/ \A p \in OpenOf(TakenBy(call)) : HasRows(p)
                        \/ Len(call.envs) = 1 /\ ~Splits(call.envs[1])
                        => ToSet(t) = {p \in OpenOf(TakenBy(call)) : HasRows(p)}
<1> DEFINE envs == call.envs
           n == Len(envs)
           reached == ReachedBy(call)
           F == [i \in reached |-> PoppedEpisodes(envs[i])]
           E == FlattenSeq(F)
<1>1. envs \in Seq(Envs) /\ DOMAIN envs = 1..n /\ n \in Nat /\ \A i \in 1..n : envs[i] \in Envs
      BY DEF Calls
<1>2. active \in [AllKeys -> Seq(Row)] /\ stored \in [Shards -> Seq(Episode)]
      BY DEF ShardTyped
<1>3. /\ active' = [k \in AllKeys |-> IF k \in PoppedBy(call) THEN <<>> ELSE active[k]]
      /\ Push(s, E, MissedBy(call))
      BY DEF Truncate, ReachedBy, PoppedBy, MissedBy
<1>4. PICK m \in 0..n : reached = 1..m
  <2>1. reached \subseteq 1..n
        BY <1>1 DEF ReachedBy
  <2>2. \A i \in reached : \A j \in 1..i : j \in reached
    <3> SUFFICES ASSUME NEW i \in reached, NEW j \in 1..i PROVE j \in reached
        OBVIOUS
    <3>1. i \in 1..n /\ \A d \in 1..(i - 1) : ~Raises(envs[d])
          BY <1>1 DEF ReachedBy
    <3>2. j \in 1..n /\ \A d \in 1..(j - 1) : d \in 1..(i - 1)
          BY <1>1, <3>1
    <3> QED BY <1>1, <3>1, <3>2 DEF ReachedBy
  <2> HIDE DEF reached
  <2> QED BY <1>1, <2>1, <2>2, Initial
<1> HIDE DEF reached
<1>5. ASSUME NEW e \in Envs
      PROVE  /\ PoppedEpisodes(e) \in Seq(Episode)
             /\ ToSet(PoppedEpisodes(e)) = IF Missing(e) = {} THEN OpenOf(ToSet(KeysOf(e))) ELSE {}
             /\ ~Splits(e) => Len(PoppedEpisodes(e)) <= 1
  <2>1. EpisodesOf(KeysOf(e)) \in Seq(Episode) /\ ToSet(EpisodesOf(KeysOf(e))) = OpenOf(ToSet(KeysOf(e)))
        /\ Len(EpisodesOf(KeysOf(e))) = Len(KeysOf(e))
        BY EpisodesAre
  <2>2. ToSet(<<>>) = {} /\ <<>> \in Seq(Episode) /\ Len(<<>>) = 0
        BY DEF ToSet
  <2>3. ~Splits(e) => Len(KeysOf(e)) = 1
    <3>1. ~Splits(e) => KeysOf(e) = << <<e, "all">> >>
          BY Keys
    <3>2. Len(<< <<e, "all">> >>) = 1
          OBVIOUS
    <3> QED BY <3>1, <3>2
  <2>4. CASE Missing(e) = {}
    <3>1. PoppedEpisodes(e) = EpisodesOf(KeysOf(e))
          BY <2>4 DEF PoppedEpisodes
    <3> QED BY <2>1, <2>3, <2>4, <3>1
  <2>5. CASE Missing(e) # {}
    <3>1. PoppedEpisodes(e) = <<>>
          BY <2>5 DEF PoppedEpisodes
    <3> QED BY <2>2, <2>5, <3>1
  <2> QED BY <2>4, <2>5
<1>6. F \in Seq(Seq(Episode)) /\ DOMAIN F = 1..m /\ Len(F) = m /\ \A i \in 1..m : F[i] = PoppedEpisodes(envs[i])
  <2>1. \A i \in 1..m : PoppedEpisodes(envs[i]) \in Seq(Episode)
        BY <1>1, <1>4, <1>5
  <2>2. F \in [1..m -> Seq(Episode)]
        BY <1>4, <2>1
  <2> QED BY <1>4, <2>2
<1> HIDE DEF F
<1>7. /\ E \in Seq(Episode)
      /\ \A r \in DOMAIN E : \E i \in DOMAIN F : \E k \in DOMAIN F[i] : E[r] = F[i][k]
      /\ \A i \in DOMAIN F : \A k \in DOMAIN F[i] : \E r \in DOMAIN E : E[r] = F[i][k]
  <2>1. F \in Seq(Seq(Episode))
        BY <1>6
  <2> QED BY <2>1, Flattened
<1>8. m = 1 => E = F[1]
  <2>1. SUFFICES ASSUME m = 1 PROVE E = F[1]
        OBVIOUS
  <2>2. F = <<F[1]>> /\ F[1] \in Seq(Episode)
    <3>1. Len(F) = 1 /\ F \in Seq(Seq(Episode)) /\ F[1] = PoppedEpisodes(envs[1]) /\ 1 \in 1..m
          BY <1>6, <2>1
    <3>2. F = <<F[1]>>
          BY <3>1
    <3> QED BY <1>1, <1>4, <1>5, <3>1, <3>2
  <2>3. FlattenSeq(<<F[1]>>) = F[1]
        BY <2>2, FlattenOne
  <2> QED BY <2>2, <2>3
<1> HIDE DEF E
<1>9. ToSet(E) = OpenOf(TakenBy(call))
  <2>1. ASSUME NEW p \in ToSet(E) PROVE p \in OpenOf(TakenBy(call))
    <3>1. PICK r \in DOMAIN E : E[r] = p
          BY DEF ToSet
    <3>2. PICK i \in 1..m : \E k \in DOMAIN F[i] : E[r] = F[i][k]
          BY <1>6, <1>7
    <3>3. p \in ToSet(PoppedEpisodes(envs[i])) /\ envs[i] \in Envs /\ i \in ReachedBy(call)
          BY <1>1, <1>4, <1>6, <3>1, <3>2 DEF ToSet, reached
    <3>4. Missing(envs[i]) = {} /\ p \in OpenOf(ToSet(KeysOf(envs[i])))
          BY <1>5, <3>3
    <3>5. PICK k \in ToSet(KeysOf(envs[i])) : p = [key |-> k, rows |-> active[k]]
          BY <3>4 DEF OpenOf
    <3>6. k \in AllKeys
          BY <3>3, Keys DEF ToSet
    <3>7. k \in TakenBy(call)
          BY <3>3, <3>4, <3>5, <3>6 DEF TakenBy
    <3> QED BY <3>5, <3>7 DEF OpenOf
  <2>2. ASSUME NEW p \in OpenOf(TakenBy(call)) PROVE p \in ToSet(E)
    <3>1. PICK k \in TakenBy(call) : p = [key |-> k, rows |-> active[k]]
          BY DEF OpenOf
    <3>2. PICK i \in ReachedBy(call) : Missing(envs[i]) = {} /\ k \in ToSet(KeysOf(envs[i]))
          BY <3>1 DEF TakenBy
    <3>3. i \in 1..m /\ envs[i] \in Envs
          BY <1>1, <1>4 DEF reached
    <3>4. p \in OpenOf(ToSet(KeysOf(envs[i])))
          BY <3>1, <3>2 DEF OpenOf
    <3>5. p \in ToSet(F[i])
          BY <1>5, <1>6, <3>2, <3>3, <3>4
    <3>6. PICK j \in DOMAIN F[i] : F[i][j] = p
          BY <3>5 DEF ToSet
    <3>7. \E r \in DOMAIN E : E[r] = p
          BY <1>6, <1>7, <3>3, <3>6
    <3> QED BY <3>7 DEF ToSet
  <2> QED BY <2>1, <2>2
<1>10. Len(envs) = 1 /\ ~Splits(envs[1]) => Len(E) <= 1
  <2> SUFFICES ASSUME Len(envs) = 1, ~Splits(envs[1]) PROVE Len(E) <= 1
      OBVIOUS
  <2>1. 1 \in ReachedBy(call)
        BY <1>1 DEF ReachedBy
  <2>2. m = 1
        BY <1>1, <1>4, <2>1 DEF reached
  <2> QED BY <1>1, <1>5, <1>6, <1>8, <2>2
<1>11. /\ torn' = Torn(MissedBy(call), ToSet(E))
       /\ \E t : /\ Pushes(s, ToSet(E), t)
                 /\ (\A p \in ToSet(E) : HasRows(p)) \/ Len(E) <= 1 =>
                       ToSet(t) = {p \in ToSet(E) : HasRows(p)}
       BY <1>2, <1>3, <1>7, PushSome
<1>12. active' \in [AllKeys -> Seq(Row)]
       BY <1>2, <1>3
<1>13. ToSet(E) \subseteq Episode
       BY <1>7 DEF ToSet
<1> QED BY <1>3, <1>9, <1>10, <1>11, <1>12, <1>13
-----------------------------------------------------------------------------
(***************************************************************************)
(* The types are preserved.                                                *)
(***************************************************************************)
LEMMA Constant == Next => UNCHANGED <<loop, auto, shardOf>>
<1>1. Rolling => UNCHANGED <<loop, auto, shardOf>>
      BY DEF Rolling, Reset, StorePairs, Step, StoreReturns, StoreResponses, SubmitSteps, Collect,
             CollectRsl, StoreLast, StoreLastResponses, TruncateAll, NextEpoch, bufferVars, fixedVars
<1>2. Sampling => UNCHANGED <<loop, auto, shardOf>>
      BY DEF Sampling, StartSampling, AskSize, Decide, Get, Clear, bufferVars, fixedVars, rolloutVars
<1>3. ASSUME NEW e \in Envs, FinishTask(e) PROVE UNCHANGED <<loop, auto, shardOf>>
      BY <1>3 DEF FinishTask, bufferVars, fixedVars, rolloutVars
<1>4. ASSUME NEW s \in Shards, ExecuteCall(s) PROVE UNCHANGED <<loop, auto, shardOf>>
      BY <1>4 DEF ExecuteCall, Execute, fixedVars, rolloutVars
<1>5. Stop => UNCHANGED <<loop, auto, shardOf>>
      BY DEF Stop, bufferVars, fixedVars
<1> QED BY <1>1, <1>2, <1>3, <1>4, <1>5 DEF Next

\* What an environment may return next.
LEMMA ReturnsTyped ==
    ASSUME NEW e \in Envs, NEW at \in Positions, NEW kind, NEW ended, ended = {} \/ ended \subseteq SubEnvs[e]
    PROVE  /\ After(kind, at) \in Positions
           /\ OfEnv(e, ReturnOf(e, After(kind, at), ended))
           /\ At(ReturnOf(e, After(kind, at), ended)) = After(kind, at)
<1>1. After(kind, at) \in Positions
      BY DEF After, Positions
<1> DEFINE a == After(kind, at)
<1> HIDE DEF a
<1>2. a \in Positions /\ a.resets \in Nat /\ a.steps \in Nat /\ a = [resets |-> a.resets, steps |-> a.steps]
      BY <1>1 DEF a, Positions
<1>3. ended \in SUBSET UNION {SubEnvs[x] : x \in Envs}
      OBVIOUS
<1>4. OfEnv(e, ReturnOf(e, a, ended))
      BY <1>2, <1>3 DEF OfEnv, ReturnOf, Returns
<1>5. At(ReturnOf(e, a, ended)) = a
      BY <1>2 DEF At, ReturnOf
<1> QED BY <1>1, <1>4, <1>5 DEF a

LEMMA CollectedIs ==
    ASSUME EnvTyped
    PROVE  /\ Ready \subseteq Envs /\ DOMAIN Collected = Ready
           /\ \A e \in Ready : OfEnv(e, Collected[e]) /\ result[e] = {Collected[e]}
<1>1. Ready \subseteq Envs /\ DOMAIN Collected = Ready
      BY DEF Ready, Collected
<1>2. ASSUME NEW e \in Ready PROVE OfEnv(e, Collected[e]) /\ result[e] = {Collected[e]}
  <2>1. PICK r : OfEnv(e, r) /\ result[e] = {r}
        BY DEF EnvTyped, Ready
  <2>2. Collected[e] = CHOOSE x \in result[e] : TRUE
        BY DEF Collected
  <2>3. Collected[e] = r
        BY <2>1, <2>2
  <2> QED BY <2>1, <2>3
<1> QED BY <1>1, <1>2

LEMMA EnvMoves ==
    ASSUME EnvTyped, NEW x
    PROVE  /\ ResetAll(x) => EnvTyped' /\ (\A e \in Envs : OfEnv(e, ResetReturns[e])) /\ DOMAIN ResetReturns = Envs
           /\ StepAll => EnvTyped'
           /\ \A b : StepAsync(b, x) => EnvTyped'
           /\ CollectAsync(x) => EnvTyped'
           /\ \A e \in Envs : FinishTask(e) => EnvTyped'
<1>1. /\ counter \in [Envs -> Int] /\ task \in [Envs -> {"none", "step", "reset"}]
      /\ DOMAIN result = Envs
      /\ \A e \in Envs : result[e] = {} \/ \E r : OfEnv(e, r) /\ result[e] = {r}
      /\ position \in [Envs -> Positions] /\ \A e \in Envs : position[e] \in Positions
      BY DEF EnvTyped
<1>2. \A e \in Envs : \A k : /\ After(k, position[e]) \in Positions
                             /\ OfEnv(e, ReturnOf(e, After(k, position[e]), {}))
      BY <1>1, ReturnsTyped
<1>3. ASSUME ResetAll(x)
      PROVE  EnvTyped' /\ (\A e \in Envs : OfEnv(e, ResetReturns[e])) /\ DOMAIN ResetReturns = Envs
  <2>1. counter' \in [Envs -> Int] /\ position' \in [Envs -> Positions] /\ UNCHANGED <<task, result>>
        BY <1>1, <1>2, <1>3 DEF ResetAll
  <2>2. EnvTyped'
        BY <1>1, <2>1 DEF EnvTyped
  <2>3. (\A e \in Envs : OfEnv(e, ResetReturns[e])) /\ DOMAIN ResetReturns = Envs
        BY <1>2 DEF ResetReturns
  <2> QED BY <2>2, <2>3
<1>4. ASSUME StepAll PROVE EnvTyped'
  <2>1. counter' \in [Envs -> Int] /\ position' \in [Envs -> Positions] /\ UNCHANGED <<task, result>>
        BY <1>1, <1>2, <1>4 DEF StepAll
  <2> QED BY <1>1, <2>1 DEF EnvTyped
<1>5. ASSUME NEW b, StepAsync(b, x) PROVE EnvTyped'
  <2>1. counter' \in [Envs -> Int] /\ task' \in [Envs -> {"none", "step", "reset"}]
        /\ UNCHANGED <<result, position>>
        BY <1>1, <1>5 DEF StepAsync
  <2> QED BY <1>1, <2>1 DEF EnvTyped
<1>6. ASSUME CollectAsync(x) PROVE EnvTyped'
  <2>1. counter' \in [Envs -> Int] /\ result' = [e \in Envs |-> {}] /\ UNCHANGED <<task, position>>
        BY <1>1, <1>6 DEF CollectAsync
  <2> QED BY <1>1, <2>1 DEF EnvTyped
<1>7. ASSUME NEW e \in Envs, FinishTask(e) PROVE EnvTyped'
  <2>1. PICK ended \in Ends(e) : Finish(e, ended)
        BY <1>7 DEF FinishTask
  <2>2. ended = {} \/ ended \subseteq SubEnvs[e]
        BY <2>1 DEF Ends
  <2> DEFINE r == ReturnOf(e, After(task[e], position[e]), ended)
  <2>3. After(task[e], position[e]) \in Positions /\ OfEnv(e, r)
        BY <1>1, <2>2, ReturnsTyped
  <2>4. /\ position' = [position EXCEPT ![e] = After(task[e], @)]
        /\ result' = [result EXCEPT ![e] = {r}] /\ task' = [task EXCEPT ![e] = "none"]
        /\ UNCHANGED counter
        BY <2>1 DEF Finish
  <2> HIDE DEF r
  <2>5. position' \in [Envs -> Positions] /\ task' \in [Envs -> {"none", "step", "reset"}]
        BY <1>1, <2>3, <2>4
  <2>6. DOMAIN result' = Envs /\ \A d \in Envs : result'[d] = {} \/ \E y : OfEnv(d, y) /\ result'[d] = {y}
    <3>1. \A d \in Envs : result'[d] = IF d = e THEN {r} ELSE result[d]
          BY <1>1, <2>4
    <3> QED BY <1>1, <2>3, <2>4, <3>1
  <2> QED BY <1>1, <2>4, <2>5, <2>6 DEF EnvTyped, OfEnv
<1> QED BY <1>3, <1>4, <1>5, <1>6, <1>7

Queues ==
    /\ mailbox \in [Shards -> Seq(Calls)]
    /\ \A s \in Shards : \A c \in ToSet(mailbox[s]) : Placed(s, c)

PairCalls(b, fl) == [e \in DOMAIN b |-> <<[op |-> "pair", ret |-> b[e]]>> \o TruncateCall(e, fl)]
ReturnCalls(b) == [e \in DOMAIN b |-> <<[op |-> "return", ret |-> b[e]]>>]
ResponseCalls(b, fl) == [e \in DOMAIN b |-> <<[op |-> "response", ret |-> b[e]]>> \o TruncateCall(e, fl)]

LEMMA CarryOf ==
    ASSUME NEW e \in Envs, NEW r, OfEnv(e, r), NEW op \in {"pair", "return", "response"}
    PROVE  CallFor(e, [op |-> op, ret |-> r]) /\ Carries([op |-> op, ret |-> r])
<1> DEFINE c == [op |-> op, ret |-> r]
<1>1. c \in [op : {"pair", "return", "response"}, ret : Returns]
      BY DEF OfEnv
<1>2. c.op = op /\ c.ret = r
      OBVIOUS
<1> HIDE DEF c
<1> QED BY <1>1, <1>2 DEF CallFor, Calls, Carries, OfEnv

LEMMA TruncateOf ==
    ASSUME NEW e \in Envs
    PROVE  CallFor(e, [op |-> "truncate", envs |-> <<e>>])
<1> DEFINE c == [op |-> "truncate", envs |-> <<e>>]
<1>1. c \in [op : {"truncate"}, envs : Seq(Envs)] /\ c.op = "truncate" /\ c.envs = <<e>>
      OBVIOUS
<1> HIDE DEF c
<1> QED BY <1>1 DEF CallFor, Calls

\* The calls of a batch.
LEMMA BatchCalls ==
    ASSUME NEW b, NEW fl, DOMAIN b \subseteq Envs, \A e \in DOMAIN b : OfEnv(e, b[e])
    PROVE  /\ CallsFor(PairCalls(b, fl)) /\ CallsFor(ReturnCalls(b)) /\ CallsFor(ResponseCalls(b, fl))
           /\ DOMAIN PairCalls(b, fl) = DOMAIN b /\ DOMAIN ReturnCalls(b) = DOMAIN b
           /\ DOMAIN ResponseCalls(b, fl) = DOMAIN b
           /\ \A e \in DOMAIN b :
                 /\ ReturnCalls(b)[e] = <<[op |-> "return", ret |-> b[e]]>>
                 /\ e \notin fl => PairCalls(b, fl)[e] = <<[op |-> "pair", ret |-> b[e]]>>
                 /\ e \notin fl => ResponseCalls(b, fl)[e] = <<[op |-> "response", ret |-> b[e]]>>
                 /\ e \in fl => PairCalls(b, fl)[e] =
                       <<[op |-> "pair", ret |-> b[e]]>> \o <<[op |-> "truncate", envs |-> <<e>>]>>
                 /\ e \in fl => ResponseCalls(b, fl)[e] =
                       <<[op |-> "response", ret |-> b[e]]>> \o <<[op |-> "truncate", envs |-> <<e>>]>>
<1>1. ASSUME NEW e \in DOMAIN b, NEW op \in {"pair", "return", "response"}
      PROVE  LET c == [op |-> op, ret |-> b[e]]
                 d == [op |-> "truncate", envs |-> <<e>>]
             IN  /\ <<c>> \in Seq(Calls) /\ \A i \in DOMAIN <<c>> : CallFor(e, <<c>>[i])
                 /\ e \notin fl => <<c>> \o TruncateCall(e, fl) = <<c>>
                 /\ e \in fl => <<c>> \o TruncateCall(e, fl) = <<c>> \o <<d>>
                 /\ <<c>> \o <<d>> \in Seq(Calls) /\ \A i \in DOMAIN (<<c>> \o <<d>>) : CallFor(e, (<<c>> \o <<d>>)[i])
  <2> DEFINE c == [op |-> op, ret |-> b[e]]
             d == [op |-> "truncate", envs |-> <<e>>]
  <2>1. CallFor(e, c) /\ CallFor(e, d)
        BY CarryOf, TruncateOf
  <2>2. e \in fl => TruncateCall(e, fl) = <<d>>
        BY DEF TruncateCall
  <2>3. e \notin fl => TruncateCall(e, fl) = <<>>
        BY DEF TruncateCall
  <2> HIDE DEF c, d
  <2>4. c \in Calls /\ d \in Calls
        BY <2>1 DEF CallFor
  <2>5. <<c>> \in Seq(Calls) /\ \A i \in DOMAIN <<c>> : CallFor(e, <<c>>[i])
        BY <2>1, <2>4
  <2>6. <<c>> \o <<d>> \in Seq(Calls) /\ \A i \in DOMAIN (<<c>> \o <<d>>) : CallFor(e, (<<c>> \o <<d>>)[i])
        BY <2>1, <2>4
  <2>7. <<c>> \o <<>> = <<c>>
        OBVIOUS
  <2>8. /\ e \notin fl => <<c>> \o TruncateCall(e, fl) = <<c>>
        /\ e \in fl => <<c>> \o TruncateCall(e, fl) = <<c>> \o <<d>>
        BY <2>2, <2>3, <2>7
  <2> QED BY <2>5, <2>6, <2>8 DEF c, d
<1>2. ASSUME NEW e \in DOMAIN b
      PROVE  /\ PairCalls(b, fl)[e] = <<[op |-> "pair", ret |-> b[e]]>> \o TruncateCall(e, fl)
             /\ ResponseCalls(b, fl)[e] = <<[op |-> "response", ret |-> b[e]]>> \o TruncateCall(e, fl)
             /\ ReturnCalls(b)[e] = <<[op |-> "return", ret |-> b[e]]>>
      BY DEF PairCalls, ResponseCalls, ReturnCalls
<1>3. /\ DOMAIN PairCalls(b, fl) = DOMAIN b /\ DOMAIN ReturnCalls(b) = DOMAIN b
      /\ DOMAIN ResponseCalls(b, fl) = DOMAIN b
      BY DEF PairCalls, ResponseCalls, ReturnCalls
<1>4. ASSUME NEW e \in DOMAIN b
      PROVE  /\ e \notin fl => PairCalls(b, fl)[e] = <<[op |-> "pair", ret |-> b[e]]>>
             /\ e \notin fl => ResponseCalls(b, fl)[e] = <<[op |-> "response", ret |-> b[e]]>>
             /\ e \in fl => PairCalls(b, fl)[e] =
                   <<[op |-> "pair", ret |-> b[e]]>> \o <<[op |-> "truncate", envs |-> <<e>>]>>
             /\ e \in fl => ResponseCalls(b, fl)[e] =
                   <<[op |-> "response", ret |-> b[e]]>> \o <<[op |-> "truncate", envs |-> <<e>>]>>
  <2>1. "pair" \in {"pair", "return", "response"} /\ "response" \in {"pair", "return", "response"}
        OBVIOUS
  <2> QED BY <1>1, <1>2, <2>1
<1>5. ASSUME NEW e \in DOMAIN b
      PROVE  /\ PairCalls(b, fl)[e] \in Seq(Calls)
             /\ \A i \in DOMAIN PairCalls(b, fl)[e] : CallFor(e, PairCalls(b, fl)[e][i])
             /\ ResponseCalls(b, fl)[e] \in Seq(Calls)
             /\ \A i \in DOMAIN ResponseCalls(b, fl)[e] : CallFor(e, ResponseCalls(b, fl)[e][i])
             /\ ReturnCalls(b)[e] \in Seq(Calls)
             /\ \A i \in DOMAIN ReturnCalls(b)[e] : CallFor(e, ReturnCalls(b)[e][i])
  <2>1. "pair" \in {"pair", "return", "response"} /\ "response" \in {"pair", "return", "response"}
        /\ "return" \in {"pair", "return", "response"}
        OBVIOUS
  <2>2. CASE e \in fl
        BY <1>1, <1>2, <1>4, <2>1, <2>2
  <2>3. CASE e \notin fl
        BY <1>1, <1>2, <1>4, <2>1, <2>3
  <2> QED BY <2>2, <2>3
<1> QED BY <1>2, <1>3, <1>4, <1>5 DEF CallsFor

LEMMA PlacedFor ==
    ASSUME NEW e, NEW c, CallFor(e, c)
    PROVE  Placed(shardOf[e], c)
<1>1. c.op = "truncate" => ~Carries(c)
      BY DEF Carries
<1>2. c.envs = <<e>> => Len(c.envs) = 1 /\ DOMAIN c.envs = {1} /\ c.envs[1] = e
      OBVIOUS
<1> QED BY <1>1, <1>2 DEF CallFor, Placed

LEMMA SubmitQueues ==
    ASSUME ShardTyped, NEW calls, CallsFor(calls), Submit(calls), UNCHANGED <<loop, shardOf>>
    PROVE  /\ Queues'
           /\ \A s \in Shards : mailbox'[s] = mailbox[s] \o CallsOn(s, calls)
<1>1. mailbox' = [s \in Shards |-> mailbox[s] \o CallsOn(s, calls)]
      BY DEF Submit
<1>2. ASSUME NEW s \in Shards
      PROVE  /\ mailbox[s] \o CallsOn(s, calls) \in Seq(Calls)
             /\ \A c \in ToSet(mailbox[s] \o CallsOn(s, calls)) : Placed(s, c)
  <2>1. mailbox[s] \in Seq(Calls) /\ \A c \in ToSet(mailbox[s]) : Placed(s, c)
        BY DEF ShardTyped
  <2>2. /\ CallsOn(s, calls) \in Seq(Calls)
        /\ \A r \in DOMAIN CallsOn(s, calls) :
              \E e \in DOMAIN calls : shardOf[e] = s /\ CallFor(e, CallsOn(s, calls)[r])
        BY CallsOnAre
  <2>3. \A c \in ToSet(CallsOn(s, calls)) : Placed(s, c)
        BY <2>2, PlacedFor DEF ToSet
  <2> HIDE DEF Submit
  <2>4. /\ mailbox[s] \o CallsOn(s, calls) \in Seq(Calls)
        /\ ToSet(mailbox[s] \o CallsOn(s, calls)) = ToSet(mailbox[s]) \cup ToSet(CallsOn(s, calls))
        BY <2>1, <2>2, Joined
  <2> QED BY <2>1, <2>3, <2>4
<1>3. \A s \in Shards : mailbox'[s] = mailbox[s] \o CallsOn(s, calls)
      BY <1>1
<1>4. \A s, c : Placed(s, c)' <=> Placed(s, c)
      BY DEF Placed
<1>5. mailbox' \in [Shards -> Seq(Calls)]
      BY <1>1, <1>2
<1>6. \A s \in Shards : \A c \in ToSet(mailbox'[s]) : Placed(s, c)
      BY <1>2, <1>3
<1> QED BY <1>3, <1>5, <1>6 DEF Queues, Placed

\* The truncation submitted to shard s for the environments envs.
TruncationAt(s, envs) == [op |-> "truncate", envs |-> SetToSeq({e \in envs : shardOf[e] = s})]

LEMMA TruncationIs ==
    ASSUME NEW envs \in SUBSET Envs, NEW s, loop = "rsl"
    PROVE  /\ TruncationAt(s, envs) \in Calls /\ Placed(s, TruncationAt(s, envs))
           /\ TruncationAt(s, envs).op = "truncate" /\ ~Carries(TruncationAt(s, envs))
           /\ ToSet(TruncationAt(s, envs).envs) = {e \in envs : shardOf[e] = s}
<1> DEFINE H == {e \in envs : shardOf[e] = s}
           q == SetToSeq(H)
           c == [op |-> "truncate", envs |-> q]
<1>1. IsFiniteSet(H) /\ H \subseteq Envs
  <2>1. H \subseteq Envs
        OBVIOUS
  <2> QED BY <2>1, EnvsAssumption, FS_Subset
<1>2. \A d \in H : shardOf[d] = s
      OBVIOUS
<1>3. c = TruncationAt(s, envs)
      BY DEF TruncationAt
<1> HIDE DEF H
<1>4. /\ q \in Seq(H) /\ \A i, j \in DOMAIN q : q[i] = q[j] => i = j
      /\ \A d \in H : \E i \in DOMAIN q : q[i] = d
      BY <1>1, InTurn
<1> HIDE DEF q
<1>5. q \in Seq(Envs) /\ \A i \in DOMAIN q : q[i] \in H
      BY <1>1, <1>4
<1>6. ToSet(q) = H
      BY <1>4, <1>5 DEF ToSet
<1>7. c.op = "truncate" /\ c.envs = q /\ c \in [op : {"truncate"}, envs : Seq(Envs)]
      BY <1>5
<1> HIDE DEF c
<1>8. c \in Calls /\ ~Carries(c)
      BY <1>7 DEF Calls, Carries
<1>9. Placed(s, c)
      BY <1>2, <1>4, <1>5, <1>7, <1>8 DEF Placed
<1> QED BY <1>3, <1>6, <1>7, <1>8, <1>9 DEF H

LEMMA TruncationQueues ==
    ASSUME ShardTyped, NEW envs \in SUBSET Envs, SubmitTruncations(envs),
           UNCHANGED <<loop, shardOf>>, loop = "rsl"
    PROVE  /\ Queues'
           /\ \A s \in Shards :
                 mailbox'[s] = IF \A e \in envs : shardOf[e] # s THEN mailbox[s]
                               ELSE Append(mailbox[s], TruncationAt(s, envs))
<1>1. \A s \in Shards : mailbox[s] \in Seq(Calls) /\ \A c \in ToSet(mailbox[s]) : Placed(s, c)
      BY DEF ShardTyped
<1> DEFINE next(s) == IF \A e \in envs : shardOf[e] # s THEN mailbox[s]
                      ELSE Append(mailbox[s], TruncationAt(s, envs))
<1>2. mailbox' = [s \in Shards |-> next(s)]
  <2>1. mailbox' = [s \in Shards |->
              IF {e \in envs : shardOf[e] = s} = {} THEN mailbox[s]
              ELSE Append(mailbox[s], TruncationAt(s, envs))]
        BY DEF SubmitTruncations, TruncationAt
  <2>2. \A s : {e \in envs : shardOf[e] = s} = {} <=> \A e \in envs : shardOf[e] # s
        OBVIOUS
  <2> QED BY <2>1, <2>2
<1>3. ASSUME NEW s \in Shards
      PROVE  next(s) \in Seq(Calls) /\ \A c \in ToSet(next(s)) : Placed(s, c)
  <2>1. TruncationAt(s, envs) \in Calls /\ Placed(s, TruncationAt(s, envs))
        BY TruncationIs
  <2> DEFINE q == mailbox[s]
             c == TruncationAt(s, envs)
  <2>2. q \in Seq(Calls) /\ \A d \in ToSet(q) : Placed(s, d)
        BY <1>1
  <2> HIDE DEF q, c
  <2>3. Append(q, c) \in Seq(Calls) /\ \A d \in ToSet(Append(q, c)) : d \in ToSet(q) \/ d = c
        BY <2>1, <2>2 DEF ToSet, c
  <2>4. next(s) = q \/ next(s) = Append(q, c)
        BY DEF q, c
  <2> HIDE DEF next
  <2> QED BY <2>1, <2>2, <2>3, <2>4 DEF c
<1> HIDE DEF next
<1>4. mailbox' \in [Shards -> Seq(Calls)] /\ \A s \in Shards : mailbox'[s] = next(s)
      BY <1>2, <1>3
<1>5. \A s \in Shards : \A c \in ToSet(mailbox'[s]) : Placed(s, c)
      BY <1>3, <1>4
<1> QED BY <1>4, <1>5 DEF Queues, Placed, next

\* The calls that the sampling submits.
LEMMA SampleQueues ==
    ASSUME ShardTyped, UNCHANGED <<loop, shardOf>>, NEW call,
           \A s \in Shards : call[s] \in Calls /\ call[s].op \in {"size", "get", "clear"}
    PROVE  /\ SubmitToAll(call) => Queues' /\ \A s \in Shards : mailbox'[s] = Append(mailbox[s], call[s])
           /\ \A s \in Shards : mailbox' = [mailbox EXCEPT ![s] = Append(@, call[s])] => Queues'
<1>1. mailbox \in [Shards -> Seq(Calls)] /\ \A s \in Shards : \A c \in ToSet(mailbox[s]) : Placed(s, c)
      BY DEF ShardTyped
<1>2. ASSUME NEW s \in Shards
      PROVE  /\ Append(mailbox[s], call[s]) \in Seq(Calls)
             /\ \A c \in ToSet(Append(mailbox[s], call[s])) : Placed(s, c)
  <2> DEFINE q == mailbox[s]
             c == call[s]
  <2>1. q \in Seq(Calls) /\ \A d \in ToSet(q) : Placed(s, d)
        BY <1>1
  <2>2. c \in Calls /\ Placed(s, c)
        BY DEF Placed, Carries
  <2> HIDE DEF q, c
  <2>3. Append(q, c) \in Seq(Calls) /\ \A d \in ToSet(Append(q, c)) : d \in ToSet(q) \/ d = c
        BY <2>1, <2>2 DEF ToSet
  <2>4. \A d \in ToSet(Append(q, c)) : Placed(s, d)
        BY <2>1, <2>2, <2>3
  <2> QED BY <2>3, <2>4 DEF q, c
<1>3. ASSUME SubmitToAll(call)
      PROVE  Queues' /\ \A s \in Shards : mailbox'[s] = Append(mailbox[s], call[s])
  <2>1. mailbox' = [s \in Shards |-> Append(mailbox[s], call[s])]
        BY <1>3 DEF SubmitToAll
  <2>2. \A s \in Shards : mailbox'[s] = Append(mailbox[s], call[s])
        BY <2>1
  <2>3. mailbox' \in [Shards -> Seq(Calls)]
        BY <1>2, <2>1
  <2>4. \A s \in Shards : \A c \in ToSet(mailbox'[s]) : Placed(s, c)
        BY <1>2, <2>2
  <2> QED BY <2>2, <2>3, <2>4 DEF Queues, Placed
<1>4. ASSUME NEW s \in Shards, mailbox' = [mailbox EXCEPT ![s] = Append(@, call[s])]
      PROVE  Queues'
  <2>1. \A x \in Shards : mailbox'[x] = IF x = s THEN Append(mailbox[s], call[s]) ELSE mailbox[x]
        BY <1>1, <1>4
  <2>2. mailbox' \in [Shards -> Seq(Calls)]
        BY <1>1, <1>2, <1>4
  <2>3. \A x \in Shards : \A c \in ToSet(mailbox'[x]) : Placed(x, c)
        BY <1>1, <1>2, <2>1
  <2> QED BY <2>2, <2>3 DEF Queues, Placed
<1> QED BY <1>3, <1>4
-----------------------------------------------------------------------------
LEMMA Tails ==
    ASSUME NEW T, NEW q \in Seq(T), q # <<>>
    PROVE  /\ Tail(q) \in Seq(T) /\ Head(q) \in T /\ Len(Tail(q)) = Len(q) - 1
           /\ ToSet(q) = {Head(q)} \cup ToSet(Tail(q))
           /\ \A i \in 1..(Len(q) - 1) : Tail(q)[i] = q[i + 1]
<1> DEFINE t == Tail(q)
<1>1. t \in Seq(T) /\ Head(q) = q[1] /\ Len(t) = Len(q) - 1 /\ DOMAIN q = 1..Len(q) /\ Len(q) \in Nat \ {0}
      /\ DOMAIN t = 1..(Len(q) - 1) /\ Head(q) \in T
      OBVIOUS
<1>2. \A i \in 1..(Len(q) - 1) : t[i] = q[i + 1]
      OBVIOUS
<1> HIDE DEF t
<1>3. ToSet(q) \subseteq {Head(q)} \cup ToSet(t)
  <2> SUFFICES ASSUME NEW i \in DOMAIN q, i # 1 PROVE q[i] \in ToSet(t)
      BY <1>1 DEF ToSet
  <2>1. i - 1 \in DOMAIN t /\ t[i - 1] = q[(i - 1) + 1] /\ (i - 1) + 1 = i
        BY <1>1, <1>2
  <2> QED BY <2>1 DEF ToSet
<1>4. {Head(q)} \cup ToSet(t) \subseteq ToSet(q)
  <2>1. 1 \in DOMAIN q /\ \A i \in DOMAIN t : i + 1 \in DOMAIN q
        BY <1>1
  <2> QED BY <1>1, <1>2, <2>1 DEF ToSet
<1> QED BY <1>1, <1>2, <1>3, <1>4 DEF t

LEMMA PushTyped ==
    ASSUME ShardTyped, NEW s \in Shards, NEW G, NEW t, Pushes(s, G, t), G \subseteq Episode,
           \A p \in G : shardOf[p.key[1]] = s
    PROVE  /\ stored' \in [Shards -> Seq(Episode)] /\ dropped' \subseteq Episode
           /\ \A x \in Shards : \A p \in ToSet(stored'[x]) : HasRows(p) /\ shardOf[p.key[1]] = x
<1>1. /\ stored \in [Shards -> Seq(Episode)] /\ dropped \subseteq Episode
      /\ \A x \in Shards : \A p \in ToSet(stored[x]) : HasRows(p) /\ shardOf[p.key[1]] = x
      BY DEF ShardTyped
<1>2. /\ ToSet(t) \subseteq {p \in G : HasRows(p)}
      /\ stored' = [stored EXCEPT ![s] = @ \o t]
      /\ stored'[s] \in Seq(Episode) /\ ToSet(stored'[s]) = ToSet(stored[s]) \cup ToSet(t)
      /\ dropped' = dropped \cup {p \in G : ~HasRows(p)}
      BY DEF Pushes
<1>3. \A x \in Shards : x # s => stored'[x] = stored[x]
      BY <1>1, <1>2
<1>4. stored' \in [Shards -> Seq(Episode)]
      BY <1>1, <1>2, <1>3
<1>5. ASSUME NEW x \in Shards, NEW p \in ToSet(stored'[x]) PROVE HasRows(p) /\ shardOf[p.key[1]] = x
  <2>1. CASE x = s
        BY <1>1, <1>2, <2>1
  <2>2. CASE x # s
        BY <1>1, <1>3, <2>2
  <2> QED BY <2>1, <2>2
<1> QED BY <1>1, <1>2, <1>4, <1>5

\* What a call may be.
LEMMA CallIs ==
    ASSUME NEW c \in Calls
    PROVE  /\ c.op \in {"pair", "return", "response"} => c.ret \in Returns /\ c.ret.env \in Envs
           /\ c.op = "truncate" => /\ c.envs \in Seq(Envs) /\ DOMAIN c.envs = 1..Len(c.envs)
                                   /\ Len(c.envs) \in Nat /\ \A i \in DOMAIN c.envs : c.envs[i] \in Envs
BY DEF Calls, Returns

LEMMA SizeTyped == ASSUME ShardTyped, NEW s \in Shards PROVE LengthOf(stored[s]) \in Nat
<1> DEFINE q == stored[s]
<1>1. q \in Seq(Episode) /\ \A p \in ToSet(q) : HasRows(p)
      BY DEF ShardTyped
<1> HIDE DEF q
<1>2. \A i \in 1..Len(q) : HasRows(q[i])
  <2>1. DOMAIN q = 1..Len(q)
        BY <1>1
  <2> QED BY <1>1, <2>1 DEF ToSet
<1>3. Len(q) \in 0..Len(q) /\ SubSeq(q, 1, Len(q)) = q
      BY <1>1
<1>4. LengthOf(SubSeq(q, 1, Len(q))) \in Nat
      BY <1>1, <1>2, <1>3, LengthRises
<1> QED BY <1>3, <1>4 DEF q

\* Where the keys of an environment are kept.
LEMMA OwnKeys == ASSUME NEW e \in Envs PROVE \A k \in ToSet(KeysOf(e)) : k \in AllKeys /\ k[1] = e
BY Keys DEF ToSet

LEMMA TakenTyped ==
    ASSUME ShardTyped, NEW s, NEW call \in Calls, call.op = "truncate", Placed(s, call)
    PROVE  /\ \A p \in OpenOf(TakenBy(call)) : shardOf[p.key[1]] = s
           /\ MissedBy(call) \subseteq Envs
<1>1. \A i \in DOMAIN call.envs : call.envs[i] \in Envs /\ shardOf[call.envs[i]] = s
      BY CallIs DEF Placed
<1>2. \A k \in TakenBy(call) : shardOf[k[1]] = s
      BY <1>1, OwnKeys DEF TakenBy, ReachedBy
<1>3. \A p \in OpenOf(TakenBy(call)) : shardOf[p.key[1]] = s
      BY <1>2 DEF OpenOf
<1>4. MissedBy(call) \subseteq Envs
      BY <1>1 DEF MissedBy, ReachedBy
<1> QED BY <1>3, <1>4

LEMMA TornTyped ==
    ASSUME torn \subseteq Envs, NEW missed \in SUBSET Envs, NEW G \in SUBSET Episode
    PROVE  Torn(missed, G) \subseteq Envs
<1>1. \A k \in AllKeys : k[1] \in Envs
      BY DEF AllKeys
<1>2. \A p \in G : p.key[1] \in Envs
      BY <1>1 DEF Episode
<1> QED BY <1>2 DEF Torn

LEMMA ExecuteTyped ==
    ASSUME ShardTyped, NEW s \in Shards, Execute(s), UNCHANGED <<loop, shardOf>>
    PROVE  /\ ShardTyped'
           /\ \A x \in Shards : x # s => mailbox'[x] = mailbox[x]
           /\ mailbox[s] \in Seq(Calls) /\ mailbox[s] # <<>> /\ mailbox'[s] = Tail(mailbox[s])
           /\ Head(mailbox[s]) \in Calls /\ Placed(s, Head(mailbox[s]))
<1> DEFINE call == Head(mailbox[s])
<1>1. /\ mailbox[s] \in Seq(Calls) /\ mailbox[s] # <<>> /\ \A c \in ToSet(mailbox[s]) : Placed(s, c)
      /\ mailbox' = [mailbox EXCEPT ![s] = Tail(mailbox[s])] /\ mailbox \in [Shards -> Seq(Calls)]
      /\ UNCHANGED <<auto, shardOf>>
      BY DEF ShardTyped, Execute, fixedVars
<1>2. /\ Tail(mailbox[s]) \in Seq(Calls) /\ call \in Calls
      /\ ToSet(mailbox[s]) = {call} \cup ToSet(Tail(mailbox[s]))
      BY <1>1, Tails
<1>3. /\ \A x \in Shards : mailbox'[x] = IF x = s THEN Tail(mailbox[s]) ELSE mailbox[x]
      /\ mailbox' \in [Shards -> Seq(Calls)]
      BY <1>1, <1>2
<1>4. \A x \in Shards : \A c \in ToSet(mailbox'[x]) : Placed(x, c)
      BY <1>1, <1>2, <1>3 DEF ShardTyped
<1>5. Queues'
      BY <1>3, <1>4 DEF Queues, Placed
<1>6. Placed(s, call)
      BY <1>1, <1>2
<1>7. \/ AddPair(s, call) \/ AddReturn(s, call) \/ AddResponse(s, call)
      \/ Truncate(s, call) \/ GetSize(s, call) \/ GetItems(s, call) \/ ClearShard(s, call)
      BY DEF Execute
<1> HIDE DEF call
<1>8. /\ current \in [Envs -> Seq(Returns)] /\ active \in [AllKeys -> Seq(Row)]
      /\ stored \in [Shards -> Seq(Episode)] /\ sizes \in [Shards -> Nat \cup {-1}]
      /\ \A x \in Shards : \A p \in ToSet(stored[x]) : HasRows(p) /\ shardOf[p.key[1]] = x
      /\ delivered \subseteq Episode /\ dropped \subseteq Episode
      /\ counted \in [Shards -> SUBSET Episode] /\ torn \subseteq Envs
      /\ auto \in BOOLEAN /\ shardOf \in [Envs -> Shards]
      BY DEF ShardTyped
<1> DEFINE Rest ==
         /\ current' \in [Envs -> Seq(Returns)] /\ active' \in [AllKeys -> Seq(Row)]
         /\ stored' \in [Shards -> Seq(Episode)] /\ sizes' \in [Shards -> Nat \cup {-1}]
         /\ \A x \in Shards : \A p \in ToSet(stored'[x]) : HasRows(p) /\ shardOf[p.key[1]] = x
         /\ delivered' \subseteq Episode /\ dropped' \subseteq Episode
         /\ counted' \in [Shards -> SUBSET Episode] /\ torn' \subseteq Envs
<1>9. ASSUME NEW e \in Envs, NEW row \in Row, AddRow(s, e, row), shardOf[e] = s,
             current' \in [Envs -> Seq(Returns)], UNCHANGED <<sizes, delivered, counted>>
      PROVE  Rest
  <2>1. /\ active' \in [AllKeys -> Seq(Row)]
        /\ GrownOf(e, row) \subseteq Episode /\ \A p \in GrownOf(e, row) : p.key[1] = e
        /\ torn' = Torn({}, GrownOf(e, row)) /\ \E t : Pushes(s, GrownOf(e, row), t)
        BY <1>9, RowAdded
  <2>2. /\ stored' \in [Shards -> Seq(Episode)] /\ dropped' \subseteq Episode
        /\ \A x \in Shards : \A p \in ToSet(stored'[x]) : HasRows(p) /\ shardOf[p.key[1]] = x
        BY <1>9, <2>1, PushTyped
  <2>3. torn' \subseteq Envs
        BY <1>8, <2>1, TornTyped
  <2> QED BY <1>8, <1>9, <2>1, <2>2, <2>3
<1>10. ASSUME AddPair(s, call) PROVE Rest
  <2>1. call.op = "pair" /\ AddRow(s, call.ret.env, Transition(call.ret, call.ret))
        /\ current' = [current EXCEPT ![call.ret.env] = <<call.ret>>]
        /\ UNCHANGED <<sizes, delivered, counted>>
        BY <1>10 DEF AddPair
  <2>2. call.ret \in Returns /\ call.ret.env \in Envs /\ shardOf[call.ret.env] = s
        BY <1>2, <1>6, <2>1, CallIs DEF Placed, Carries
  <2>3. Transition(call.ret, call.ret) \in Row
        BY <2>2 DEF Transition, Row
  <2>4. current' \in [Envs -> Seq(Returns)]
    <3>1. <<call.ret>> \in Seq(Returns)
          BY <2>2
    <3> QED BY <1>8, <2>1, <3>1
  <2> QED BY <1>9, <2>1, <2>2, <2>3, <2>4
<1>11. ASSUME AddReturn(s, call) PROVE Rest
  <2>1. call.op = "return" /\ current' = [current EXCEPT ![call.ret.env] = <<call.ret>>]
        /\ UNCHANGED <<active, stored, sizes, delivered, dropped, counted, torn>>
        BY <1>11 DEF AddReturn
  <2>2. call.ret \in Returns
        BY <1>2, <2>1, CallIs
  <2>3. <<call.ret>> \in Seq(Returns)
        BY <2>2
  <2> QED BY <1>8, <2>1, <2>3
<1>12. ASSUME AddResponse(s, call) PROVE Rest
  <2>1. call.op = "response" /\ current[call.ret.env] # <<>>
        /\ AddRow(s, call.ret.env, Transition(current[call.ret.env][1], call.ret))
        /\ UNCHANGED <<current, sizes, delivered, counted>>
        BY <1>12 DEF AddResponse
  <2>2. call.ret \in Returns /\ call.ret.env \in Envs /\ shardOf[call.ret.env] = s
        BY <1>2, <1>6, <2>1, CallIs DEF Placed, Carries
  <2>3. current[call.ret.env][1] \in Returns
        BY <1>8, <2>1, <2>2
  <2>4. Transition(current[call.ret.env][1], call.ret) \in Row
        BY <2>2, <2>3 DEF Transition, Row
  <2> QED BY <1>8, <1>9, <2>1, <2>2, <2>4
<1>13. ASSUME Truncate(s, call) PROVE Rest
  <2>1. call.op = "truncate" /\ UNCHANGED <<current, sizes, delivered, counted>>
        BY <1>13 DEF Truncate
  <2>2. /\ active' \in [AllKeys -> Seq(Row)] /\ OpenOf(TakenBy(call)) \subseteq Episode
        /\ torn' = Torn(MissedBy(call), OpenOf(TakenBy(call)))
        /\ \E t : Pushes(s, OpenOf(TakenBy(call)), t)
        BY <1>2, <1>13, <2>1, Truncates
  <2>3. (\A p \in OpenOf(TakenBy(call)) : shardOf[p.key[1]] = s) /\ MissedBy(call) \subseteq Envs
        BY <1>2, <1>6, <2>1, TakenTyped
  <2>4. /\ stored' \in [Shards -> Seq(Episode)] /\ dropped' \subseteq Episode
        /\ \A x \in Shards : \A p \in ToSet(stored'[x]) : HasRows(p) /\ shardOf[p.key[1]] = x
        BY <2>2, <2>3, PushTyped
  <2>5. torn' \subseteq Envs
        BY <1>8, <2>2, <2>3, TornTyped
  <2> QED BY <1>8, <2>1, <2>2, <2>4, <2>5
<1>14. ASSUME GetSize(s, call) PROVE Rest
  <2>1. /\ sizes' = [sizes EXCEPT ![s] = LengthOf(stored[s])]
        /\ counted' = [counted EXCEPT ![s] = ToSet(stored[s])]
        /\ UNCHANGED <<active, current, stored, delivered, dropped, torn>>
        BY <1>14 DEF GetSize
  <2>2. LengthOf(stored[s]) \in Nat
        BY SizeTyped
  <2>3. ToSet(stored[s]) \subseteq Episode
        BY <1>8 DEF ToSet
  <2> QED BY <1>8, <2>1, <2>2, <2>3
<1>15. ASSUME GetItems(s, call) PROVE Rest
  <2>1. /\ delivered' = delivered \cup EpisodesBelow(stored[s], call.n)
        /\ UNCHANGED <<active, current, stored, sizes, dropped, counted, torn>>
        BY <1>15 DEF GetItems
  <2>2. EpisodesBelow(stored[s], call.n) \subseteq Episode
        BY <1>8 DEF EpisodesBelow
  <2> QED BY <1>8, <2>1, <2>2
<1>16. ASSUME ClearShard(s, call) PROVE Rest
  <2>1. /\ stored' = [stored EXCEPT ![s] = <<>>]
        /\ dropped' = dropped \cup (ToSet(stored[s]) \ delivered)
        /\ UNCHANGED <<active, current, sizes, delivered, counted, torn>>
        BY <1>16 DEF ClearShard
  <2>2. ToSet(stored[s]) \subseteq Episode
        BY <1>8 DEF ToSet
  <2>3. <<>> \in Seq(Episode) /\ ToSet(<<>>) = {}
        BY DEF ToSet
  <2>4. \A x \in Shards : stored'[x] = IF x = s THEN <<>> ELSE stored[x]
        BY <1>8, <2>1
  <2> QED BY <1>8, <2>1, <2>2, <2>3, <2>4
<1>17. Rest
       BY <1>7, <1>10, <1>11, <1>12, <1>13, <1>14, <1>15, <1>16
<1>18. ShardTyped'
       BY <1>1, <1>5, <1>8, <1>17 DEF ShardTyped, Queues, HasRows
<1> QED BY <1>1, <1>2, <1>3, <1>6, <1>18 DEF call
-----------------------------------------------------------------------------
LEMMA InitTyped == Init => Typed
<1> SUFFICES ASSUME Init PROVE Typed
    OBVIOUS
<1>1. /\ \E c \in Configs : /\ loop = c.loop /\ auto = c.auto /\ epochs = c.epochs
                            /\ rollout_epoch = c.rollout_epoch
      /\ round = 1
      /\ EnvInit /\ BufferInit /\ pc = "reset"
      /\ batch = Empty /\ flags = {} /\ iter = 0 /\ taken = [e \in Envs |-> 0] /\ last = Empty
      /\ running = TRUE /\ spc = "idle" /\ asked = 0 /\ samples = 0
      BY DEF Init
<1>2. EnvTyped
  <2>1. [resets |-> 0, steps |-> 0] \in Positions
        BY DEF Positions
  <2> QED BY <1>1, <2>1 DEF EnvInit, EnvTyped
<1>3. loop \in {"sync", "rsl", "async"} /\ auto \in BOOLEAN /\ epochs \in Nat \ {0}
      /\ rollout_epoch \in Nat \ {0}
      BY <1>1, ConfigsAssumption
<1>4. RollTyped
      BY <1>1, <1>3 DEF RollTyped, Empty
<1>5. SampleTyped
  <2>1. Len(shards) \in Nat
    <3>1. IsFiniteSet(Shards)
      <4>1. NumShards \in Nat
            BY NumShardsAssumption
      <4> QED BY <4>1, FS_Interval, 1 \in Int, NumShards \in Int DEF Shards
    <3>2. SetToSeq(Shards) \in Seq(Shards)
          BY <3>1, InTurn
    <3> QED BY <3>2 DEF shards
  <2> QED BY <1>1, <2>1 DEF SampleTyped
<1>6. ShardTyped
  <2>1. shardOf \in [Envs -> Shards]
        BY <1>1, TableComplete DEF BufferInit
  <2>2. mailbox = [s \in Shards |-> <<>>] /\ current = [e \in Envs |-> <<>>]
        /\ active = [k \in AllKeys |-> <<>>] /\ stored = [s \in Shards |-> <<>>]
        /\ sizes = [s \in Shards |-> -1] /\ delivered = {} /\ dropped = {}
        /\ counted = [s \in Shards |-> {}] /\ torn = {}
        BY <1>1 DEF BufferInit
  <2>3. <<>> \in Seq(Calls) /\ <<>> \in Seq(Returns) /\ <<>> \in Seq(Row) /\ <<>> \in Seq(Episode)
        /\ ToSet(<<>>) = {}
        BY DEF ToSet
  <2>4. /\ mailbox \in [Shards -> Seq(Calls)] /\ current \in [Envs -> Seq(Returns)]
        /\ active \in [AllKeys -> Seq(Row)] /\ stored \in [Shards -> Seq(Episode)]
        /\ sizes \in [Shards -> Nat \cup {-1}] /\ counted \in [Shards -> SUBSET Episode]
        BY <2>2, <2>3
  <2>5. /\ \A s \in Shards : \A c \in ToSet(mailbox[s]) : Placed(s, c)
        /\ \A s \in Shards : \A p \in ToSet(stored[s]) : HasRows(p) /\ shardOf[p.key[1]] = s
        BY <2>2, <2>3
  <2> QED BY <1>3, <2>1, <2>2, <2>4, <2>5 DEF ShardTyped
<1> QED BY <1>1, <1>2, <1>4, <1>5, <1>6 DEF Typed

\* What the shards hold does not change.
LEMMA QueuesTyped ==
    ASSUME ShardTyped, Queues', UNCHANGED <<fixedVars, shardVars, loop>> PROVE ShardTyped'
BY DEF ShardTyped, Queues, fixedVars, shardVars, HasRows, Placed

LEMMA BufferTyped == ASSUME ShardTyped, UNCHANGED <<bufferVars, loop>> PROVE ShardTyped'
BY DEF ShardTyped, bufferVars, fixedVars, shardVars, HasRows, Placed

LEMMA EnvSame == ASSUME EnvTyped, UNCHANGED envVars PROVE EnvTyped'
BY DEF EnvTyped, envVars, OfEnv

LEMMA TruncationsIn == ASSUME NEW b \in SUBSET Envs PROVE TruncationsOf(b) \subseteq Envs
BY DEF TruncationsOf

LEMMA RollingTyped ==
    ASSUME Typed, pc = "truncate" => loop = "rsl", Rolling
    PROVE  EnvTyped' /\ RollTyped' /\ SampleTyped' /\ ShardTyped'
<1>0. EnvTyped /\ RollTyped /\ SampleTyped /\ ShardTyped
      BY DEF Typed
<1>1. /\ loop \in {"sync", "rsl", "async"} /\ running \in BOOLEAN
      /\ DOMAIN batch \subseteq Envs /\ \A e \in DOMAIN batch : OfEnv(e, batch[e])
      /\ DOMAIN last \subseteq Envs /\ \A e \in DOMAIN last : OfEnv(e, last[e])
      /\ flags \subseteq Envs /\ iter \in Nat /\ taken \in [Envs -> Nat]
      /\ epochs \in Nat /\ (pc # "done" => epochs > 0)
      /\ rollout_epoch \in Nat /\ round \in 1..rollout_epoch
      BY <1>0 DEF RollTyped
<1>2. /\ spc \in {"idle", "poll", "check", "sizes", "get", "clear", "failed"}
      /\ loop # "async" /\ spc # "idle" => pc = "rolled_out"
      /\ asked \in 0..Len(shards) /\ samples \in Nat
      BY <1>0 DEF SampleTyped
<1>3. /\ CallsFor(PairCalls(batch, flags)) /\ CallsFor(ReturnCalls(batch))
      /\ CallsFor(ResponseCalls(batch, flags)) /\ CallsFor(ResponseCalls(batch, {}))
      /\ CallsFor(ReturnCalls(last))
      BY <1>1, BatchCalls
<1>4. ASSUME Reset PROVE EnvTyped' /\ RollTyped' /\ SampleTyped' /\ ShardTyped'
  <2>1. /\ pc = "reset" /\ ResetAll(inAutoReset) /\ batch' = ResetReturns /\ iter' = 0
        /\ flags' = (IF inAutoReset THEN TruncationsOf(Envs) ELSE {})
        /\ UNCHANGED <<loop, taken, last, epochs, rollout_epoch, round, running, bufferVars, samplerVars>>
        BY <1>4 DEF Reset
  <2>2. EnvTyped' /\ (\A e \in Envs : OfEnv(e, ResetReturns[e])) /\ DOMAIN ResetReturns = Envs
        BY <1>0, <2>1, EnvMoves
  <2>3. flags' \subseteq Envs
        BY <2>1, TruncationsIn
  <2>4. RollTyped'
        BY <1>1, <2>1, <2>2, <2>3 DEF RollTyped, OfEnv
  <2>5. SampleTyped'
        BY <1>2, <2>1 DEF SampleTyped, samplerVars
  <2> QED BY <1>0, <2>1, <2>2, <2>4, <2>5, BufferTyped
<1>5. ASSUME StorePairs PROVE EnvTyped' /\ RollTyped' /\ SampleTyped' /\ ShardTyped'
  <2>1. /\ pc = "store_pairs" /\ Submit(PairCalls(batch, flags))
        /\ round' = round \/ round' = 1 \/ (round < rollout_epoch /\ round' = round + 1)
        /\ UNCHANGED <<loop, batch, flags, iter, taken, last, epochs, rollout_epoch, running, fixedVars, shardVars,
                       envVars, samplerVars>>
        BY <1>5 DEF StorePairs, SubmitPairs, PairCalls
  <2>2. RollTyped' /\ SampleTyped'
        BY <1>1, <1>2, <2>1 DEF RollTyped, SampleTyped, samplerVars, OfEnv
  <2>3. Queues'
        BY <1>0, <1>3, <2>1, SubmitQueues DEF fixedVars
  <2> QED BY <1>0, <2>1, <2>2, <2>3, QueuesTyped, EnvSame
<1>6. ASSUME Step PROVE EnvTyped' /\ RollTyped' /\ SampleTyped' /\ ShardTyped'
  <2>1. /\ pc = "step" /\ StepAll /\ batch' \in StepReturns([e \in Envs |-> Ends(e)])
        /\ flags' = TruncationsOf(Envs) /\ iter' = iter + 1
        /\ UNCHANGED <<loop, taken, last, epochs, rollout_epoch, round, running, bufferVars, samplerVars>>
        BY <1>6 DEF Step
  <2>2. EnvTyped'
        BY <1>0, <2>1, EnvMoves
  <2>3. DOMAIN batch' = Envs /\ \A e \in Envs : OfEnv(e, batch'[e])
    <3>1. /\ DOMAIN batch' = Envs
          /\ \A e \in Envs :
                \/ batch'[e] = ReturnOf(e, After("reset", position[e]), {})
                \/ \E ended \in Ends(e) : batch'[e] = ReturnOf(e, After("step", position[e]), ended)
          BY <2>1 DEF StepReturns
    <3>2. \A e \in Envs : position[e] \in Positions
          BY <1>0 DEF EnvTyped
    <3>3. \A e \in Envs : \A ended \in Ends(e) : ended = {} \/ ended \subseteq SubEnvs[e]
          BY DEF Ends
    <3>4. \A e \in Envs : /\ OfEnv(e, ReturnOf(e, After("reset", position[e]), {}))
                          /\ \A ended \in Ends(e) : OfEnv(e, ReturnOf(e, After("step", position[e]), ended))
          BY <3>2, <3>3, ReturnsTyped
    <3> QED BY <3>1, <3>4
  <2>4. RollTyped'
        BY <1>1, <2>1, <2>3, TruncationsIn DEF RollTyped, OfEnv
  <2>5. SampleTyped'
        BY <1>2, <2>1 DEF SampleTyped, samplerVars
  <2> QED BY <1>0, <2>1, <2>2, <2>4, <2>5, BufferTyped
<1>7. ASSUME StoreReturns PROVE EnvTyped' /\ RollTyped' /\ SampleTyped' /\ ShardTyped'
  <2>1. /\ pc = "store_returns" /\ Submit(ReturnCalls(batch))
        /\ UNCHANGED <<loop, batch, flags, iter, taken, last, epochs, rollout_epoch, round, running, fixedVars, shardVars,
                       envVars, samplerVars>>
        BY <1>7 DEF StoreReturns, SubmitReturns, ReturnCalls
  <2>2. RollTyped' /\ SampleTyped'
        BY <1>1, <1>2, <2>1 DEF RollTyped, SampleTyped, samplerVars, OfEnv
  <2>3. Queues'
        BY <1>0, <1>3, <2>1, SubmitQueues DEF fixedVars
  <2> QED BY <1>0, <2>1, <2>2, <2>3, QueuesTyped, EnvSame
<1>8. ASSUME StoreResponses PROVE EnvTyped' /\ RollTyped' /\ SampleTyped' /\ ShardTyped'
  <2>1. /\ pc = "store_responses" /\ Submit(ResponseCalls(batch, flags))
        /\ UNCHANGED <<loop, batch, flags, iter, taken, last, epochs, rollout_epoch, round, running, fixedVars, shardVars,
                       envVars, samplerVars>>
        BY <1>8 DEF StoreResponses, SubmitResponses, ResponseCalls
  <2>2. RollTyped' /\ SampleTyped'
        BY <1>1, <1>2, <2>1 DEF RollTyped, SampleTyped, samplerVars, OfEnv
  <2>3. Queues'
        BY <1>0, <1>3, <2>1, SubmitQueues DEF fixedVars
  <2> QED BY <1>0, <2>1, <2>2, <2>3, QueuesTyped, EnvSame
<1>9. ASSUME SubmitSteps PROVE EnvTyped' /\ RollTyped' /\ SampleTyped' /\ ShardTyped'
  <2>1. /\ pc = "step_async" /\ StepAsync(DOMAIN batch, inAutoReset)
        /\ UNCHANGED <<loop, batch, flags, iter, taken, last, epochs, rollout_epoch, round, running, bufferVars, samplerVars>>
        BY <1>9 DEF SubmitSteps
  <2>2. RollTyped' /\ SampleTyped'
        BY <1>1, <1>2, <2>1 DEF RollTyped, SampleTyped, samplerVars, OfEnv
  <2>3. EnvTyped'
        BY <1>0, <2>1, EnvMoves
  <2> QED BY <1>0, <2>1, <2>2, <2>3, BufferTyped
<1>10. ASSUME Collect PROVE EnvTyped' /\ RollTyped' /\ SampleTyped' /\ ShardTyped'
  <2>1. /\ pc = "collect" /\ CollectAsync(inAutoReset) /\ batch' = Collected /\ flags' = TruncationsOf(Ready)
        /\ UNCHANGED <<loop, iter, taken, last, epochs, rollout_epoch, round, running, bufferVars, samplerVars>>
        BY <1>10 DEF Collect
  <2>2. /\ Ready \subseteq Envs /\ DOMAIN Collected = Ready
        /\ \A e \in Ready : OfEnv(e, Collected[e])
        BY <1>0, CollectedIs
  <2>3. EnvTyped'
        BY <1>0, <2>1, EnvMoves
  <2>4. RollTyped'
        BY <1>1, <2>1, <2>2, TruncationsIn DEF RollTyped, OfEnv
  <2>5. SampleTyped'
        BY <1>2, <2>1 DEF SampleTyped, samplerVars
  <2> QED BY <1>0, <2>1, <2>3, <2>4, <2>5, BufferTyped
<1>11. ASSUME CollectRsl PROVE EnvTyped' /\ RollTyped' /\ SampleTyped' /\ ShardTyped'
  <2> DEFINE finished == {e \in Ready : taken[e] + 1 = MaxSteps}
             all == DOMAIN last \cup finished
  <2>1. /\ pc = "collect" /\ CollectAsync(inAutoReset)
        /\ taken' = [e \in Envs |-> IF e \in Ready THEN taken[e] + 1 ELSE taken[e]]
        /\ last' = [e \in all |-> IF e \in finished THEN Collected[e] ELSE last[e]]
        /\ batch' = [e \in Ready \ finished |-> Collected[e]]
        /\ UNCHANGED <<loop, flags, iter, epochs, rollout_epoch, round, running, bufferVars, samplerVars>>
        BY <1>11 DEF CollectRsl, Only
  <2>2. /\ Ready \subseteq Envs /\ \A e \in Ready : OfEnv(e, Collected[e])
        BY <1>0, CollectedIs
  <2>3. EnvTyped'
        BY <1>0, <2>1, EnvMoves
  <2>4. DOMAIN batch' \subseteq Envs /\ \A e \in DOMAIN batch' : OfEnv(e, batch'[e])
        BY <2>1, <2>2
  <2>5. DOMAIN last' \subseteq Envs /\ \A e \in DOMAIN last' : OfEnv(e, last'[e])
        BY <1>1, <2>1, <2>2
  <2>6. taken' \in [Envs -> Nat]
        BY <1>1, <2>1
  <2>7. RollTyped'
        BY <1>1, <2>1, <2>4, <2>5, <2>6 DEF RollTyped, OfEnv
  <2>8. SampleTyped'
        BY <1>2, <2>1 DEF SampleTyped, samplerVars
  <2> QED BY <1>0, <2>1, <2>3, <2>7, <2>8, BufferTyped
<1>12. ASSUME StoreLast PROVE EnvTyped' /\ RollTyped' /\ SampleTyped' /\ ShardTyped'
  <2>1. /\ pc = "store_last" /\ Submit(ReturnCalls(last)) /\ batch' = last
        /\ UNCHANGED <<loop, flags, iter, taken, last, epochs, rollout_epoch, round, running, fixedVars, shardVars, envVars, samplerVars>>
        BY <1>12 DEF StoreLast, SubmitReturns, ReturnCalls
  <2>2. RollTyped' /\ SampleTyped'
        BY <1>1, <1>2, <2>1 DEF RollTyped, SampleTyped, samplerVars, OfEnv
  <2>3. Queues'
        BY <1>0, <1>3, <2>1, SubmitQueues DEF fixedVars
  <2> QED BY <1>0, <2>1, <2>2, <2>3, QueuesTyped, EnvSame
<1>13. ASSUME StoreLastResponses PROVE EnvTyped' /\ RollTyped' /\ SampleTyped' /\ ShardTyped'
  <2>1. /\ pc = "store_last_responses" /\ Submit(ResponseCalls(batch, {}))
        /\ UNCHANGED <<loop, batch, flags, iter, taken, last, epochs, rollout_epoch, round, running, fixedVars, shardVars,
                       envVars, samplerVars>>
        BY <1>13 DEF StoreLastResponses, SubmitResponses, ResponseCalls
  <2>2. RollTyped' /\ SampleTyped'
        BY <1>1, <1>2, <2>1 DEF RollTyped, SampleTyped, samplerVars, OfEnv
  <2>3. Queues'
        BY <1>0, <1>3, <2>1, SubmitQueues DEF fixedVars
  <2> QED BY <1>0, <2>1, <2>2, <2>3, QueuesTyped, EnvSame
<1>14. ASSUME TruncateAll PROVE EnvTyped' /\ RollTyped' /\ SampleTyped' /\ ShardTyped'
  <2>1. /\ pc = "truncate" /\ SubmitTruncations(DOMAIN batch)
        /\ taken' = [e \in Envs |-> 0] /\ last' = Empty
        /\ UNCHANGED <<loop, batch, flags, iter, epochs, rollout_epoch, round, running, fixedVars, shardVars, envVars, samplerVars>>
        BY <1>14 DEF TruncateAll
  <2>2. RollTyped'
        BY <1>1, <2>1 DEF RollTyped, OfEnv, Empty
  <2>3. SampleTyped'
        BY <1>2, <2>1 DEF SampleTyped, samplerVars
  <2>4. Queues'
        BY <1>0, <1>1, <2>1, TruncationQueues DEF fixedVars
  <2> QED BY <1>0, <2>1, <2>2, <2>3, <2>4, QueuesTyped, EnvSame
<1>15. ASSUME NextEpoch PROVE EnvTyped' /\ RollTyped' /\ SampleTyped' /\ ShardTyped'
  <2>1. /\ pc = "sampled" /\ epochs' = epochs - 1 /\ (epochs' = 0 => pc' = "done")
        /\ UNCHANGED <<loop, batch, flags, iter, taken, last, rollout_epoch, round, running, envVars, bufferVars, samplerVars>>
        BY <1>15 DEF NextEpoch, Goto
  <2>2. RollTyped'
        BY <1>1, <2>1 DEF RollTyped, OfEnv
  <2>3. SampleTyped'
        BY <1>2, <2>1 DEF SampleTyped, samplerVars
  <2> QED BY <1>0, <2>1, <2>2, <2>3, BufferTyped, EnvSame
<1> QED BY <1>4, <1>5, <1>6, <1>7, <1>8, <1>9, <1>10, <1>11, <1>12, <1>13, <1>14, <1>15 DEF Rolling

\* The shards in the order in which they are asked.
LEMMA InOrder ==
    /\ shards \in Seq(Shards) /\ Len(shards) \in Nat /\ DOMAIN shards = 1..Len(shards)
    /\ \A i \in 1..Len(shards) : shards[i] \in Shards
    /\ \A i, j \in 1..Len(shards) : shards[i] = shards[j] => i = j
    /\ \A s \in Shards : \E i \in 1..Len(shards) : shards[i] = s
<1>1. IsFiniteSet(Shards)
  <2>1. NumShards \in Nat
        BY NumShardsAssumption
  <2> QED BY <2>1, FS_Interval, 1 \in Int, NumShards \in Int DEF Shards
<1> DEFINE q == SetToSeq(Shards)
<1>2. /\ q \in Seq(Shards) /\ \A i, j \in DOMAIN q : q[i] = q[j] => i = j
      /\ \A d \in Shards : \E i \in DOMAIN q : q[i] = d
      BY <1>1, InTurn
<1> HIDE DEF q
<1>3. q = shards /\ DOMAIN q = 1..Len(q) /\ Len(q) \in Nat /\ \A i \in DOMAIN q : q[i] \in Shards
      BY <1>2 DEF q, shards
<1> QED BY <1>2, <1>3

LEMMA SizeCall == [op |-> "size"] \in Calls /\ [op |-> "clear"] \in Calls
BY DEF Calls

LEMMA SamplingTyped ==
    ASSUME Typed, Sampling
    PROVE  EnvTyped' /\ RollTyped' /\ SampleTyped' /\ ShardTyped'
<1>0. EnvTyped /\ RollTyped /\ SampleTyped /\ ShardTyped
      BY DEF Typed
<1>2. /\ spc \in {"idle", "poll", "check", "sizes", "get", "clear", "failed"}
      /\ loop # "async" /\ spc # "idle" => pc = "rolled_out"
      /\ asked \in 0..Len(shards) /\ samples \in Nat /\ loop \in {"sync", "rsl", "async"}
      BY <1>0 DEF SampleTyped, RollTyped
<1>3. UNCHANGED <<loop, shardOf>>
      BY Constant DEF Next
<1>4. ASSUME StartSampling PROVE EnvTyped' /\ RollTyped' /\ SampleTyped' /\ ShardTyped'
  <2>1. /\ (loop = "async" \/ pc = "rolled_out") /\ spc' \in {"poll", "check"} /\ asked' = 0
        /\ UNCHANGED <<samples, rolloutVars, envVars, bufferVars>>
        BY <1>4 DEF StartSampling
  <2>2. RollTyped' /\ UNCHANGED <<loop, pc>>
        BY <1>0, <2>1 DEF RollTyped, rolloutVars, OfEnv
  <2>3. 0 \in 0..Len(shards)
        BY InOrder
  <2>4. SampleTyped'
        BY <1>2, <2>1, <2>2, <2>3 DEF SampleTyped, shards
  <2> QED BY <1>0, <2>1, <2>2, <2>4, EnvSame, BufferTyped
<1>5. ASSUME AskSize PROVE EnvTyped' /\ RollTyped' /\ SampleTyped' /\ ShardTyped'
  <2> DEFINE s == shards[asked + 1]
  <2>1. /\ asked < Len(shards) /\ asked' = asked + 1
        /\ mailbox' = [mailbox EXCEPT ![s] = Append(@, [op |-> "size"])]
        /\ sizes' = [sizes EXCEPT ![s] = -1]
        /\ UNCHANGED <<spc, samples, rolloutVars, envVars, fixedVars, current, active, stored, delivered,
                       dropped, counted, torn>>
        BY <1>5 DEF AskSize, SubmitTo
  <2>2. asked + 1 \in 1..Len(shards) /\ asked + 1 \in 0..Len(shards)
        BY <1>2, <2>1, InOrder
  <2>3. s \in Shards
        BY <2>2, InOrder
  <2> HIDE DEF s
  <2>4. RollTyped' /\ UNCHANGED <<loop, pc>>
        BY <1>0, <2>1 DEF RollTyped, rolloutVars, OfEnv
  <2>5. SampleTyped'
        BY <1>2, <2>1, <2>2, <2>4 DEF SampleTyped, shards
  <2>6. Queues'
    <3> DEFINE call == [x \in Shards |-> [op |-> "size"]]
    <3>1. \A x \in Shards : call[x] = [op |-> "size"]
          OBVIOUS
    <3> HIDE DEF call
    <3>2. \A x \in Shards : call[x] \in Calls /\ call[x].op \in {"size", "get", "clear"}
          BY <3>1, SizeCall
    <3>3. mailbox' = [mailbox EXCEPT ![s] = Append(@, call[s])]
          BY <2>1, <2>3, <3>1
    <3> QED BY <1>0, <1>3, <2>3, <3>2, <3>3, SampleQueues
  <2>7. ShardTyped'
    <3>1. sizes' \in [Shards -> Nat \cup {-1}]
          BY <1>0, <2>1 DEF ShardTyped
    <3> QED BY <1>0, <2>1, <2>4, <2>6, <3>1 DEF ShardTyped, Queues, fixedVars, HasRows, Placed
  <2> QED BY <1>0, <2>1, <2>4, <2>5, <2>7, EnvSame
<1>6. ASSUME Decide PROVE EnvTyped' /\ RollTyped' /\ SampleTyped' /\ ShardTyped'
  <2>1. /\ spc \in {"poll", "check", "sizes"} /\ asked' = 0
        /\ spc' \in {"poll", "check", "sizes", "get", "failed"}
        /\ UNCHANGED <<samples, rolloutVars, envVars, bufferVars>>
        BY <1>6 DEF Decide, Rounds
  <2>2. RollTyped' /\ UNCHANGED <<loop, pc>>
        BY <1>0, <2>1 DEF RollTyped, rolloutVars, OfEnv
  <2>3. 0 \in 0..Len(shards)
        BY InOrder
  <2>4. SampleTyped'
        BY <1>2, <2>1, <2>2, <2>3 DEF SampleTyped, shards
  <2> QED BY <1>0, <2>1, <2>2, <2>4, EnvSame, BufferTyped
<1>7. ASSUME Get PROVE EnvTyped' /\ RollTyped' /\ SampleTyped' /\ ShardTyped'
  <2> DEFINE call == [s \in Shards |-> [op |-> "get", n |-> sizes[s]]]
  <2>1. /\ spc = "get" /\ spc' = "clear" /\ SubmitToAll(call)
        /\ UNCHANGED <<asked, samples, rolloutVars, envVars, fixedVars, shardVars>>
        BY <1>7 DEF Get
  <2>2. RollTyped' /\ UNCHANGED <<loop, pc>>
        BY <1>0, <2>1 DEF RollTyped, rolloutVars, OfEnv
  <2>3. SampleTyped'
        BY <1>2, <2>1, <2>2 DEF SampleTyped, shards
  <2>4. \A x \in Shards : call[x] \in Calls /\ call[x].op \in {"size", "get", "clear"}
    <3> SUFFICES ASSUME NEW x \in Shards PROVE call[x] \in Calls /\ call[x].op \in {"size", "get", "clear"}
        OBVIOUS
    <3>1. sizes[x] \in Int
          BY <1>0 DEF ShardTyped
    <3>2. call[x] = [op |-> "get", n |-> sizes[x]]
          OBVIOUS
    <3> HIDE DEF call
    <3>3. call[x] \in [op : {"get"}, n : Int]
          BY <3>1, <3>2
    <3> QED BY <3>2, <3>3 DEF Calls
  <2>5. Queues'
    <3> HIDE DEF call
    <3> QED BY <1>0, <1>3, <2>1, <2>4, SampleQueues
  <2> QED BY <1>0, <2>1, <2>2, <2>3, <2>5, QueuesTyped, EnvSame
<1>8. ASSUME Clear PROVE EnvTyped' /\ RollTyped' /\ SampleTyped' /\ ShardTyped'
  <2> DEFINE call == [s \in Shards |-> [op |-> "clear"]]
  <2>1. /\ spc = "clear" /\ spc' = "idle" /\ SubmitToAll(call) /\ samples' = samples + 1
        /\ pc' = (IF loop = "async" THEN pc ELSE "sampled")
        /\ UNCHANGED <<asked, loop, batch, flags, iter, taken, last, epochs, rollout_epoch, round, running, envVars, fixedVars, shardVars>>
        BY <1>8 DEF Clear
  <2>2. RollTyped'
    <3>1. pc' # "done" => pc # "done"
          BY <1>2, <2>1
    <3> QED BY <1>0, <2>1, <3>1 DEF RollTyped, OfEnv
  <2>3. SampleTyped'
        BY <1>2, <2>1 DEF SampleTyped, shards
  <2>4. \A x \in Shards : call[x] \in Calls /\ call[x].op \in {"size", "get", "clear"}
        BY SizeCall
  <2>5. Queues'
    <3> HIDE DEF call
    <3> QED BY <1>0, <1>3, <2>1, <2>4, SampleQueues
  <2> QED BY <1>0, <2>1, <2>2, <2>3, <2>5, QueuesTyped, EnvSame
<1> QED BY <1>4, <1>5, <1>6, <1>7, <1>8 DEF Sampling

LEMMA NextTyped == ASSUME Typed, pc = "truncate" => loop = "rsl", Next PROVE Typed'
<1>0. EnvTyped /\ RollTyped /\ SampleTyped /\ ShardTyped
      BY DEF Typed
<1>1. UNCHANGED <<loop, auto, shardOf>>
      BY Constant
<1>2. CASE Rolling
      BY <1>1, <1>2, RollingTyped DEF Typed
<1>3. CASE Sampling
      BY <1>1, <1>3, SamplingTyped DEF Typed
<1>4. ASSUME NEW e \in Envs, FinishTask(e) PROVE Typed'
  <2>1. UNCHANGED <<bufferVars, rolloutVars, samplerVars>>
        BY <1>4 DEF FinishTask
  <2>2. EnvTyped'
        BY <1>0, <1>4, EnvMoves
  <2>3. RollTyped' /\ SampleTyped'
        BY <1>0, <2>1 DEF RollTyped, SampleTyped, rolloutVars, samplerVars, OfEnv, shards
  <2> QED BY <1>0, <1>1, <2>1, <2>2, <2>3, BufferTyped DEF Typed
<1>5. ASSUME NEW s \in Shards, ExecuteCall(s) PROVE Typed'
  <2>1. Execute(s) /\ UNCHANGED <<envVars, rolloutVars, samplerVars>>
        BY <1>5 DEF ExecuteCall
  <2>2. EnvTyped' /\ RollTyped' /\ SampleTyped'
        BY <1>0, <2>1, EnvSame DEF RollTyped, SampleTyped, rolloutVars, samplerVars, OfEnv, shards
  <2>3. ShardTyped'
        BY <1>0, <1>1, <2>1, ExecuteTyped
  <2> QED BY <1>1, <2>2, <2>3, Typed DEF Typed
<1>6. CASE Stop
  <2>1. running' = FALSE /\ UNCHANGED <<loop, pc, batch, flags, iter, taken, last, epochs, rollout_epoch, round, envVars, bufferVars, samplerVars>>
        BY <1>6 DEF Stop
  <2>2. EnvTyped' /\ RollTyped' /\ SampleTyped'
        BY <1>0, <2>1, EnvSame DEF RollTyped, SampleTyped, samplerVars, OfEnv, shards
  <2> QED BY <1>0, <1>1, <2>1, <2>2, BufferTyped DEF Typed
<1> QED BY <1>2, <1>3, <1>4, <1>5, <1>6 DEF Next

LEMMA SameTyped == ASSUME Typed, UNCHANGED vars PROVE Typed'
<1>1. EnvTyped' /\ RollTyped' /\ SampleTyped' /\ ShardTyped'
      BY EnvSame, BufferTyped
         DEF Typed, vars, RollTyped, SampleTyped, rolloutVars, samplerVars, OfEnv, shards
<1> QED BY <1>1 DEF Typed, vars, rolloutVars, bufferVars, fixedVars
-----------------------------------------------------------------------------
(***************************************************************************)
(* What the calls of a batch do to the stance of an environment.           *)
(***************************************************************************)

\* The calls of q bring every return up to d's that b did not have.
Brings(e, q, b, d) ==
    \A at \in Past(d) : at \in Past(b) \/ \E i \in DOMAIN q : /\ q[i].op \in {"pair", "response"}
                                                              /\ q[i].ret.env = e /\ At(q[i].ret) = at

\* What is submitted in this step leads e from stance b to stance d.
Extends(x, e, b, d) ==
    \E q \in Seq(Calls) : /\ mailbox'[shardOf[e]] = mailbox[shardOf[e]] \o q
                          /\ Leads(x, e, b, q, d) /\ Brings(e, q, b, d)

LEMMA PastGrows ==
    ASSUME NEW x \in BOOLEAN, NEW e \in Envs, NEW b \in Stances(x, e), NEW r, OfEnv(e, r), Due(x, b, r)
    PROVE  Past(Grown(x, b, r)) \subseteq Past(b) \cup {At(r)}
<1>1. /\ b \in Records /\ Sound(x, b) /\ b.row \in Returns /\ b.closed \in BOOLEAN
      BY DEF Stances, Records
<1>2. MaxSteps \in Nat \ {0} /\ b.row.resets \in Nat /\ b.row.steps \in Nat /\ r.resets \in Nat /\ r.steps \in Nat
      BY <1>1, MaxStepsAssumption DEF Returns, OfEnv
<1> SUFFICES ASSUME NEW at \in Past(Grown(x, b, r)), at \notin Past(b) PROVE at = At(r)
    OBVIOUS
<1>3. /\ at \in [resets : Nat, steps : Nat] /\ at.resets \in Nat /\ at.steps \in Nat /\ 1 <= at.resets
      /\ \/ at.resets < r.resets /\ at.steps <= MaxSteps
         \/ at.resets = r.resets /\ at.steps <= r.steps
      /\ ~(at.resets < b.row.resets /\ at.steps <= MaxSteps)
      /\ ~(at.resets = b.row.resets /\ at.steps <= b.row.steps)
      BY DEF Past, Grown
<1>4. at.resets = r.resets /\ at.steps = r.steps
  <2>1. CASE ~b.closed
        BY <1>2, <1>3, <2>1 DEF Due, Follows
  <2>2. CASE b.closed /\ (x \/ b.row.resets = 0)
    <3>1. r.resets = b.row.resets + 1 /\ r.steps = 0
          BY <2>2 DEF Due
    <3>2. b.row.resets > 0 => b.row.steps = MaxSteps
          BY <1>1, <1>2, <2>2 DEF Sound
    <3> QED BY <1>2, <1>3, <3>1, <3>2
  <2>3. CASE b.closed /\ ~(x \/ b.row.resets = 0)
    <3>1. r = b.row
          BY <2>3 DEF Due
    <3> QED BY <1>3, <3>1
  <2> QED BY <2>1, <2>2, <2>3
<1> QED BY <1>3, <1>4 DEF At

\* The stance after the row of r, truncated or not.
Rowed(x, b, r, cut) == IF cut THEN Closed(Grown(x, b, r)) ELSE Grown(x, b, r)

LEMMA RowLeads ==
    ASSUME NEW x \in BOOLEAN, NEW e \in Envs, NEW b \in Stances(x, e), NEW r, OfEnv(e, r),
           NEW op \in {"pair", "response"}, NEW cut \in BOOLEAN, cut => Full(x, b, r),
           IF op = "pair" THEN b.phase = "return" /\ Due(x, b, r) ELSE b.phase = "response" /\ b.cur = r,
           NEW q, q = IF cut THEN <<[op |-> op, ret |-> r]>> \o <<[op |-> "truncate", envs |-> <<e>>]>>
                      ELSE <<[op |-> op, ret |-> r]>>
    PROVE  /\ Rowed(x, b, r, cut) \in Stances(x, e)
           /\ Leads(x, e, b, q, Rowed(x, b, r, cut)) /\ Brings(e, q, b, Rowed(x, b, r, cut))
<1> DEFINE c == [op |-> op, ret |-> r]
           t == [op |-> "truncate", envs |-> <<e>>]
           g == Grown(x, b, r)
<1>1. CallFor(e, c) /\ Carries(c)
      BY CarryOf
<1>2. CallFor(e, t)
      BY TruncateOf
<1>3. Concerns(e, c) /\ Concerns(e, t) /\ c \in Calls /\ t \in Calls
      BY <1>1, <1>2, ForOne
<1>4. c.op = op /\ c.ret = r /\ t.op = "truncate" /\ r \in Returns /\ r.env = e
      BY DEF OfEnv
<1>5. g \in Stances(x, e) /\ Due(x, b, r)
      BY <1>4, Movement
<1>6. Leads(x, e, b, <<c>>, g)
  <2> HIDE DEF c
  <2>1. Does(x, e, b, c, g)
        BY <1>3, <1>4 DEF Does
  <2> QED BY <1>5, <2>1, LeadsOne
<1>7. \A at \in Past(g) : at \in Past(b) \/ at = At(c.ret)
      BY <1>4, <1>5, PastGrows
<1>8. ASSUME ~cut PROVE Rowed(x, b, r, cut) = g /\ q = <<c>>
      BY <1>8 DEF Rowed
<1>9. ASSUME cut
      PROVE  /\ Rowed(x, b, r, cut) = Closed(g) /\ Closed(g) \in Stances(x, e)
             /\ q = <<c>> \o <<t>> /\ Past(Closed(g)) = Past(g)
             /\ Leads(x, e, b, q, Closed(g))
  <2>1. Rowed(x, b, r, cut) = Closed(g) /\ q = <<c>> \o <<t>>
        BY <1>9 DEF Rowed
  <2>2. g.phase = "truncate"
        BY <1>9 DEF Grown
  <2> HIDE DEF g, c, t
  <2>3. Closed(g) \in Stances(x, e)
        BY <1>4, <1>5, <2>2, Movement
  <2>4. Does(x, e, g, t, Closed(g))
        BY <1>3, <1>4, <2>2 DEF Does
  <2>5. Leads(x, e, g, <<t>>, Closed(g))
        BY <1>5, <2>3, <2>4, LeadsOne
  <2>6. Leads(x, e, b, <<c>> \o <<t>>, Closed(g))
    <3>1. <<c>> \in Seq(Calls) /\ <<t>> \in Seq(Calls)
          BY <1>3
    <3> QED BY <1>6, <2>5, <3>1, LeadsOn
  <2>7. Past(Closed(g)) = Past(g)
        BY DEF Past, Closed
  <2> QED BY <2>1, <2>3, <2>6, <2>7
<1> HIDE DEF g, c, t
<1>10. 1 \in DOMAIN q /\ q[1] = c
  <2>1. CASE cut
    <3>1. q = <<c>> \o <<t>>
          BY <1>9, <2>1
    <3> QED BY <3>1
  <2>2. CASE ~cut
        BY <1>8, <2>2
  <2> QED BY <2>1, <2>2
<1>11. Brings(e, q, b, g)
       BY <1>4, <1>7, <1>10 DEF Brings
<1>12. CASE cut
       BY <1>9, <1>11, <1>12 DEF Brings
<1>13. CASE ~cut
       BY <1>5, <1>6, <1>8, <1>11, <1>13
<1> QED BY <1>12, <1>13

\* Nothing is submitted.
LEMMA ExtendsHere ==
    ASSUME ShardTyped, NEW x, NEW e \in Envs, NEW b \in Stances(x, e),
           mailbox'[shardOf[e]] = mailbox[shardOf[e]]
    PROVE  Extends(x, e, b, b)
<1> DEFINE q == mailbox[shardOf[e]]
<1>1. q \in Seq(Calls)
      BY DEF ShardTyped
<1>2. mailbox'[shardOf[e]] = q
      OBVIOUS
<1> HIDE DEF q
<1>3. q \o <<>> = q /\ <<>> \in Seq(Calls) /\ \A i \in DOMAIN <<>> : ~Concerns(e, <<>>[i])
      BY <1>1
<1>4. Leads(x, e, b, <<>>, b)
      BY <1>3, LeadsNowhere
<1> QED BY <1>2, <1>3, <1>4 DEF Extends, Brings, q

LEMMA ExtendsNot ==
    ASSUME ShardTyped, NEW x, NEW e \in Envs, NEW b \in Stances(x, e), mailbox' = mailbox
    PROVE  Extends(x, e, b, b)
BY ExtendsHere

\* One call is submitted that is about no environment.
LEMMA ExtendsBeside ==
    ASSUME ShardTyped, NEW x, NEW e \in Envs, NEW b \in Stances(x, e), NEW c \in Calls, ~Concerns(e, c),
           mailbox'[shardOf[e]] = Append(mailbox[shardOf[e]], c)
    PROVE  Extends(x, e, b, b)
<1> DEFINE q == mailbox[shardOf[e]]
<1>1. q \in Seq(Calls)
      BY DEF ShardTyped
<1>2. mailbox'[shardOf[e]] = Append(q, c)
      OBVIOUS
<1> HIDE DEF q
<1>3. Append(q, c) = q \o <<c>> /\ <<c>> \in Seq(Calls) /\ \A i \in DOMAIN <<c>> : <<c>>[i] = c
      BY <1>1
<1>4. Leads(x, e, b, <<c>>, b)
      BY <1>3, LeadsNowhere
<1> QED BY <1>2, <1>3, <1>4 DEF Extends, Brings, q

\* Calls of a batch are submitted.
LEMMA ExtendsBy ==
    ASSUME ShardTyped, NEW x, NEW e \in Envs, NEW b \in Stances(x, e), NEW d, NEW calls, CallsFor(calls),
           Submit(calls),
           IF e \in DOMAIN calls THEN Leads(x, e, b, calls[e], d) /\ Brings(e, calls[e], b, d) ELSE d = b
    PROVE  Extends(x, e, b, d)
<1> DEFINE s == shardOf[e]
           q == CallsOn(s, calls)
<1>1. s \in Shards
      BY DEF ShardTyped
<1>2. mailbox'[s] = mailbox[s] \o q
      BY <1>1 DEF Submit
<1>3. Leads(x, e, b, q, d)
      BY CallsOnLead
<1>4. /\ q \in Seq(Calls)
      /\ e \in DOMAIN calls => \A k \in DOMAIN calls[e] : \E r \in DOMAIN q : q[r] = calls[e][k]
      BY CallsOnAre
<1> HIDE DEF q
<1>5. Brings(e, q, b, d)
  <2>1. CASE e \in DOMAIN calls
        BY <1>4, <2>1 DEF Brings
  <2>2. CASE e \notin DOMAIN calls
        BY <2>2 DEF Brings
  <2> QED BY <2>1, <2>2
<1> QED BY <1>2, <1>3, <1>4, <1>5 DEF Extends

\* The three ways to submit a batch.
LEMMA ExtendsRow ==
    ASSUME ShardTyped, NEW x \in BOOLEAN, NEW e \in Envs, NEW b \in Stances(x, e), NEW bt, NEW fl,
           DOMAIN bt \subseteq Envs, \A f \in DOMAIN bt : OfEnv(f, bt[f]), e \in DOMAIN bt,
           e \in fl => Full(x, b, bt[e]),
           \/ Submit(PairCalls(bt, fl)) /\ b.phase = "return" /\ Due(x, b, bt[e])
           \/ Submit(ResponseCalls(bt, fl)) /\ b.phase = "response" /\ b.cur = bt[e]
    PROVE  \E cut \in BOOLEAN : /\ cut <=> e \in fl
                               /\ Rowed(x, b, bt[e], cut) \in Stances(x, e)
                               /\ Extends(x, e, b, Rowed(x, b, bt[e], cut))
<1>1. /\ CallsFor(PairCalls(bt, fl)) /\ CallsFor(ResponseCalls(bt, fl))
      /\ DOMAIN PairCalls(bt, fl) = DOMAIN bt /\ DOMAIN ResponseCalls(bt, fl) = DOMAIN bt
      /\ e \notin fl => PairCalls(bt, fl)[e] = <<[op |-> "pair", ret |-> bt[e]]>>
      /\ e \notin fl => ResponseCalls(bt, fl)[e] = <<[op |-> "response", ret |-> bt[e]]>>
      /\ e \in fl => PairCalls(bt, fl)[e] =
            <<[op |-> "pair", ret |-> bt[e]]>> \o <<[op |-> "truncate", envs |-> <<e>>]>>
      /\ e \in fl => ResponseCalls(bt, fl)[e] =
            <<[op |-> "response", ret |-> bt[e]]>> \o <<[op |-> "truncate", envs |-> <<e>>]>>
  <2>1. /\ CallsFor(PairCalls(bt, fl)) /\ CallsFor(ResponseCalls(bt, fl))
        /\ DOMAIN PairCalls(bt, fl) = DOMAIN bt /\ DOMAIN ResponseCalls(bt, fl) = DOMAIN bt
        BY BatchCalls, Zenon
  <2>2. e \notin fl => PairCalls(bt, fl)[e] = <<[op |-> "pair", ret |-> bt[e]]>>
        BY BatchCalls, Zenon
  <2>3. e \notin fl => ResponseCalls(bt, fl)[e] = <<[op |-> "response", ret |-> bt[e]]>>
        BY BatchCalls, Zenon
  <2>4. e \in fl => PairCalls(bt, fl)[e] =
            <<[op |-> "pair", ret |-> bt[e]]>> \o <<[op |-> "truncate", envs |-> <<e>>]>>
        BY BatchCalls, Zenon
  <2>5. e \in fl => ResponseCalls(bt, fl)[e] =
            <<[op |-> "response", ret |-> bt[e]]>> \o <<[op |-> "truncate", envs |-> <<e>>]>>
        BY BatchCalls, Zenon
  <2> QED BY <2>1, <2>2, <2>3, <2>4, <2>5, Zenon
<1>2. PICK cut \in BOOLEAN : cut <=> e \in fl
      OBVIOUS
<1>4. ASSUME Submit(PairCalls(bt, fl)), b.phase = "return", Due(x, b, bt[e])
      PROVE  /\ Rowed(x, b, bt[e], cut) \in Stances(x, e) /\ Extends(x, e, b, Rowed(x, b, bt[e], cut))
  <2> DEFINE calls == PairCalls(bt, fl)
             q == calls[e]
  <2>1. q = IF cut THEN <<[op |-> "pair", ret |-> bt[e]]>> \o <<[op |-> "truncate", envs |-> <<e>>]>>
            ELSE <<[op |-> "pair", ret |-> bt[e]]>>
        BY <1>1, <1>2
  <2> HIDE DEF q, calls
  <2>2. /\ Rowed(x, b, bt[e], cut) \in Stances(x, e)
        /\ Leads(x, e, b, q, Rowed(x, b, bt[e], cut)) /\ Brings(e, q, b, Rowed(x, b, bt[e], cut))
        BY <1>2, <1>4, <2>1, RowLeads, "pair" \in {"pair", "response"}
  <2>3. Submit(calls) /\ CallsFor(calls) /\ e \in DOMAIN calls
        BY <1>1, <1>4 DEF calls
  <2>4. Extends(x, e, b, Rowed(x, b, bt[e], cut))
        BY <2>2, <2>3, ExtendsBy DEF q
  <2> QED BY <2>2, <2>4
<1>5. ASSUME Submit(ResponseCalls(bt, fl)), b.phase = "response", b.cur = bt[e]
      PROVE  /\ Rowed(x, b, bt[e], cut) \in Stances(x, e) /\ Extends(x, e, b, Rowed(x, b, bt[e], cut))
  <2> DEFINE calls == ResponseCalls(bt, fl)
             q == calls[e]
  <2>1. q = IF cut THEN <<[op |-> "response", ret |-> bt[e]]>> \o <<[op |-> "truncate", envs |-> <<e>>]>>
            ELSE <<[op |-> "response", ret |-> bt[e]]>>
        BY <1>1, <1>2
  <2> HIDE DEF q, calls
  <2>2. /\ Rowed(x, b, bt[e], cut) \in Stances(x, e)
        /\ Leads(x, e, b, q, Rowed(x, b, bt[e], cut)) /\ Brings(e, q, b, Rowed(x, b, bt[e], cut))
        BY <1>2, <1>5, <2>1, RowLeads, "response" \in {"pair", "response"}
  <2>3. Submit(calls) /\ CallsFor(calls) /\ e \in DOMAIN calls
        BY <1>1, <1>5 DEF calls
  <2>4. Extends(x, e, b, Rowed(x, b, bt[e], cut))
        BY <2>2, <2>3, ExtendsBy DEF q
  <2> QED BY <2>2, <2>4
<1> QED BY <1>2, <1>4, <1>5

LEMMA ExtendsReturn ==
    ASSUME ShardTyped, NEW x \in BOOLEAN, NEW e \in Envs, NEW b \in Stances(x, e), NEW bt,
           DOMAIN bt \subseteq Envs, \A f \in DOMAIN bt : OfEnv(f, bt[f]), e \in DOMAIN bt,
           Submit(ReturnCalls(bt)), b.phase = "return", Due(x, b, bt[e])
    PROVE  Stored(b, bt[e]) \in Stances(x, e) /\ Extends(x, e, b, Stored(b, bt[e]))
<1> DEFINE r == bt[e]
           d == Stored(b, r)
           c == [op |-> "return", ret |-> r]
           calls == ReturnCalls(bt)
<1>1. CallsFor(calls) /\ DOMAIN calls = DOMAIN bt /\ calls[e] = <<c>>
      BY BatchCalls
<1>2. OfEnv(e, r) /\ r \in Returns /\ r.env = e
      BY DEF OfEnv
<1>3. d \in Stances(x, e)
      BY <1>2, Movement
<1>4. Concerns(e, c) /\ c.op = "return" /\ c.ret = r
  <2>1. CallFor(e, c)
        BY <1>2, CarryOf, "return" \in {"pair", "return", "response"}
  <2> QED BY <2>1, ForOne
<1> HIDE DEF c, calls, d, r
<1>5. Does(x, e, b, c, d)
      BY <1>4 DEF Does, d, r
<1>6. Leads(x, e, b, calls[e], d)
      BY <1>1, <1>3, <1>5, LeadsOne
<1>7. Brings(e, calls[e], b, d)
      BY DEF Brings, Past, d, Stored
<1>8. Extends(x, e, b, d)
      BY <1>1, <1>6, <1>7, ExtendsBy DEF calls
<1> QED BY <1>3, <1>8 DEF d, r

\* Calls for a batch without e.
LEMMA ExtendsOthers ==
    ASSUME ShardTyped, NEW x, NEW e \in Envs, NEW b \in Stances(x, e), NEW bt, NEW fl,
           DOMAIN bt \subseteq Envs, \A f \in DOMAIN bt : OfEnv(f, bt[f]), e \notin DOMAIN bt,
           Submit(PairCalls(bt, fl)) \/ Submit(ResponseCalls(bt, fl)) \/ Submit(ReturnCalls(bt))
    PROVE  Extends(x, e, b, b)
<1>1. /\ CallsFor(PairCalls(bt, fl)) /\ CallsFor(ReturnCalls(bt)) /\ CallsFor(ResponseCalls(bt, fl))
      /\ DOMAIN PairCalls(bt, fl) = DOMAIN bt /\ DOMAIN ReturnCalls(bt) = DOMAIN bt
      /\ DOMAIN ResponseCalls(bt, fl) = DOMAIN bt
      BY BatchCalls
<1> QED BY <1>1, ExtendsBy

\* Every environment of the batch is truncated.
LEMMA ExtendsTruncate ==
    ASSUME ShardTyped, NEW x \in BOOLEAN, NEW e \in Envs, NEW b \in Stances(x, e), NEW envs \in SUBSET Envs,
           SubmitTruncations(envs), UNCHANGED <<loop, shardOf>>, loop = "rsl", e \in envs, b.phase = "truncate"
    PROVE  Closed(b) \in Stances(x, e) /\ Extends(x, e, b, Closed(b))
<1> DEFINE s == shardOf[e]
           c == TruncationAt(s, envs)
           q == mailbox[s]
<1>1. s \in Shards /\ q \in Seq(Calls)
      BY DEF ShardTyped
<1>2. mailbox'[s] = Append(q, c)
      BY <1>1, TruncationQueues
<1>3. c \in Calls /\ c.op = "truncate" /\ e \in ToSet(c.envs)
      BY TruncationIs
<1> HIDE DEF c, q, s
<1>4. Append(q, c) = q \o <<c>> /\ <<c>> \in Seq(Calls)
      BY <1>1, <1>3
<1>5. Closed(b) \in Stances(x, e)
  <2>1. b.cur \in Returns /\ b.cur.env = e
        BY DEF Stances, Records
  <2> QED BY <2>1, Movement
<1>6. Does(x, e, b, c, Closed(b))
      BY <1>3 DEF Does, Concerns
<1>7. Leads(x, e, b, <<c>>, Closed(b))
      BY <1>5, <1>6, LeadsOne
<1>8. Brings(e, <<c>>, b, Closed(b))
      BY DEF Brings, Past, Closed
<1> QED BY <1>2, <1>4, <1>5, <1>7, <1>8 DEF Extends, s, q
-----------------------------------------------------------------------------
(***************************************************************************)
(* The rollout thread of SyncRLEngine, for one environment.                *)
(***************************************************************************)
LEMMA StanceIs ==
    ASSUME NEW x, NEW e, NEW b \in Stances(x, e)
    PROVE  /\ b \in Records /\ b.row \in Returns /\ b.cur \in Returns /\ b.row.env = e /\ b.cur.env = e
           /\ b.phase \in Phases /\ b.closed \in BOOLEAN /\ Sound(x, b)
           /\ b.row.resets \in Nat /\ b.row.steps \in Nat
<1>1. b \in Records /\ b.row.env = e /\ b.cur.env = e /\ Sound(x, b)
      BY DEF Stances
<1>2. b.row \in Returns /\ b.cur \in Returns /\ b.phase \in Phases /\ b.closed \in BOOLEAN
      BY <1>1 DEF Records
<1>3. b.row.resets \in Nat /\ b.row.steps \in Nat
      BY <1>2 DEF Returns
<1> QED BY <1>1, <1>2, <1>3

LEMMA EnvIs ==
    ASSUME EnvTyped, NEW e \in Envs
    PROVE  /\ counter[e] \in Int /\ task[e] \in {"none", "step", "reset"}
           /\ position[e] \in Positions /\ position[e].resets \in Nat /\ position[e].steps \in Nat
           /\ position[e] = [resets |-> position[e].resets, steps |-> position[e].steps]
<1>1. position[e] \in Positions
      BY DEF EnvTyped
<1> QED BY <1>1 DEF EnvTyped, Positions

\* What is known of the stance after a row.
LEMMA RowedIs ==
    ASSUME NEW x, NEW b, NEW r, NEW cut \in BOOLEAN
    PROVE  LET d == Rowed(x, b, r, cut)
           IN  /\ d.row = r
               /\ cut => d.closed = TRUE /\ d.phase = "return"
               /\ ~cut => d.closed = FALSE /\ d.phase = IF Full(x, b, r) THEN "truncate" ELSE "return"
BY DEF Rowed, Grown, Closed

LEMMA Counts == MaxSteps \in Nat /\ MaxSteps > 0 /\ -1 \in -1..MaxSteps /\ 0 \in 0..MaxSteps /\ 0 \in -1..MaxSteps
BY MaxStepsAssumption

LEMMA SyncRolls ==
    ASSUME Typed, loop = "sync", NEW x \in BOOLEAN, x = inAutoReset,
           NEW e \in Envs, NEW b \in Stances(x, e), AtFront(e, b), Rolling
    PROVE  \E d \in Stances(x, e) : Extends(x, e, b, d) /\ AtFront(e, d)'
<1>1. EnvTyped /\ RollTyped /\ ShardTyped
      BY DEF Typed
<1>2. SyncFront(e, b) /\ InRange(e) /\ inAutoReset = x /\ x
      BY DEF AtFront, inAutoReset
<1>3. loop' = "sync" /\ UNCHANGED <<loop, auto, shardOf>> /\ inAutoReset' = x
      BY Constant DEF Next, inAutoReset
<1>4. /\ b.row \in Returns /\ b.row.env = e /\ b.row.resets \in Nat /\ b.row.steps \in Nat
      /\ b.phase \in Phases /\ b.closed \in BOOLEAN /\ Sound(x, b)
      BY StanceIs
<1>5. /\ counter[e] \in Int /\ position[e].resets \in Nat /\ position[e].steps \in Nat
      BY <1>1, EnvIs
<1>6. MaxSteps \in Nat /\ MaxSteps > 0
      BY Counts
<1>7. /\ DOMAIN batch \subseteq Envs /\ \A f \in DOMAIN batch : OfEnv(f, batch[f])
      /\ flags \subseteq Envs /\ iter \in Nat
      BY <1>1 DEF RollTyped
<1>8. pc \in {"reset", "store_pairs", "step", "rolled_out", "sampled", "done"} /\ Idle(e)
      BY <1>2 DEF SyncFront
<1>9. ASSUME NEW d, SyncFront(e, d)', InRange(e)' PROVE AtFront(e, d)'
      BY <1>3, <1>9 DEF AtFront
<1>10. CASE Reset
  <2>1. /\ pc = "reset" /\ pc' = "store_pairs" /\ ResetAll(x) /\ batch' = ResetReturns
        /\ flags' = TruncationsOf(Envs) /\ iter' = 0 /\ mailbox' = mailbox /\ taken' = taken
        BY <1>2, <1>10 DEF Reset, Goto, bufferVars
  <2>2. Rests(e, b) /\ b.closed
        BY <1>2, <2>1 DEF SyncFront
  <2>3. /\ position'[e] = [resets |-> position[e].resets + 1, steps |-> 0] /\ counter'[e] = 0
        /\ UNCHANGED <<task, result>> /\ DOMAIN batch' = Envs
        /\ batch'[e] = [env |-> e, resets |-> position[e].resets + 1, steps |-> 0, ended |-> {}]
        BY <1>2, <2>1 DEF ResetAll, ResetReturns, ReturnOf, After
  <2>4. e \notin flags'
        BY <1>6, <2>1, <2>3 DEF TruncationsOf
  <2>5. Holds(e, b, batch[e])'
    <3>1. b.phase = "return" /\ b.row.resets = position[e].resets
          BY <2>2 DEF Rests, At
    <3> QED BY <1>2, <1>3, <2>2, <2>3, <3>1 DEF Holds, Is, At, Due
  <2>6. SyncFront(e, b)'
    <3>1. position'[e].resets > 0 /\ position'[e].steps = 0 /\ 0 # MaxSteps
          BY <1>5, <1>6, <2>3
    <3> QED BY <1>8, <2>1, <2>3, <2>4, <2>5, <3>1 DEF SyncFront, Idle
  <2>7. InRange(e)'
        BY <1>2, <2>1, <2>3, Counts DEF InRange
  <2> QED BY <1>1, <1>9, <2>1, <2>6, <2>7, ExtendsNot
<1>11. CASE StorePairs
  <2>1. /\ pc = "store_pairs" /\ Submit(PairCalls(batch, flags))
        /\ pc' \in {"rolled_out", "reset", "step"} /\ (pc' = "step" <=> iter < MaxSteps)
        /\ UNCHANGED <<batch, flags, iter, taken, counter, task, result, position>>
        BY <1>11 DEF StorePairs, Goto, SubmitPairs, PairCalls, envVars
  <2>2. /\ Holds(e, b, batch[e]) /\ (e \in flags <=> iter = MaxSteps) /\ DOMAIN batch = Envs
        /\ position[e].resets > 0 /\ position[e].steps = iter /\ counter[e] = iter
        BY <1>2, <2>1 DEF SyncFront
  <2>3. PICK r \in Returns : r = batch[e]
        BY <1>7, <2>2 DEF OfEnv
  <2>4. b.phase = "return" /\ Due(x, b, r) /\ r.env = e /\ At(r) = position[e] /\ r.steps = iter
    <3>1. b.phase = "return" /\ Due(x, b, r) /\ r.env = e /\ At(r) = position[e]
          BY <1>2, <2>2, <2>3 DEF Holds, Is
    <3>2. At(r).steps = r.steps
          BY DEF At
    <3> QED BY <2>2, <3>1, <3>2
  <2>5. Full(x, b, r) <=> e \in flags
        BY <1>2, <2>2, <2>4 DEF Full
  <2> PICK cut \in BOOLEAN : /\ cut <=> e \in flags
                            /\ Rowed(x, b, r, cut) \in Stances(x, e) /\ Extends(x, e, b, Rowed(x, b, r, cut))
      BY <1>1, <1>7, <2>1, <2>2, <2>3, <2>4, <2>5, ExtendsRow
  <2>6. PICK d \in Stances(x, e) : d = Rowed(x, b, r, cut) /\ Extends(x, e, b, d)
        OBVIOUS
  <2>7. d.row = r /\ d.phase = "return" /\ (d.closed <=> cut)
    <3>1. /\ d.row = r
          /\ cut => d.closed = TRUE /\ d.phase = "return"
          /\ ~cut => d.closed = FALSE /\ d.phase = IF Full(x, b, r) THEN "truncate" ELSE "return"
          BY <2>6 DEF Rowed, Grown, Closed
    <3>2. Full(x, b, r) <=> cut
          BY <2>5
    <3> QED BY <3>1, <3>2
  <2>8. Rests(e, d)'
        BY <2>1, <2>4, <2>7 DEF Rests, At
  <2>9. SyncFront(e, d)'
    <3>1. pc' # "step" => d.closed
      <4>1. InRange(e)
            BY <1>2
      <4>2. iter \in 0..MaxSteps /\ MaxSteps \in Nat
            BY <4>1, MaxStepsAssumption DEF InRange
      <4>3. pc' # "step" => iter = MaxSteps
            BY <2>1, <4>2
      <4> QED BY <2>2, <2>7, <4>3
    <3>2. pc' = "step" => ~d.closed
      <4>1. MaxSteps \in Nat /\ iter \in Nat
            BY <1>2, MaxStepsAssumption DEF InRange
      <4>2. pc' = "step" => iter # MaxSteps
            BY <2>1, <4>1
      <4> QED BY <2>2, <2>7, <4>2
    <3>3. pc' # "store_pairs" /\ pc' \in {"reset", "step", "rolled_out"}
          BY <2>1
    <3> QED BY <1>8, <2>1, <2>2, <2>8, <3>1, <3>2, <3>3 DEF SyncFront, Idle
  <2>10. InRange(e)'
        BY <1>2, <2>1 DEF InRange
  <2> QED BY <1>9, <2>6, <2>9, <2>10
<1>12. CASE Step
  <2>1. /\ pc = "step" /\ pc' = "store_pairs" /\ StepAll /\ batch' \in StepReturns([f \in Envs |-> Ends(f)])
        /\ flags' = TruncationsOf(Envs) /\ iter' = iter + 1 /\ mailbox' = mailbox /\ taken' = taken
        BY <1>12 DEF Step, Goto, bufferVars
  <2>2. /\ Rests(e, b) /\ ~b.closed /\ position[e].resets > 0 /\ position[e].steps = iter /\ counter[e] = iter
        BY <1>2, <2>1 DEF SyncFront
  <2>3. b.phase = "return" /\ b.row.resets = position[e].resets /\ b.row.steps = iter
        BY <2>2 DEF Rests, At
  <2>4. iter < MaxSteps /\ ~Reached(e)
        BY <1>2, <1>4, <1>6, <1>7, <2>2, <2>3 DEF Sound, Reached
  <2>5. /\ position'[e] = [resets |-> position[e].resets, steps |-> iter + 1] /\ counter'[e] = iter + 1
        /\ UNCHANGED <<task, result>> /\ DOMAIN batch' = Envs
        /\ \E ended : batch'[e] = [env |-> e, resets |-> position[e].resets, steps |-> iter + 1, ended |-> ended]
        BY <2>1, <2>2, <2>4 DEF StepAll, StepReturns, ReturnOf, After
  <2>6. e \in flags' <=> iter' = MaxSteps
        BY <2>1, <2>5 DEF TruncationsOf
  <2>7. Holds(e, b, batch[e])'
        BY <1>3, <1>4, <2>2, <2>3, <2>5 DEF Holds, Is, At, Due, Follows
  <2>8. SyncFront(e, b)'
    <3>1. position'[e].resets > 0 /\ position'[e].steps = iter'
          BY <2>1, <2>2, <2>5
    <3> QED BY <1>8, <2>1, <2>5, <2>6, <2>7, <3>1 DEF SyncFront, Idle
  <2>9. InRange(e)'
        BY <1>2, <1>6, <1>7, <2>1, <2>4, <2>5 DEF InRange
  <2> QED BY <1>1, <1>9, <2>1, <2>8, <2>9, ExtendsNot
<1>13. CASE NextEpoch
  <2>1. /\ pc = "sampled" /\ pc' \in {"done", "reset"} /\ mailbox' = mailbox
        /\ UNCHANGED <<batch, flags, iter, taken, counter, task, result, position>>
        BY <1>13, "sync" # "rsl" DEF NextEpoch, Goto, envVars, bufferVars
  <2>2. SyncFront(e, b)'
        BY <1>2, <1>3, <2>1 DEF SyncFront, Idle, Rests
  <2>3. InRange(e)'
        BY <1>2, <2>1 DEF InRange
  <2> QED BY <1>1, <1>9, <2>1, <2>2, <2>3, ExtendsNot
<1>14. ~(StoreReturns \/ StoreResponses \/ SubmitSteps \/ Collect \/ CollectRsl \/ StoreLast
         \/ StoreLastResponses \/ TruncateAll)
       BY <1>8 DEF StoreReturns, StoreResponses, SubmitSteps, Collect, CollectRsl, StoreLast, StoreLastResponses,
                   TruncateAll
<1> QED BY <1>10, <1>11, <1>12, <1>13, <1>14 DEF Rolling
-----------------------------------------------------------------------------
(***************************************************************************)
(* The rollout thread of AsyncRLEngine, for one environment.               *)
(***************************************************************************)

\* An environment whose return is ready.
LEMMA AwayReady ==
    ASSUME EnvTyped, NEW e \in Envs, NEW b, Away(e, b)
    PROVE  /\ e \in Ready => /\ task[e] = "none" /\ OfEnv(e, Collected[e]) /\ result[e] = {Collected[e]}
                             /\ Holds(e, b, Collected[e])
           /\ e \notin Ready => task[e] # "none" /\ result[e] = {} /\ At(b.row) = position[e]
                                /\ task[e] = (IF inAutoReset /\ b.closed THEN "reset" ELSE "step")
           /\ b.phase = "return" /\ b.row.resets > 0
<1>1. e \in Ready => OfEnv(e, Collected[e]) /\ result[e] = {Collected[e]}
      BY CollectedIs
<1>2. e \in Ready => task[e] = "none" /\ Holds(e, b, Collected[e])
  <2> SUFFICES ASSUME e \in Ready PROVE task[e] = "none" /\ Holds(e, b, Collected[e])
      OBVIOUS
  <2>1. result[e] # {}
        BY DEF Ready
  <2>2. PICK r \in result[e] : task[e] = "none" /\ result[e] = {r} /\ Holds(e, b, r)
        BY <2>1 DEF Away
  <2>3. r = Collected[e]
        BY <1>1, <2>2
  <2> QED BY <2>2, <2>3
<1>3. e \notin Ready => result[e] = {}
      BY DEF Ready
<1> QED BY <1>1, <1>2, <1>3 DEF Away

\* The parts of AsyncFront: e is in the batch, or away.
Inside(e, b) ==
    /\ Idle(e) /\ Is(e, batch[e]) /\ position[e].resets > 0
    /\ counter[e] = position[e].steps
    /\ e \in flags <=> position[e].steps = MaxSteps
    /\ pc = "store_returns" => Holds(e, b, batch[e])
    /\ pc = "store_responses" => Waits(b, batch[e])
    /\ pc \in {"step_async", "done"} => Rests(e, b)
Outside(e, b) == Away(e, b) /\ counter[e] = IF b.closed THEN -1 ELSE b.row.steps

LEMMA AsyncParts ==
    ASSUME NEW e, NEW b
    PROVE  /\ AsyncFront(e, b) =>
                 /\ pc \in {"reset", "store_returns", "store_responses", "step_async", "collect", "done"}
                 /\ pc = "reset" => Idle(e) /\ Rests(e, b) /\ b.closed
                 /\ pc # "reset" => IF pc # "collect" /\ e \in DOMAIN batch THEN Inside(e, b) ELSE Outside(e, b)
           /\ /\ pc \in {"store_returns", "store_responses", "step_async", "collect", "done"}
              /\ IF pc # "collect" /\ e \in DOMAIN batch THEN Inside(e, b) ELSE Outside(e, b)
              => AsyncFront(e, b)
BY DEF AsyncFront, Inside, Outside

LEMMA AsyncRolls ==
    ASSUME Typed, loop = "async", NEW x \in BOOLEAN, x = inAutoReset,
           NEW e \in Envs, NEW b \in Stances(x, e), AtFront(e, b), Rolling
    PROVE  \E d \in Stances(x, e) : Extends(x, e, b, d) /\ AtFront(e, d)'
<1>1. EnvTyped /\ RollTyped /\ ShardTyped
      BY DEF Typed
<1>2. AsyncFront(e, b) /\ InRange(e) /\ inAutoReset = x /\ x
      BY DEF AtFront, inAutoReset
<1>3. loop' = "async" /\ UNCHANGED <<loop, auto, shardOf>> /\ inAutoReset' = x
      BY Constant DEF Next, inAutoReset
<1>4. /\ b.row \in Returns /\ b.row.env = e /\ b.row.resets \in Nat /\ b.row.steps \in Nat
      /\ b.phase \in Phases /\ b.closed \in BOOLEAN /\ Sound(x, b)
      BY StanceIs
<1>5. /\ counter[e] \in Int /\ position[e].resets \in Nat /\ position[e].steps \in Nat
      BY <1>1, EnvIs
<1>6. MaxSteps \in Nat /\ MaxSteps > 0
      BY Counts
<1>7. /\ DOMAIN batch \subseteq Envs /\ \A f \in DOMAIN batch : OfEnv(f, batch[f])
      /\ flags \subseteq Envs /\ iter \in Nat
      BY <1>1 DEF RollTyped
<1>8. /\ pc \in {"reset", "store_returns", "store_responses", "step_async", "collect", "done"}
      /\ pc = "reset" => Idle(e) /\ Rests(e, b) /\ b.closed
      /\ pc # "reset" => IF pc # "collect" /\ e \in DOMAIN batch THEN Inside(e, b) ELSE Outside(e, b)
      BY <1>2, AsyncParts
<1>9. ASSUME NEW d, pc' \in {"store_returns", "store_responses", "step_async", "collect", "done"}, InRange(e)',
             IF pc' # "collect" /\ e \in DOMAIN batch' THEN Inside(e, d)' ELSE Outside(e, d)'
      PROVE  AtFront(e, d)'
  <2>1. AsyncFront(e, d)'
        BY <1>9 DEF AsyncFront, Inside, Outside
  <2> QED BY <1>3, <1>9, <2>1 DEF AtFront
<1>10. CASE Reset
  <2>1. /\ pc = "reset" /\ pc' = "store_returns" /\ ResetAll(x) /\ batch' = ResetReturns
        /\ flags' = TruncationsOf(Envs) /\ iter' = 0 /\ mailbox' = mailbox /\ taken' = taken
        BY <1>2, <1>10 DEF Reset, Goto, bufferVars
  <2>2. Idle(e) /\ Rests(e, b) /\ b.closed
        BY <1>8, <2>1
  <2>3. /\ position'[e] = [resets |-> position[e].resets + 1, steps |-> 0] /\ counter'[e] = 0
        /\ UNCHANGED <<task, result>> /\ DOMAIN batch' = Envs
        /\ batch'[e] = [env |-> e, resets |-> position[e].resets + 1, steps |-> 0, ended |-> {}]
        BY <1>2, <2>1 DEF ResetAll, ResetReturns, ReturnOf, After
  <2>4. e \notin flags'
        BY <1>6, <2>1, <2>3 DEF TruncationsOf
  <2>5. Holds(e, b, batch[e])' /\ Is(e, batch[e])'
    <3>1. b.phase = "return" /\ b.row.resets = position[e].resets
          BY <2>2 DEF Rests, At
    <3> QED BY <1>2, <1>3, <2>2, <2>3, <3>1 DEF Holds, Is, At, Due
  <2>6. Inside(e, b)'
    <3>1. position'[e].resets > 0 /\ position'[e].steps = 0 /\ 0 # MaxSteps
          BY <1>5, <1>6, <2>3
    <3> QED BY <2>1, <2>2, <2>3, <2>4, <2>5, <3>1 DEF Inside, Idle
  <2>7. InRange(e)'
        BY <1>2, <2>1, <2>3, Counts DEF InRange
  <2>8. AtFront(e, b)'
        BY <1>9, <2>1, <2>3, <2>6, <2>7
  <2> QED BY <1>1, <2>1, <2>8, ExtendsNot
<1>11. CASE StoreReturns
  <2>1. /\ pc = "store_returns" /\ Submit(ReturnCalls(batch)) /\ pc' = "store_responses"
        /\ UNCHANGED <<batch, flags, iter, taken, counter, task, result, position>>
        BY <1>11 DEF StoreReturns, Goto, SubmitReturns, ReturnCalls, envVars
  <2>2. InRange(e)'
        BY <1>2, <2>1 DEF InRange
  <2>3. ASSUME e \in DOMAIN batch
        PROVE  \E d \in Stances(x, e) : Extends(x, e, b, d) /\ AtFront(e, d)'
    <3>1. Inside(e, b)
          BY <1>8, <2>1, <2>3
    <3>2. b.phase = "return" /\ Due(x, b, batch[e])
          BY <1>2, <2>1, <3>1 DEF Inside, Holds
    <3>3. PICK r : r = batch[e]
          OBVIOUS
    <3>4. PICK d \in Stances(x, e) : d = Stored(b, r) /\ Extends(x, e, b, d)
          BY <1>1, <1>7, <2>1, <2>3, <3>2, <3>3, ExtendsReturn
    <3>5. Inside(e, d)'
          BY <2>1, <3>1, <3>3, <3>4 DEF Inside, Idle, Is, Waits, Stored
    <3>6. AtFront(e, d)'
          BY <1>9, <2>1, <2>2, <2>3, <3>5
    <3> QED BY <3>4, <3>6
  <2>4. ASSUME e \notin DOMAIN batch
        PROVE  Extends(x, e, b, b) /\ AtFront(e, b)'
    <3>1. Outside(e, b)
          BY <1>8, <2>1, <2>4
    <3>2. Outside(e, b)'
          BY <1>2, <1>3, <2>1, <3>1 DEF Outside, Away, Holds, Is
    <3>3. AtFront(e, b)'
          BY <1>9, <2>1, <2>2, <2>4, <3>2
    <3> QED BY <1>1, <1>7, <2>1, <2>4, <3>3, ExtendsOthers
  <2> QED BY <2>3, <2>4
<1>12. CASE StoreResponses
  <2>1. /\ pc = "store_responses" /\ Submit(ResponseCalls(batch, flags)) /\ pc' \in {"step_async", "done"}
        /\ UNCHANGED <<batch, flags, iter, taken, counter, task, result, position>>
        BY <1>12, "async" # "rsl" DEF StoreResponses, Goto, SubmitResponses, ResponseCalls, envVars
  <2>2. InRange(e)'
        BY <1>2, <2>1 DEF InRange
  <2>3. ASSUME e \in DOMAIN batch
        PROVE  \E d \in Stances(x, e) : Extends(x, e, b, d) /\ AtFront(e, d)'
    <3>1. Inside(e, b)
          BY <1>8, <2>1, <2>3
    <3>2. b.phase = "response" /\ b.cur = batch[e]
          BY <2>1, <3>1 DEF Inside, Waits
    <3>3. PICK r \in Returns : r = batch[e]
          BY <1>7, <2>3 DEF OfEnv
    <3>4. At(r) = position[e] /\ r.steps = position[e].steps
      <4>1. At(r) = position[e]
            BY <3>1, <3>3 DEF Inside, Is
      <4>2. At(r).steps = r.steps
            BY DEF At
      <4> QED BY <4>1, <4>2
    <3>5. Full(x, b, r) <=> e \in flags
          BY <1>2, <3>1, <3>4 DEF Full, Inside
    <3> PICK cut \in BOOLEAN : /\ cut <=> e \in flags
                              /\ Rowed(x, b, r, cut) \in Stances(x, e) /\ Extends(x, e, b, Rowed(x, b, r, cut))
        BY <1>1, <1>7, <2>1, <2>3, <3>2, <3>3, <3>5, ExtendsRow
    <3>6. PICK d \in Stances(x, e) : d = Rowed(x, b, r, cut) /\ Extends(x, e, b, d)
          OBVIOUS
    <3>7. d.row = r /\ d.phase = "return"
      <4>1. Full(x, b, r) <=> cut
            BY <3>5
      <4> QED BY <3>6, <4>1 DEF Rowed, Grown, Closed
    <3>8. Rests(e, d)'
          BY <2>1, <3>4, <3>7 DEF Rests, At
    <3>9. Inside(e, d)'
          BY <2>1, <3>1, <3>8 DEF Inside, Idle, Is
    <3>10. AtFront(e, d)'
          BY <1>9, <2>1, <2>2, <2>3, <3>9
    <3> QED BY <3>6, <3>10
  <2>4. ASSUME e \notin DOMAIN batch
        PROVE  Extends(x, e, b, b) /\ AtFront(e, b)'
    <3>1. Outside(e, b)
          BY <1>8, <2>1, <2>4
    <3>2. Outside(e, b)'
          BY <1>2, <1>3, <2>1, <3>1 DEF Outside, Away, Holds, Is
    <3>3. AtFront(e, b)'
          BY <1>9, <2>1, <2>2, <2>4, <3>2
    <3> QED BY <1>1, <1>7, <2>1, <2>4, <3>3, ExtendsOthers
  <2> QED BY <2>3, <2>4
<1>13. CASE SubmitSteps
  <2>1. /\ pc = "step_async" /\ StepAsync(DOMAIN batch, x) /\ pc' = "collect"
        /\ UNCHANGED <<batch, flags, iter, taken, mailbox>>
        BY <1>2, <1>13, "async" # "rsl" DEF SubmitSteps, Goto, bufferVars
  <2>2. UNCHANGED <<result, position>>
        BY <2>1 DEF StepAsync
  <2>3. ASSUME e \in DOMAIN batch PROVE Outside(e, b)' /\ InRange(e)'
    <3>1. Inside(e, b)
          BY <1>8, <2>1, <2>3
    <3>2. Idle(e) /\ Rests(e, b) /\ position[e].resets > 0 /\ counter[e] = position[e].steps
          BY <2>1, <3>1 DEF Inside
    <3>3. b.phase = "return" /\ b.row.resets = position[e].resets /\ b.row.steps = position[e].steps
          BY <3>2 DEF Rests, At
    <3>4. b.closed <=> counter[e] = MaxSteps
          BY <1>2, <1>4, <1>6, <3>2, <3>3 DEF Sound
    <3>5. /\ task'[e] = (IF b.closed THEN "reset" ELSE "step")
          /\ counter'[e] = IF b.closed THEN -1 ELSE counter[e]
          BY <1>2, <2>1, <2>3, <3>4 DEF StepAsync, Reached
    <3>6. Outside(e, b)'
          BY <1>2, <1>3, <2>2, <3>2, <3>3, <3>5 DEF Outside, Away, Idle, Rests
    <3>7. InRange(e)'
          BY <1>2, <2>1, <3>5, Counts DEF InRange
    <3> QED BY <3>6, <3>7
  <2>4. ASSUME e \notin DOMAIN batch PROVE Outside(e, b)' /\ InRange(e)'
    <3>1. Outside(e, b)
          BY <1>8, <2>1, <2>4
    <3>2. task'[e] = task[e] /\ counter'[e] = counter[e]
          BY <2>1, <2>4 DEF StepAsync
    <3>3. Outside(e, b)'
          BY <1>2, <1>3, <2>2, <3>1, <3>2 DEF Outside, Away, Holds, Is
    <3>4. InRange(e)'
          BY <1>2, <2>1, <3>2 DEF InRange
    <3> QED BY <3>3, <3>4
  <2>5. AtFront(e, b)'
        BY <1>9, <2>1, <2>3, <2>4
  <2> QED BY <1>1, <2>1, <2>5, ExtendsNot
<1>14. CASE Collect
  <2>1. /\ pc = "collect" /\ CollectAsync(x) /\ batch' = Collected /\ flags' = TruncationsOf(Ready)
        /\ pc' = "store_returns" /\ UNCHANGED <<iter, taken, mailbox>>
        BY <1>2, <1>14 DEF Collect, Goto, bufferVars
  <2>2. /\ counter'[e] = (IF e \in Ready THEN counter[e] + 1 ELSE counter[e]) /\ result'[e] = {}
        /\ UNCHANGED <<task, position>>
        BY <1>2, <2>1 DEF CollectAsync
  <2>3. Away(e, b) /\ counter[e] = IF b.closed THEN -1 ELSE b.row.steps
        BY <1>8, <2>1 DEF Outside
  <2>4. DOMAIN batch' = Ready
        BY <1>1, <2>1, CollectedIs
  <2>5. ASSUME e \in Ready PROVE Inside(e, b)' /\ InRange(e)'
    <3>1. PICK r : r = Collected[e]
          OBVIOUS
    <3>2. task[e] = "none" /\ Holds(e, b, r) /\ batch'[e] = r /\ b.row.resets > 0
          BY <1>1, <2>1, <2>3, <2>5, <3>1, AwayReady
    <3>3. b.phase = "return" /\ Is(e, r) /\ Due(x, b, r) /\ r.resets = position[e].resets /\ r.steps = position[e].steps
      <4>1. b.phase = "return" /\ Is(e, r) /\ Due(x, b, r)
            BY <1>2, <3>2 DEF Holds
      <4>2. At(r) = position[e] /\ At(r).resets = r.resets /\ At(r).steps = r.steps
            BY <4>1 DEF Is, At
      <4> QED BY <4>1, <4>2
    <3>4. counter'[e] = position[e].steps /\ position[e].resets > 0
      <4>1. CASE b.closed
            BY <1>2, <1>4, <2>2, <2>3, <2>5, <3>3, <4>1 DEF Due
      <4>2. CASE ~b.closed
            BY <1>4, <2>2, <2>3, <2>5, <3>2, <3>3, <4>2 DEF Due, Follows
      <4> QED BY <1>4, <4>1, <4>2
    <3>5. e \in flags' <=> position'[e].steps = MaxSteps
          BY <2>1, <2>2, <2>5, <3>4 DEF TruncationsOf
    <3>6. Inside(e, b)'
          BY <1>2, <1>3, <2>1, <2>2, <3>2, <3>3, <3>4, <3>5 DEF Inside, Idle, Holds, Is
    <3>7. InRange(e)'
      <4>1. counter'[e] <= MaxSteps
        <5>1. CASE b.closed
              BY <1>6, <2>2, <2>3, <2>5, <5>1
        <5>2. CASE ~b.closed
          <6>1. b.row.steps < MaxSteps
                BY <1>2, <1>4, <3>2, <3>3, <5>2 DEF Sound
          <6> QED BY <1>4, <1>6, <2>2, <2>3, <2>5, <5>2, <6>1
        <5> QED BY <1>4, <5>1, <5>2
      <4>2. counter'[e] \in -1..MaxSteps
            BY <1>5, <1>6, <3>4, <4>1
      <4> QED BY <1>2, <2>1, <4>2 DEF InRange
    <3> QED BY <3>6, <3>7
  <2>6. ASSUME e \notin Ready PROVE Outside(e, b)' /\ InRange(e)'
    <3>1. task[e] = (IF b.closed THEN "reset" ELSE "step") /\ At(b.row) = position[e]
          /\ b.phase = "return" /\ b.row.resets > 0
          BY <1>1, <1>2, <2>3, <2>6, AwayReady
    <3>2. Outside(e, b)'
          BY <1>2, <1>3, <2>2, <2>3, <2>6, <3>1 DEF Outside, Away
    <3>3. InRange(e)'
          BY <1>2, <2>1, <2>2, <2>6 DEF InRange
    <3> QED BY <3>2, <3>3
  <2>7. AtFront(e, b)'
        BY <1>9, <2>1, <2>4, <2>5, <2>6
  <2> QED BY <1>1, <2>1, <2>7, ExtendsNot
<1>15. ~(StorePairs \/ Step \/ CollectRsl \/ StoreLast \/ StoreLastResponses \/ TruncateAll \/ NextEpoch)
       BY <1>8, "async" # "rsl" DEF StorePairs, Step, CollectRsl, StoreLast, StoreLastResponses, TruncateAll, NextEpoch
<1> QED BY <1>10, <1>11, <1>12, <1>13, <1>14, <1>15 DEF Rolling
-----------------------------------------------------------------------------
(***************************************************************************)
(* The rollout thread of RSLRLEngine, for one environment.                 *)
(***************************************************************************)
InLoop == {"store_returns", "step_async", "store_responses", "collect"}

\* The parts of RslFront: e made all its steps, is in the batch, or is away.
LastIn(e, b) ==
    Finished(e, b, last[e]) /\ Holds(e, b, last[e]) /\ (pc # "collect" => e \notin DOMAIN batch)
BatchIn(e, b) ==
    /\ taken[e] < MaxSteps /\ batch[e].steps % MaxSteps = taken[e]
    /\ b.closed <=> taken[e] = 0
    /\ batch[e].env = e /\ batch[e].resets > 0
    /\ pc # "store_responses" => Idle(e) /\ Is(e, batch[e])
    /\ IF pc = "store_returns" THEN Holds(e, b, batch[e]) ELSE Waits(b, batch[e])
    /\ pc = "store_responses" =>
         Away(e, [row |-> batch[e], cur |-> batch[e], phase |-> "return", closed |-> FALSE])
NoneIn(e, b) == Away(e, b) /\ ~b.closed /\ taken[e] < MaxSteps /\ b.row.steps % MaxSteps = taken[e]
In(e, b) ==
    IF e \in DOMAIN last THEN LastIn(e, b)
    ELSE IF pc # "collect" /\ e \in DOMAIN batch THEN BatchIn(e, b) ELSE NoneIn(e, b)

\* After the loop.
Ended(e, b) ==
    /\ e \in DOMAIN batch /\ Idle(e) /\ Is(e, batch[e]) /\ b.row = batch[e] /\ b.row.resets > 0
    /\ batch[e].steps % MaxSteps = 0

RslPlaces == InLoop \cup {"reset", "store_last", "store_last_responses", "truncate", "rolled_out", "sampled", "done"}

LEMMA RslParts ==
    ASSUME NEW e, NEW b
    PROVE  RslFront(e, b) =>
             /\ pc \in RslPlaces /\ flags = {} /\ counter[e] = -1
             /\ pc = "reset" => Idle(e) /\ Rests(e, b) /\ b.closed /\ b.row.resets = 0
                                /\ e \notin DOMAIN last /\ taken[e] = 0
             /\ pc \in InLoop => In(e, b)
             /\ pc = "store_last" => e \in DOMAIN last /\ Finished(e, b, last[e]) /\ Holds(e, b, last[e])
             /\ pc = "store_last_responses" =>
                  e \in DOMAIN last /\ batch = last /\ Finished(e, b, last[e]) /\ Waits(b, last[e])
             /\ pc \in {"truncate", "rolled_out", "sampled", "done"} => Ended(e, b)
             /\ pc = "truncate" => b.phase = "truncate"
             /\ pc \in {"rolled_out", "sampled", "done"} =>
                  Rests(e, b) /\ b.closed /\ taken[e] = 0 /\ e \notin DOMAIN last
BY DEF RslFront, In, LastIn, BatchIn, NoneIn, InLoop, RslPlaces, Ended

LEMMA RslInLoop ==
    ASSUME NEW e, NEW b, pc \in InLoop, flags = {}, counter[e] = -1, In(e, b)
    PROVE  RslFront(e, b)
BY DEF RslFront, In, LastIn, BatchIn, NoneIn, InLoop

\* What e goes through does not change.
LEMMA InSame ==
    ASSUME NEW e, NEW b, UNCHANGED <<loop, batch, taken, last, position>>, task'[e] = task[e], result'[e] = result[e]
    PROVE  /\ LastIn(e, b) /\ e \notin DOMAIN batch => LastIn(e, b)'
           /\ LastIn(e, b) /\ pc' = "collect" => LastIn(e, b)'
           /\ NoneIn(e, b) => NoneIn(e, b)'
<1>1. inAutoReset' = inAutoReset
      BY DEF inAutoReset
<1>2. Away(e, b) => Away(e, b)'
      BY <1>1 DEF Away, Holds, Is
<1> QED BY <1>1, <1>2 DEF LastIn, NoneIn, Finished, Holds, Is, Idle

LEMMA RslRolls ==
    ASSUME Typed, loop = "rsl", NEW x \in BOOLEAN, x = inAutoReset,
           NEW e \in Envs, NEW b \in Stances(x, e), AtFront(e, b), Rolling
    PROVE  \E d \in Stances(x, e) : Extends(x, e, b, d) /\ AtFront(e, d)'
<1>1. EnvTyped /\ RollTyped /\ ShardTyped
      BY DEF Typed
<1>2. RslFront(e, b) /\ InRange(e) /\ inAutoReset = x /\ ~x
      BY DEF AtFront, inAutoReset
<1>3. loop' = "rsl" /\ UNCHANGED <<loop, auto, shardOf>> /\ inAutoReset' = x
      BY Constant DEF Next, inAutoReset
<1>4. /\ b.row \in Returns /\ b.row.env = e /\ b.row.resets \in Nat /\ b.row.steps \in Nat
      /\ b.phase \in Phases /\ b.closed \in BOOLEAN /\ Sound(x, b)
      BY StanceIs
<1>5. /\ counter[e] \in Int /\ position[e].resets \in Nat /\ position[e].steps \in Nat
      BY <1>1, EnvIs
<1>6. MaxSteps \in Nat /\ MaxSteps > 0 /\ MaxSteps \in Nat \ {0}
      BY Counts
<1>7. /\ DOMAIN batch \subseteq Envs /\ \A f \in DOMAIN batch : OfEnv(f, batch[f])
      /\ DOMAIN last \subseteq Envs /\ \A f \in DOMAIN last : OfEnv(f, last[f])
      /\ taken \in [Envs -> Nat]
      BY <1>1 DEF RollTyped
<1>8. /\ pc \in RslPlaces /\ flags = {} /\ counter[e] = -1
      /\ pc = "reset" => Idle(e) /\ Rests(e, b) /\ b.closed /\ b.row.resets = 0
                         /\ e \notin DOMAIN last /\ taken[e] = 0
      /\ pc \in InLoop => In(e, b)
      /\ pc = "store_last" => e \in DOMAIN last /\ Finished(e, b, last[e]) /\ Holds(e, b, last[e])
      /\ pc = "store_last_responses" =>
           e \in DOMAIN last /\ batch = last /\ Finished(e, b, last[e]) /\ Waits(b, last[e])
      /\ pc \in {"truncate", "rolled_out", "sampled", "done"} => Ended(e, b)
      /\ pc = "truncate" => b.phase = "truncate"
      /\ pc \in {"rolled_out", "sampled", "done"} =>
           Rests(e, b) /\ b.closed /\ taken[e] = 0 /\ e \notin DOMAIN last
      BY <1>2, RslParts
<1>9. ASSUME NEW d, pc' \in InLoop, flags' = {}, counter'[e] = -1, In(e, d)', InRange(e)' PROVE AtFront(e, d)'
  <2>1. RslFront(e, d)'
        BY <1>9 DEF RslFront, In, LastIn, BatchIn, NoneIn, InLoop
  <2> QED BY <1>3, <1>9, <2>1 DEF AtFront
<1>10. ASSUME NEW d, RslFront(e, d)', InRange(e)' PROVE AtFront(e, d)'
       BY <1>3, <1>10 DEF AtFront
<1>11. CASE Reset
  <2>1. /\ pc = "reset" /\ pc' = "store_returns" /\ ResetAll(x) /\ batch' = ResetReturns
        /\ flags' = {} /\ iter' = 0 /\ mailbox' = mailbox /\ taken' = taken /\ last' = last
        BY <1>2, <1>11 DEF Reset, Goto, bufferVars
  <2>2. Idle(e) /\ Rests(e, b) /\ b.closed /\ b.row.resets = 0 /\ e \notin DOMAIN last /\ taken[e] = 0
        BY <1>8, <2>1
  <2>3. /\ position'[e] = [resets |-> position[e].resets + 1, steps |-> 0] /\ counter' = counter
        /\ UNCHANGED <<task, result>> /\ DOMAIN batch' = Envs
        /\ batch'[e] = [env |-> e, resets |-> position[e].resets + 1, steps |-> 0, ended |-> {}]
        BY <1>2, <2>1 DEF ResetAll, ResetReturns, ReturnOf, After
  <2>4. Holds(e, b, batch[e])' /\ Is(e, batch[e])'
    <3>1. b.phase = "return" /\ b.row.resets = position[e].resets
          BY <2>2 DEF Rests, At
    <3> QED BY <1>2, <1>3, <2>2, <2>3, <3>1 DEF Holds, Is, At, Due
  <2>5. In(e, b)'
    <3>1. 0 % MaxSteps = 0 /\ batch'[e].steps % MaxSteps = 0 /\ batch'[e].resets > 0
          BY <1>5, <1>6, <2>3
    <3> QED BY <1>6, <2>1, <2>2, <2>3, <2>4, <3>1 DEF In, BatchIn, Idle
  <2>6. InRange(e)'
        BY <1>2, <2>1, <2>3, Counts DEF InRange
  <2>7. AtFront(e, b)'
        BY <1>8, <1>9, <2>1, <2>3, <2>5, <2>6 DEF InLoop
  <2> QED BY <1>1, <2>1, <2>7, ExtendsNot
<1>12. CASE StoreReturns
  <2>1. /\ pc = "store_returns" /\ Submit(ReturnCalls(batch)) /\ pc' = "step_async"
        /\ UNCHANGED <<batch, flags, iter, taken, last, counter, task, result, position>>
        BY <1>12 DEF StoreReturns, Goto, SubmitReturns, ReturnCalls, envVars
  <2>2. InRange(e)' /\ pc \in InLoop /\ pc' \in InLoop
        BY <1>2, <2>1 DEF InRange, InLoop
  <2>3. In(e, b)
        BY <1>8, <2>2
  <2>4. ASSUME e \in DOMAIN batch
        PROVE  \E d \in Stances(x, e) : Extends(x, e, b, d) /\ AtFront(e, d)'
    <3>1. BatchIn(e, b) /\ e \notin DOMAIN last
          BY <2>1, <2>3, <2>4 DEF In, LastIn
    <3>2. b.phase = "return" /\ Due(x, b, batch[e])
          BY <1>2, <2>1, <3>1 DEF BatchIn, Holds
    <3>3. PICK r : r = batch[e]
          OBVIOUS
    <3>4. PICK d \in Stances(x, e) : d = Stored(b, r) /\ Extends(x, e, b, d)
          BY <1>1, <1>7, <2>1, <2>4, <3>2, <3>3, ExtendsReturn
    <3>5. BatchIn(e, d)'
          BY <2>1, <3>1, <3>3, <3>4 DEF BatchIn, Idle, Is, Waits, Stored
    <3>6. In(e, d)'
          BY <2>1, <2>4, <3>1, <3>5 DEF In
    <3>7. AtFront(e, d)'
          BY <1>8, <1>9, <2>1, <2>2, <3>6
    <3> QED BY <3>4, <3>7
  <2>5. ASSUME e \notin DOMAIN batch
        PROVE  Extends(x, e, b, b) /\ AtFront(e, b)'
    <3>1. In(e, b)'
          BY <1>3, <2>1, <2>3, <2>5, InSame DEF In
    <3>2. AtFront(e, b)'
          BY <1>8, <1>9, <2>1, <2>2, <3>1
    <3> QED BY <1>1, <1>7, <2>1, <2>5, <3>2, ExtendsOthers
  <2> QED BY <2>4, <2>5
<1>13. CASE SubmitSteps
  <2>1. /\ pc = "step_async" /\ StepAsync(DOMAIN batch, x) /\ pc' = "store_responses"
        /\ UNCHANGED <<batch, flags, iter, taken, last, mailbox>>
        BY <1>2, <1>13 DEF SubmitSteps, Goto, bufferVars
  <2>2. UNCHANGED <<result, position>> /\ counter'[e] = counter[e]
        /\ task'[e] = (IF e \in DOMAIN batch THEN "step" ELSE task[e])
        BY <1>2, <2>1 DEF StepAsync
  <2>3. InRange(e)' /\ pc \in InLoop /\ pc' \in InLoop
        BY <1>2, <2>1, <2>2 DEF InRange, InLoop
  <2>4. In(e, b)
        BY <1>8, <2>3
  <2>5. In(e, b)'
    <3>1. CASE e \in DOMAIN batch
      <4>1. BatchIn(e, b) /\ e \notin DOMAIN last
            BY <2>1, <2>4, <3>1 DEF In, LastIn
      <4>2. PICK r : r = batch[e]
            OBVIOUS
      <4>3. Idle(e) /\ Is(e, r) /\ r.resets > 0
            BY <2>1, <4>1, <4>2 DEF BatchIn
      <4>4. Away(e, [row |-> r, cur |-> r, phase |-> "return", closed |-> FALSE])'
            BY <2>2, <3>1, <4>3 DEF Away, Idle, Is
      <4>5. BatchIn(e, b)'
            BY <2>1, <4>1, <4>2, <4>4 DEF BatchIn
      <4> QED BY <2>1, <3>1, <4>1, <4>5 DEF In
    <3>2. CASE e \notin DOMAIN batch
          BY <1>3, <2>1, <2>2, <2>4, <3>2, InSame DEF In
    <3> QED BY <3>1, <3>2
  <2>6. AtFront(e, b)'
        BY <1>8, <1>9, <2>1, <2>2, <2>3, <2>5
  <2> QED BY <1>1, <2>1, <2>6, ExtendsNot
<1>14. CASE StoreResponses
  <2>1. /\ pc = "store_responses" /\ Submit(ResponseCalls(batch, flags)) /\ pc' = "collect"
        /\ UNCHANGED <<batch, flags, iter, taken, last, counter, task, result, position>>
        BY <1>14 DEF StoreResponses, Goto, SubmitResponses, ResponseCalls, envVars
  <2>2. InRange(e)' /\ pc \in InLoop /\ pc' \in InLoop
        BY <1>2, <2>1 DEF InRange, InLoop
  <2>3. In(e, b)
        BY <1>8, <2>2
  <2>4. ASSUME e \in DOMAIN batch
        PROVE  \E d \in Stances(x, e) : Extends(x, e, b, d) /\ AtFront(e, d)'
    <3>1. BatchIn(e, b) /\ e \notin DOMAIN last
          BY <2>1, <2>3, <2>4 DEF In, LastIn
    <3>2. b.phase = "response" /\ b.cur = batch[e]
          BY <2>1, <3>1 DEF BatchIn, Waits
    <3>3. PICK r \in Returns : r = batch[e]
          BY <1>7, <2>4 DEF OfEnv
    <3>4. ~Full(x, b, r)
      <4>1. r.steps % MaxSteps = taken[e] /\ (b.closed <=> taken[e] = 0)
            BY <3>1, <3>3 DEF BatchIn
      <4> QED BY <1>2, <4>1 DEF Full
    <3> PICK cut \in BOOLEAN : /\ cut <=> e \in flags
                              /\ Rowed(x, b, r, cut) \in Stances(x, e) /\ Extends(x, e, b, Rowed(x, b, r, cut))
        BY <1>1, <1>7, <1>8, <2>1, <2>4, <3>2, <3>3, ExtendsRow
    <3>5. PICK d \in Stances(x, e) : d = Rowed(x, b, r, cut) /\ Extends(x, e, b, d)
          OBVIOUS
    <3>6. d = [row |-> r, cur |-> r, phase |-> "return", closed |-> FALSE]
          BY <1>8, <3>4, <3>5 DEF Rowed, Grown
    <3>7. NoneIn(e, d)'
      <4>1. Away(e, d)
            BY <2>1, <3>1, <3>3, <3>6 DEF BatchIn
      <4>2. ~d.closed /\ taken[e] < MaxSteps /\ d.row.steps % MaxSteps = taken[e]
            BY <3>1, <3>3, <3>6 DEF BatchIn
      <4>3. NoneIn(e, d)
            BY <4>1, <4>2 DEF NoneIn
      <4> QED BY <1>3, <2>1, <4>3, InSame
    <3>8. In(e, d)'
          BY <2>1, <3>1, <3>7 DEF In
    <3>9. AtFront(e, d)'
          BY <1>8, <1>9, <2>1, <2>2, <3>8
    <3> QED BY <3>5, <3>9
  <2>5. ASSUME e \notin DOMAIN batch
        PROVE  Extends(x, e, b, b) /\ AtFront(e, b)'
    <3>1. In(e, b)'
          BY <1>3, <2>1, <2>3, <2>5, InSame DEF In
    <3>2. AtFront(e, b)'
          BY <1>8, <1>9, <2>1, <2>2, <3>1
    <3> QED BY <1>1, <1>7, <2>1, <2>5, <3>2, ExtendsOthers
  <2> QED BY <2>4, <2>5
<1>15. CASE CollectRsl
  <2> DEFINE finished == {f \in Ready : taken[f] + 1 = MaxSteps}
             all == DOMAIN last \cup finished
  <2>1. /\ pc = "collect" /\ CollectAsync(x)
        /\ taken' = [f \in Envs |-> IF f \in Ready THEN taken[f] + 1 ELSE taken[f]]
        /\ last' = [f \in all |-> IF f \in finished THEN Collected[f] ELSE last[f]]
        /\ batch' = [f \in Ready \ finished |-> Collected[f]]
        /\ pc' = (IF all = Envs THEN "store_last" ELSE IF Ready = finished THEN "collect" ELSE "store_returns")
        /\ flags' = flags /\ iter' = iter /\ mailbox' = mailbox
        BY <1>2, <1>15 DEF CollectRsl, Only, Goto, bufferVars
  <2>2. /\ counter'[e] = counter[e] /\ result'[e] = {} /\ UNCHANGED <<task, position>>
        BY <1>2, <2>1 DEF CollectAsync
  <2>3. In(e, b) /\ (e \in finished => e \in Ready)
        BY <1>8, <2>1 DEF InLoop
  <2>4. taken'[e] = IF e \in Ready THEN taken[e] + 1 ELSE taken[e]
        BY <2>1
  <2>5. taken[e] \in Nat /\ taken[e] <= MaxSteps
        BY <1>2, <1>7 DEF InRange
  <2>6. pc' \in {"store_last", "collect", "store_returns"}
        BY <2>1
  <2>7. ASSUME e \in DOMAIN last
        PROVE  /\ last'[e] = last[e] /\ e \in DOMAIN last' /\ e \notin DOMAIN batch' /\ InRange(e)'
               /\ Finished(e, b, last[e])' /\ Holds(e, b, last[e])'
    <3>1. LastIn(e, b)
          BY <2>3, <2>7 DEF In
    <3>2. e \notin Ready
          BY <3>1 DEF LastIn, Finished, Idle, Ready
    <3>3. last'[e] = last[e] /\ e \in DOMAIN last' /\ e \notin DOMAIN batch'
          BY <2>1, <2>7, <3>2
    <3>4. Finished(e, b, last[e])' /\ Holds(e, b, last[e])'
          BY <1>2, <1>3, <2>2, <3>1, <3>3 DEF LastIn, Finished, Holds, Idle, Is
    <3>5. InRange(e)'
          BY <1>2, <2>1, <2>2, <2>4, <3>2 DEF InRange
    <3> QED BY <3>3, <3>4, <3>5
  <2>8. ASSUME e \notin DOMAIN last, e \notin Ready
        PROVE  /\ e \notin DOMAIN last' /\ e \notin DOMAIN batch' /\ NoneIn(e, b)' /\ InRange(e)'
               /\ pc' # "store_last"
    <3>1. NoneIn(e, b)
          BY <2>1, <2>3, <2>8 DEF In
    <3>2. e \notin DOMAIN last' /\ e \notin DOMAIN batch' /\ e \notin all
          BY <2>1, <2>3, <2>8
    <3>3. Away(e, b)'
      <4>1. task[e] = "step" /\ At(b.row) = position[e] /\ b.phase = "return" /\ b.row.resets > 0
            BY <1>1, <1>2, <2>8, <3>1, AwayReady DEF NoneIn
      <4> QED BY <1>2, <1>3, <2>2, <4>1 DEF Away
    <3>4. NoneIn(e, b)'
          BY <2>4, <2>8, <3>1, <3>3 DEF NoneIn
    <3>5. InRange(e)'
          BY <1>2, <2>1, <2>2, <2>4, <2>8 DEF InRange
    <3>6. pc' # "store_last"
          BY <2>1, <3>2
    <3> QED BY <3>2, <3>4, <3>5, <3>6
  <2>9. ASSUME e \notin DOMAIN last, e \in Ready
        PROVE  /\ Holds(e, b, Collected[e]) /\ OfEnv(e, Collected[e]) /\ ~b.closed
               /\ Is(e, Collected[e]) /\ task[e] = "none" /\ taken[e] < MaxSteps
               /\ Collected[e].steps % MaxSteps = (IF taken[e] + 1 = MaxSteps THEN 0 ELSE taken[e] + 1)
               /\ Collected[e].resets > 0
    <3>1. NoneIn(e, b)
          BY <2>1, <2>3, <2>9 DEF In
    <3>2. task[e] = "none" /\ OfEnv(e, Collected[e]) /\ Holds(e, b, Collected[e]) /\ b.row.resets > 0
          BY <1>1, <2>9, <3>1, AwayReady DEF NoneIn
    <3>3. ~b.closed /\ taken[e] < MaxSteps /\ b.row.steps % MaxSteps = taken[e]
          BY <3>1 DEF NoneIn
    <3>4. Is(e, Collected[e]) /\ Collected[e].steps = b.row.steps + 1 /\ Collected[e].resets = b.row.resets
          BY <1>2, <3>2, <3>3 DEF Holds, Due, Follows
    <3>5. (b.row.steps + 1) % MaxSteps =
             IF b.row.steps % MaxSteps = MaxSteps - 1 THEN 0 ELSE (b.row.steps % MaxSteps) + 1
          BY <1>4, <1>6, NextTurn
    <3>6. Collected[e].steps % MaxSteps = (IF taken[e] + 1 = MaxSteps THEN 0 ELSE taken[e] + 1)
      <4>1. taken[e] = MaxSteps - 1 <=> taken[e] + 1 = MaxSteps
            BY <1>6, <2>5
      <4> QED BY <3>3, <3>4, <3>5, <4>1
    <3> QED BY <3>2, <3>3, <3>4, <3>6
  <2>10. ASSUME e \notin DOMAIN last, e \in finished
         PROVE  /\ e \in DOMAIN last' /\ e \notin DOMAIN batch' /\ InRange(e)'
                /\ Finished(e, b, last[e])' /\ Holds(e, b, last[e])'
    <3>1. PICK r : r = Collected[e]
          OBVIOUS
    <3>2. e \in Ready /\ taken[e] + 1 = MaxSteps /\ e \in DOMAIN last' /\ e \notin DOMAIN batch' /\ last'[e] = r
          BY <2>1, <2>10, <3>1
    <3>3. /\ Holds(e, b, r) /\ ~b.closed /\ Is(e, r) /\ task[e] = "none" /\ r.steps % MaxSteps = 0
          BY <2>9, <2>10, <3>1, <3>2
    <3>4. Finished(e, b, last[e])' /\ Holds(e, b, last[e])'
          BY <1>2, <1>3, <2>2, <3>2, <3>3 DEF Finished, Holds, Idle, Is
    <3>5. taken'[e] \in 0..MaxSteps
          BY <1>6, <2>4, <2>5, <3>2
    <3>6. InRange(e)'
          BY <1>2, <2>1, <2>2, <3>5 DEF InRange
    <3> QED BY <3>2, <3>4, <3>6
  <2>11. ASSUME e \notin DOMAIN last, e \in Ready, e \notin finished
         PROVE  /\ e \notin DOMAIN last' /\ e \in DOMAIN batch' /\ InRange(e)' /\ pc' = "store_returns"
                /\ BatchIn(e, b)'
    <3>1. PICK r : r = Collected[e]
          OBVIOUS
    <3>2. taken[e] + 1 # MaxSteps /\ e \notin DOMAIN last' /\ e \in DOMAIN batch' /\ batch'[e] = r
          /\ pc' = "store_returns"
          BY <2>1, <2>11, <3>1
    <3>3. /\ Holds(e, b, r) /\ OfEnv(e, r) /\ ~b.closed /\ Is(e, r) /\ task[e] = "none" /\ taken[e] < MaxSteps
          /\ r.steps % MaxSteps = taken[e] + 1 /\ r.resets > 0
          BY <2>9, <2>11, <3>1, <3>2
    <3>4. taken'[e] = taken[e] + 1 /\ taken'[e] < MaxSteps /\ taken'[e] # 0 /\ taken'[e] \in 0..MaxSteps
          BY <1>6, <2>4, <2>5, <2>11, <3>2, <3>3
    <3>5. Holds(e, b, batch[e])' /\ Is(e, batch[e])' /\ Idle(e)'
          BY <1>2, <1>3, <2>2, <3>2, <3>3 DEF Holds, Idle, Is
    <3>6. BatchIn(e, b)'
          BY <3>2, <3>3, <3>4, <3>5 DEF BatchIn, OfEnv
    <3>7. InRange(e)'
          BY <1>2, <2>1, <2>2, <3>4 DEF InRange
    <3> QED BY <3>2, <3>6, <3>7
  <2>12. flags' = {} /\ counter'[e] = -1
         BY <1>8, <2>1, <2>2
  <2> HIDE DEF finished, all
  <2>13. AtFront(e, b)'
    <3>1. CASE pc' = "store_last"
      <4>1. /\ e \in DOMAIN last' /\ Finished(e, b, last[e])' /\ Holds(e, b, last[e])' /\ InRange(e)'
            BY <2>7, <2>8, <2>10, <2>11, <3>1
      <4>2. RslFront(e, b)'
            BY <2>12, <3>1, <4>1 DEF RslFront
      <4> QED BY <1>10, <4>1, <4>2
    <3>2. CASE pc' # "store_last"
      <4>1. In(e, b)' /\ InRange(e)'
        <5>1. CASE e \in DOMAIN last
              BY <2>7, <5>1 DEF In, LastIn
        <5>2. CASE e \notin DOMAIN last /\ e \in finished
              BY <2>10, <5>2 DEF In, LastIn
        <5>3. CASE e \notin DOMAIN last /\ e \in Ready /\ e \notin finished
              BY <2>11, <5>3 DEF In
        <5>4. CASE e \notin DOMAIN last /\ e \notin Ready
              BY <2>8, <5>4 DEF In
        <5> QED BY <2>3, <5>1, <5>2, <5>3, <5>4
      <4> QED BY <1>9, <2>6, <2>12, <3>2, <4>1 DEF InLoop
    <3> QED BY <3>1, <3>2
  <2> QED BY <1>1, <2>1, <2>13, ExtendsNot
<1>16. CASE StoreLast
  <2>1. /\ pc = "store_last" /\ Submit(ReturnCalls(last)) /\ batch' = last /\ pc' = "store_last_responses"
        /\ UNCHANGED <<flags, iter, taken, last, counter, task, result, position>>
        BY <1>16 DEF StoreLast, Goto, SubmitReturns, ReturnCalls, envVars
  <2>2. e \in DOMAIN last /\ Finished(e, b, last[e]) /\ Holds(e, b, last[e])
        BY <1>8, <2>1
  <2>3. b.phase = "return" /\ Due(x, b, last[e])
        BY <1>2, <2>2 DEF Holds
  <2>4. PICK r : r = last[e]
        OBVIOUS
  <2>5. PICK d \in Stances(x, e) : d = Stored(b, r) /\ Extends(x, e, b, d)
        BY <1>1, <1>7, <2>1, <2>2, <2>3, <2>4, ExtendsReturn
  <2>6. Finished(e, d, last[e])' /\ Waits(d, last[e])'
        BY <2>1, <2>2, <2>4, <2>5 DEF Finished, Waits, Stored, Idle, Is
  <2>7. RslFront(e, d)'
        BY <1>8, <2>1, <2>2, <2>6 DEF RslFront
  <2>8. InRange(e)'
        BY <1>2, <2>1 DEF InRange
  <2> QED BY <1>10, <2>5, <2>7, <2>8
<1>17. CASE StoreLastResponses
  <2>1. /\ pc = "store_last_responses" /\ Submit(ResponseCalls(batch, {})) /\ pc' = "truncate"
        /\ UNCHANGED <<batch, flags, iter, taken, last, counter, task, result, position>>
        BY <1>17 DEF StoreLastResponses, Goto, SubmitResponses, ResponseCalls, envVars
  <2>2. e \in DOMAIN last /\ batch = last /\ Finished(e, b, last[e]) /\ Waits(b, last[e])
        BY <1>8, <2>1
  <2>3. PICK r \in Returns : r = batch[e]
        BY <1>7, <2>2 DEF OfEnv
  <2>4. b.phase = "response" /\ b.cur = r /\ ~b.closed /\ r.steps % MaxSteps = 0 /\ Idle(e) /\ Is(e, r)
        BY <2>2, <2>3 DEF Waits, Finished
  <2>5. Full(x, b, r)
        BY <1>2, <2>4 DEF Full
  <2> PICK cut \in BOOLEAN : /\ cut <=> e \in {}
                            /\ Rowed(x, b, r, cut) \in Stances(x, e) /\ Extends(x, e, b, Rowed(x, b, r, cut))
      BY <1>1, <1>7, <2>1, <2>2, <2>3, <2>4, ExtendsRow
  <2>6. PICK d \in Stances(x, e) : d = Rowed(x, b, r, cut) /\ Extends(x, e, b, d)
        OBVIOUS
  <2>7. d.row = r /\ d.phase = "truncate" /\ d.closed = FALSE
        BY <2>5, <2>6 DEF Rowed, Grown
  <2>8. d.row.resets > 0
    <3>1. d.row.resets \in Nat /\ Sound(x, d)
          BY <2>6, StanceIs
    <3> QED BY <2>7, <3>1 DEF Sound
  <2>9. RslFront(e, d)'
        BY <1>8, <2>1, <2>2, <2>3, <2>4, <2>7, <2>8 DEF RslFront, Idle, Is
  <2>10. InRange(e)'
        BY <1>2, <2>1 DEF InRange
  <2> QED BY <1>10, <2>6, <2>9, <2>10
<1>18. CASE TruncateAll
  <2>1. /\ pc = "truncate" /\ SubmitTruncations(DOMAIN batch) /\ pc' = "rolled_out"
        /\ taken' = [f \in Envs |-> 0] /\ last' = Empty
        /\ UNCHANGED <<batch, flags, iter, counter, task, result, position>>
        BY <1>18 DEF TruncateAll, Goto, envVars
  <2>2. Ended(e, b) /\ b.phase = "truncate"
        BY <1>8, <2>1
  <2>3. e \in DOMAIN batch /\ Idle(e) /\ Is(e, batch[e]) /\ b.row = batch[e]
        BY <2>2 DEF Ended
  <2>4. PICK d \in Stances(x, e) : d = Closed(b) /\ Extends(x, e, b, d)
        BY <1>1, <1>3, <1>7, <2>1, <2>2, <2>3, ExtendsTruncate
  <2>5. d.row = b.row /\ d.closed = TRUE /\ d.phase = "return"
        BY <2>4 DEF Closed
  <2>6. Rests(e, d)'
        BY <2>1, <2>3, <2>5 DEF Rests, Is
  <2>7. Ended(e, d)'
        BY <2>1, <2>2, <2>5 DEF Ended, Idle, Is
  <2>8. e \notin DOMAIN last' /\ taken'[e] = 0
        BY <2>1 DEF Empty
  <2>9. RslFront(e, d)'
        BY <1>8, <2>1, <2>5, <2>6, <2>7, <2>8 DEF RslFront, Ended
  <2>10. InRange(e)'
        BY <1>2, <2>1, <2>8, Counts DEF InRange
  <2> QED BY <1>10, <2>4, <2>9, <2>10
<1>19. CASE NextEpoch
  <2>1. /\ pc = "sampled" /\ pc' \in {"done", "store_returns"} /\ mailbox' = mailbox
        /\ UNCHANGED <<batch, flags, iter, taken, last, counter, task, result, position>>
        BY <1>19 DEF NextEpoch, Goto, envVars, bufferVars
  <2>2. Ended(e, b) /\ Rests(e, b) /\ b.closed /\ taken[e] = 0 /\ e \notin DOMAIN last
        BY <1>8, <2>1
  <2>3. InRange(e)'
        BY <1>2, <2>1 DEF InRange
  <2>4. CASE pc' = "done"
    <3>1. RslFront(e, b)'
          BY <1>8, <2>1, <2>2, <2>4 DEF RslFront, Ended, Idle, Is, Rests
    <3> QED BY <1>1, <1>10, <2>1, <2>3, <3>1, ExtendsNot
  <2>5. CASE pc' = "store_returns"
    <3>1. Holds(e, b, batch[e])
          BY <1>2, <2>2 DEF Ended, Rests, Holds, Due
    <3>2. OfEnv(e, batch[e])
          BY <1>7, <2>2 DEF Ended
    <3>3. BatchIn(e, b)'
          BY <1>2, <1>3, <1>6, <2>1, <2>2, <2>5, <3>1, <3>2 DEF BatchIn, Ended, Idle, Is, Holds, OfEnv
    <3>4. In(e, b)'
          BY <2>1, <2>2, <2>5, <3>3 DEF In, Ended
    <3>5. AtFront(e, b)'
          BY <1>8, <1>9, <2>1, <2>3, <2>5, <3>4 DEF InLoop
    <3> QED BY <1>1, <2>1, <3>5, ExtendsNot
  <2> QED BY <2>1, <2>4, <2>5
<1>20. ~(StorePairs \/ Step \/ Collect)
       BY <1>8 DEF StorePairs, Step, Collect, RslPlaces, InLoop
<1> QED BY <1>11, <1>12, <1>13, <1>14, <1>15, <1>16, <1>17, <1>18, <1>19, <1>20 DEF Rolling
-----------------------------------------------------------------------------
(***************************************************************************)
(* Every step but those of the shards, for one environment.                *)
(***************************************************************************)

\* What e goes through, if nothing about it changes.
LEMMA FrontSame ==
    ASSUME NEW e, NEW b, AtFront(e, b),
           UNCHANGED <<loop, pc, batch, flags, iter, taken, last, position>>,
           counter'[e] = counter[e], task'[e] = task[e], result'[e] = result[e]
    PROVE  AtFront(e, b)'
<1>1. inAutoReset' = inAutoReset
      BY DEF inAutoReset
<1>2. \A d : Away(e, d) => Away(e, d)'
      BY <1>1 DEF Away, Holds, Is
<1>3. \A r : Holds(e, b, r) => Holds(e, b, r)'
      BY <1>1 DEF Holds, Is
<1>4. (Idle(e) => Idle(e)') /\ (Rests(e, b) => Rests(e, b)') /\ (InRange(e) => InRange(e)')
      BY DEF Idle, Rests, InRange
<1>5. \A r : (Is(e, r) => Is(e, r)') /\ (Finished(e, b, r) => Finished(e, b, r)')
      BY <1>4 DEF Is, Finished
<1>6. SyncFront(e, b) => SyncFront(e, b)'
      BY <1>3, <1>4 DEF SyncFront
<1>7. AsyncFront(e, b) => AsyncFront(e, b)'
      BY <1>2, <1>3, <1>4, <1>5 DEF AsyncFront
<1>8. RslFront(e, b) => RslFront(e, b)'
      BY <1>2, <1>3, <1>4, <1>5 DEF RslFront
<1> QED BY <1>4, <1>6, <1>7, <1>8 DEF AtFront

\* The rollout is sampled.
LEMMA FrontSampled ==
    ASSUME NEW e, NEW b, AtFront(e, b), loop # "async", pc = "rolled_out", pc' = "sampled",
           UNCHANGED <<loop, batch, flags, iter, taken, last, position, counter, task, result>>
    PROVE  AtFront(e, b)'
<1>1. inAutoReset' = inAutoReset
      BY DEF inAutoReset
<1>4. (Idle(e) => Idle(e)') /\ (Rests(e, b) => Rests(e, b)') /\ (InRange(e) => InRange(e)')
      BY DEF Idle, Rests, InRange
<1>5. \A r : (Is(e, r) => Is(e, r)')
      BY <1>4 DEF Is
<1>6. SyncFront(e, b) => SyncFront(e, b)'
      BY <1>4 DEF SyncFront
<1>8. RslFront(e, b) => RslFront(e, b)'
      BY <1>4, <1>5 DEF RslFront
<1> QED BY <1>4, <1>6, <1>8 DEF AtFront

\* An actor finishes: where e is away, its return is there.
LEMMA AwayFinishes ==
    ASSUME EnvTyped, NEW e \in Envs, NEW b, b.row.env = e, Away(e, b), inAutoReset \/ ~b.closed,
           NEW ended, Finish(e, ended), loop' = loop
    PROVE  Away(e, b)'
<1>1. inAutoReset' = inAutoReset
      BY DEF inAutoReset
<1>2. b.phase = "return" /\ b.row.resets > 0 /\ task[e] # "none"
      BY DEF Away, Finish
<1>3. task[e] = (IF inAutoReset /\ b.closed THEN "reset" ELSE "step") /\ At(b.row) = position[e]
      BY <1>2 DEF Away
<1>4. PICK r : r = ReturnOf(e, After(task[e], position[e]), ended)
      OBVIOUS
<1>5. position'[e] = After(task[e], position[e]) /\ result'[e] = {r} /\ task'[e] = "none"
      BY <1>4 DEF Finish, EnvTyped
<1>6. At(r) = position'[e] /\ r.env = e
      BY <1>4, <1>5 DEF At, After, ReturnOf
<1>7. Due(inAutoReset, b, r)
  <2>1. b.row.resets = position[e].resets /\ b.row.steps = position[e].steps
        BY <1>3 DEF At
  <2>2. CASE inAutoReset /\ b.closed
        BY <1>3, <1>4, <2>1, <2>2 DEF Due, ReturnOf, After
  <2>3. CASE ~b.closed
        BY <1>3, <1>4, <2>1, <2>3 DEF Due, ReturnOf, After, Follows
  <2> QED BY <2>2, <2>3
<1>8. Holds(e, b, r)'
      BY <1>1, <1>2, <1>6, <1>7 DEF Holds, Is
<1> QED BY <1>2, <1>5, <1>8 DEF Away

LEMMA FrontFinish ==
    ASSUME Typed, NEW x, NEW e \in Envs, NEW b \in Stances(x, e), AtFront(e, b), NEW f \in Envs, FinishTask(f)
    PROVE  AtFront(e, b)'
<1>1. EnvTyped /\ RollTyped
      BY DEF Typed
<1>2. UNCHANGED <<loop, pc, batch, flags, iter, taken, last, counter>> /\ \E ended : Finish(f, ended)
      BY DEF FinishTask, rolloutVars, Finish
<1>3. PICK ended : Finish(f, ended)
      BY <1>2
<1>4. CASE f # e
  <2>1. position'[e] = position[e] /\ task'[e] = task[e] /\ result'[e] = result[e]
        BY <1>1, <1>3, <1>4 DEF Finish, EnvTyped
  <2>2. \A d : Away(e, d) => Away(e, d)'
        BY <1>2, <2>1 DEF Away, Holds, Is, inAutoReset
  <2>3. \A r : Holds(e, b, r) => Holds(e, b, r)'
        BY <1>2, <2>1 DEF Holds, Is, inAutoReset
  <2>4. (Idle(e) => Idle(e)') /\ (Rests(e, b) => Rests(e, b)') /\ (InRange(e) => InRange(e)')
        BY <1>2, <2>1 DEF Idle, Rests, InRange
  <2>5. \A r : (Is(e, r) => Is(e, r)') /\ (Finished(e, b, r) => Finished(e, b, r)')
        BY <2>1, <2>4 DEF Is, Finished
  <2>6. SyncFront(e, b) => SyncFront(e, b)'
        BY <1>2, <2>1, <2>3, <2>4 DEF SyncFront
  <2>7. AsyncFront(e, b) => AsyncFront(e, b)'
        BY <1>2, <2>1, <2>2, <2>3, <2>4, <2>5 DEF AsyncFront
  <2>8. RslFront(e, b) => RslFront(e, b)'
        BY <1>2, <2>1, <2>2, <2>3, <2>4, <2>5 DEF RslFront
  <2> QED BY <1>2, <2>4, <2>6, <2>7, <2>8 DEF AtFront
<1>5. CASE f = e
  <2>1. ~Idle(e) /\ InRange(e) /\ InRange(e)' /\ Finish(e, ended)
        BY <1>2, <1>3, <1>5 DEF Idle, Finish, AtFront, InRange
  <2>2. b.row.env = e
        BY StanceIs
  <2>3. loop # "sync"
        BY <2>1 DEF AtFront, SyncFront
  <2>4. ASSUME loop = "async" PROVE AsyncFront(e, b)'
    <3>1. /\ pc \in {"store_returns", "store_responses", "step_async", "collect", "done"}
          /\ ~(pc # "collect" /\ e \in DOMAIN batch) /\ Outside(e, b)
          BY <2>1, <2>4, AsyncParts DEF AtFront, Inside
    <3>2. Away(e, b)'
      <4>1. inAutoReset \/ ~b.closed
            BY <2>4, "async" # "rsl" DEF inAutoReset
      <4> QED BY <1>1, <1>2, <2>1, <2>2, <3>1, <4>1, AwayFinishes DEF Outside
    <3>3. Outside(e, b)'
          BY <1>2, <3>1, <3>2 DEF Outside
    <3> QED BY <1>2, <3>1, <3>3 DEF AsyncFront, Outside
  <2>5. ASSUME loop = "rsl" PROVE RslFront(e, b)'
    <3>1. /\ pc \in InLoop /\ flags = {} /\ counter[e] = -1 /\ In(e, b)
          BY <2>1, <2>5, RslParts DEF AtFront, RslPlaces, Finished, Ended
    <3>2. e \notin DOMAIN last
          BY <2>1, <3>1 DEF In, LastIn, Finished
    <3>3. CASE pc # "collect" /\ e \in DOMAIN batch
      <4>1. BatchIn(e, b) /\ pc = "store_responses"
            BY <2>1, <3>1, <3>2, <3>3 DEF In, BatchIn
      <4>2. PICK r : r = batch[e]
            OBVIOUS
      <4>3. PICK d : d = [row |-> r, cur |-> r, phase |-> "return", closed |-> FALSE]
            OBVIOUS
      <4>4. Away(e, d) /\ d.row.env = e /\ ~d.closed
            BY <4>1, <4>2, <4>3 DEF BatchIn
      <4>5. Away(e, d)'
            BY <1>1, <1>2, <2>1, <4>4, AwayFinishes
      <4>6. BatchIn(e, b)'
            BY <1>2, <4>1, <4>2, <4>3, <4>5 DEF BatchIn, Waits
      <4>7. In(e, b)'
            BY <1>2, <3>2, <3>3, <4>6 DEF In
      <4> QED BY <1>2, <3>1, <4>7 DEF RslFront, In, LastIn, BatchIn, NoneIn, InLoop
    <3>4. CASE ~(pc # "collect" /\ e \in DOMAIN batch)
      <4>1. NoneIn(e, b)
            BY <3>1, <3>2, <3>4 DEF In
      <4>2. Away(e, b)'
            BY <1>1, <1>2, <2>1, <2>2, <4>1, AwayFinishes DEF NoneIn
      <4>3. NoneIn(e, b)'
            BY <1>2, <4>1, <4>2 DEF NoneIn
      <4>4. In(e, b)'
            BY <1>2, <3>2, <3>4, <4>3 DEF In
      <4> QED BY <1>2, <3>1, <4>4 DEF RslFront, In, LastIn, BatchIn, NoneIn, InLoop
    <3> QED BY <3>3, <3>4
  <2> QED BY <1>2, <2>1, <2>3, <2>4, <2>5 DEF AtFront
<1> QED BY <1>4, <1>5

\* A step that no shard takes leads every environment on.
LEMMA NextFront ==
    ASSUME Typed, NEW x \in BOOLEAN, x = inAutoReset, NEW e \in Envs, NEW b \in Stances(x, e), AtFront(e, b),
           Rolling \/ Sampling \/ (\E f \in Envs : FinishTask(f)) \/ Stop
    PROVE  \E d \in Stances(x, e) : Extends(x, e, b, d) /\ AtFront(e, d)'
<1>1. EnvTyped /\ RollTyped /\ SampleTyped /\ ShardTyped
      BY DEF Typed
<1>2. CASE Rolling
      BY <1>1, <1>2, SyncRolls, AsyncRolls, RslRolls DEF RollTyped
<1>3. CASE \E f \in Envs : FinishTask(f)
  <2>1. mailbox' = mailbox
        BY <1>3 DEF FinishTask, bufferVars
  <2> QED BY <1>1, <1>3, <2>1, FrontFinish, ExtendsNot
<1>4. CASE Stop
  <2>1. mailbox' = mailbox /\ UNCHANGED <<loop, pc, batch, flags, iter, taken, last, position, counter, task, result>>
        BY <1>4 DEF Stop, bufferVars, envVars
  <2> QED BY <1>1, <2>1, FrontSame, ExtendsNot
<1>5. ASSUME Sampling PROVE AtFront(e, b)'
  <2>1. CASE StartSampling \/ AskSize \/ Decide \/ Get
    <3>1. UNCHANGED <<loop, pc, batch, flags, iter, taken, last, position, counter, task, result>>
          BY <2>1 DEF StartSampling, AskSize, Decide, Get, rolloutVars, envVars
    <3> QED BY <3>1, FrontSame
  <2>2. CASE Clear
    <3>1. /\ spc = "clear" /\ pc' = (IF loop = "async" THEN pc ELSE "sampled")
          /\ UNCHANGED <<loop, batch, flags, iter, taken, last, position, counter, task, result>>
          BY <2>2 DEF Clear, envVars
    <3>2. loop # "async" => pc = "rolled_out"
          BY <1>1, <3>1 DEF SampleTyped
    <3> QED BY <3>1, <3>2, FrontSame, FrontSampled
  <2> QED BY <1>5, <2>1, <2>2 DEF Sampling
<1>6. ASSUME Sampling PROVE Extends(x, e, b, b)
  <2>1. shardOf[e] \in Shards /\ mailbox \in [Shards -> Seq(Calls)]
        BY <1>1 DEF ShardTyped
  <2>2. CASE StartSampling \/ Decide
    <3>1. mailbox' = mailbox
          BY <2>2 DEF StartSampling, Decide, bufferVars
    <3> QED BY <1>1, <3>1, ExtendsNot
  <2>3. CASE AskSize
    <3> DEFINE c == [op |-> "size"]
    <3>1. c \in Calls /\ ~Concerns(e, c)
          BY SizeCall DEF Concerns, Carries
    <3>2. mailbox' = [mailbox EXCEPT ![shards[asked + 1]] = Append(@, c)]
          BY <2>3 DEF AskSize, SubmitTo
    <3> HIDE DEF c
    <3>3. \/ mailbox'[shardOf[e]] = mailbox[shardOf[e]]
          \/ mailbox'[shardOf[e]] = Append(mailbox[shardOf[e]], c)
          BY <2>1, <3>2
    <3>4. CASE mailbox'[shardOf[e]] = Append(mailbox[shardOf[e]], c)
          BY <1>1, <3>1, <3>4, ExtendsBeside
    <3>5. CASE mailbox'[shardOf[e]] = mailbox[shardOf[e]]
          BY <1>1, <3>5, ExtendsHere
    <3> QED BY <3>3, <3>4, <3>5
  <2>4. CASE Get
    <3> DEFINE call == [s \in Shards |-> [op |-> "get", n |-> sizes[s]]]
               c == call[shardOf[e]]
    <3>1. c \in Calls /\ ~Concerns(e, c)
      <4>1. c = [op |-> "get", n |-> sizes[shardOf[e]]] /\ sizes[shardOf[e]] \in Int
            BY <1>1, <2>1 DEF ShardTyped
      <4> HIDE DEF c
      <4>2. c \in [op : {"get"}, n : Int] /\ c.op = "get"
            BY <4>1
      <4> QED BY <4>2 DEF Calls, Concerns, Carries
    <3>2. mailbox'[shardOf[e]] = Append(mailbox[shardOf[e]], c)
          BY <2>1, <2>4 DEF Get, SubmitToAll
    <3> HIDE DEF c
    <3> QED BY <1>1, <3>1, <3>2, ExtendsBeside
  <2>5. CASE Clear
    <3> DEFINE c == [op |-> "clear"]
    <3>1. c \in Calls /\ ~Concerns(e, c)
          BY SizeCall DEF Concerns, Carries
    <3>2. mailbox'[shardOf[e]] = Append(mailbox[shardOf[e]], c)
          BY <2>1, <2>5 DEF Clear, SubmitToAll
    <3> HIDE DEF c
    <3> QED BY <1>1, <3>1, <3>2, ExtendsBeside
  <2> QED BY <1>6, <2>2, <2>3, <2>4, <2>5 DEF Sampling
<1>7. CASE Sampling
      BY <1>5, <1>6, <1>7
<1> QED BY <1>2, <1>3, <1>4, <1>7

\* Where the rollout thread may be, and how far its counters go.
LEMMA Where ==
    ASSUME Typed, NEW e \in Envs, NEW b, AtFront(e, b)
    PROVE  /\ pc = "truncate" => loop = "rsl"
           /\ counter[e] \in -1..MaxSteps /\ iter \in 0..MaxSteps /\ taken[e] \in 0..MaxSteps
BY DEF Typed, RollTyped, AtFront, SyncFront, AsyncFront, InRange
-----------------------------------------------------------------------------
(***************************************************************************)
(* What a shard holds of an environment, key by key.                       *)
(***************************************************************************)

\* A are the rows of the open episode of key k.
Whole(k, A, a) ==
    /\ a.closed => A = <<>>
    /\ RunOf(k, A)
    /\ Len(A) > 1 /\ a.phase # "truncate" => ~Closes(k, a.row)
    /\ ~auto /\ ~a.closed => A # <<>> /\ (a.phase = "truncate" => Len(A) > 1)

Ordered(A, a) == (A # <<>> => A[Len(A)].ret = a.row) /\ Rising(A)

Behind(p, A, a) == UpTo(LastOf(p), a.row) /\ (A # <<>> => UpTo(LastOf(p), A[1].ret))

LEMMA KeysSame ==
    ASSUME NEW e, UNCHANGED <<auto, loop>>
    PROVE  /\ KeysOf(e)' = KeysOf(e) /\ Splits(e)' = Splits(e)
           /\ \A k, r : Closes(k, r)' <=> Closes(k, r)
           /\ \A k, rows : RunOf(k, rows)' <=> RunOf(k, rows)
           /\ \A k, A, a : Whole(k, A, a)' <=> Whole(k, A, a)
<1>1. KeysOf(e)' = KeysOf(e) /\ Splits(e)' = Splits(e)
      BY DEF KeysOf, Splits
<1>2. \A k, r : Closes(k, r)' <=> Closes(k, r)
      BY DEF Closes, Splits, inAutoReset
<1>3. \A k, rows : RunOf(k, rows)' <=> RunOf(k, rows)
      BY <1>2 DEF RunOf
<1>4. \A k, A, a : Whole(k, A, a)' <=> Whole(k, A, a)
      BY <1>2, <1>3 DEF Whole
<1> QED BY <1>1, <1>2, <1>3, <1>4

LEMMA ShardIs ==
    ASSUME NEW e, NEW a, AtShard(e, a)
    PROVE  /\ a.phase = "response" => current[e] = <<a.cur>>
           /\ ~Broken(e) => \A k \in ToSet(KeysOf(e)) : Whole(k, active[k], a)
           /\ \A k \in ToSet(KeysOf(e)) : Ordered(active[k], a)
           /\ \A p \in Pushed : p.key[1] = e =>
                 /\ p.key \in ToSet(KeysOf(e)) /\ p.rows # <<>>
                 /\ HasRows(p) => Behind(p, active[p.key], a)
BY DEF AtShard, OpenWhole, OpenOrdered, PushedOrdered, Whole, Ordered, Behind

LEMMA ShardNow ==
    ASSUME NEW e, NEW a, UNCHANGED <<auto, loop>>,
           a.phase = "response" => current'[e] = <<a.cur>>,
           ~Broken(e)' => \A k \in ToSet(KeysOf(e)) : Whole(k, active'[k], a),
           \A k \in ToSet(KeysOf(e)) : Ordered(active'[k], a),
           \A p \in Pushed' : p.key[1] = e =>
                 /\ p.key \in ToSet(KeysOf(e)) /\ p.rows # <<>>
                 /\ HasRows(p) => Behind(p, active'[p.key], a)
    PROVE  AtShard(e, a)'
<1>1. KeysOf(e)' = KeysOf(e)
      BY KeysSame
<1>2. \A k, r : Closes(k, r)' <=> Closes(k, r)
      BY KeysSame
<1>3. \A k, rows : RunOf(k, rows)' <=> RunOf(k, rows)
      BY KeysSame
<1>4. OpenWhole(e, a)'
      BY <1>1, <1>2, <1>3 DEF OpenWhole, Whole
<1>5. OpenOrdered(e, a)'
      BY <1>1 DEF OpenOrdered, Ordered
<1>6. PushedOrdered(e, a)'
      BY <1>1 DEF PushedOrdered, Behind, HasRows
<1> QED BY <1>4, <1>5, <1>6 DEF AtShard

\* Nothing about e changes at its shard.
LEMMA ShardSame ==
    ASSUME NEW e, NEW a, AtShard(e, a), UNCHANGED <<auto, loop>>, current'[e] = current[e],
           \A k \in ToSet(KeysOf(e)) : active'[k] = active[k],
           \A p \in Pushed' : p.key[1] = e => p \in Pushed,
           torn \subseteq torn'
    PROVE  AtShard(e, a)'
<1>1. Broken(e) => Broken(e)'
      BY KeysSame DEF Broken
<1>2. /\ a.phase = "response" => current'[e] = <<a.cur>>
      /\ ~Broken(e)' => \A k \in ToSet(KeysOf(e)) : Whole(k, active'[k], a)
      /\ \A k \in ToSet(KeysOf(e)) : Ordered(active'[k], a)
      /\ \A p \in Pushed' : p.key[1] = e =>
            /\ p.key \in ToSet(KeysOf(e)) /\ p.rows # <<>>
            /\ HasRows(p) => Behind(p, active'[p.key], a)
      BY <1>1, ShardIs
<1> QED BY <1>2, ShardNow

\* Positions in the order in which they come.
LEMMA Orders ==
    ASSUME NEW p \in Returns, NEW q \in Returns, NEW r \in Returns
    PROVE  /\ Before(p, q) /\ Before(q, r) => Before(p, r)
           /\ UpTo(p, q) /\ UpTo(q, r) => UpTo(p, r)
           /\ UpTo(p, q) /\ Before(q, p) => FALSE
           /\ Before(p, q) => UpTo(p, q)
           /\ UpTo(p, p)
<1>1. /\ p.resets \in Nat /\ p.steps \in Nat /\ q.resets \in Nat /\ q.steps \in Nat
      /\ r.resets \in Nat /\ r.steps \in Nat
      BY DEF Returns
<1> QED BY <1>1 DEF Before, UpTo

\* The next return comes after the last row, unless it is stored again.
LEMMA DueLater ==
    ASSUME NEW x \in BOOLEAN, NEW e, NEW a \in Stances(x, e), NEW r \in Returns, Due(x, a, r)
    PROVE  UpTo(a.row, r) /\ (~a.closed \/ x => Before(a.row, r))
<1>1. /\ a.row.resets \in Nat /\ a.row.steps \in Nat
      BY StanceIs
<1>2. CASE ~a.closed
  <2>1. r.resets = a.row.resets /\ r.steps = a.row.steps + 1
        BY <1>2 DEF Due, Follows
  <2> QED BY <1>1, <2>1 DEF Before, UpTo
<1>3. CASE a.closed /\ (x \/ a.row.resets = 0)
  <2>1. r.resets = a.row.resets + 1
        BY <1>3 DEF Due
  <2> QED BY <1>1, <2>1 DEF Before, UpTo
<1>4. CASE a.closed /\ ~(x \/ a.row.resets = 0)
  <2>1. r = a.row
        BY <1>4 DEF Due
  <2> QED BY <1>4, <2>1 DEF UpTo
<1> QED BY <1>2, <1>3, <1>4

\* A row is added to an open episode.
LEMMA Appended ==
    ASSUME NEW A \in Seq(Row), NEW row \in Row
    PROVE  /\ Append(A, row) \in Seq(Row) /\ Append(A, row) # <<>>
           /\ Len(Append(A, row)) = Len(A) + 1 /\ Len(A) \in Nat /\ DOMAIN A = 1..Len(A)
           /\ DOMAIN Append(A, row) = 1..(Len(A) + 1)
           /\ Append(A, row)[Len(A) + 1] = row
           /\ \A i \in 1..Len(A) : Append(A, row)[i] = A[i] /\ A[i] \in Row /\ A[i].ret \in Returns
           /\ A # <<>> => Append(A, row)[1] = A[1] /\ A[1].ret \in Returns /\ Len(A) > 0
           /\ A = <<>> => Append(A, row)[1] = row /\ Len(A) = 0
<1>1. \A y \in Row : y.ret \in Returns
      BY DEF Row
<1>2. A # <<>> => 1 \in 1..Len(A) /\ Len(A) > 0
      OBVIOUS
<1>3. /\ Append(A, row) \in Seq(Row) /\ Append(A, row) # <<>>
      /\ Len(Append(A, row)) = Len(A) + 1 /\ Len(A) \in Nat /\ DOMAIN A = 1..Len(A)
      /\ DOMAIN Append(A, row) = 1..(Len(A) + 1)
      /\ Append(A, row)[Len(A) + 1] = row
      OBVIOUS
<1>4. \A i \in 1..Len(A) : Append(A, row)[i] = A[i] /\ A[i] \in Row
      OBVIOUS
<1> QED BY <1>1, <1>2, <1>3, <1>4

LEMMA RowOf ==
    ASSUME NEW r \in Returns
    PROVE  Transition(r, r) \in Row /\ Transition(r, r).ret = r /\ Transition(r, r).resp = r
BY DEF Transition, Row

LEMMA GrowWhole ==
    ASSUME NEW x \in BOOLEAN, x = inAutoReset, NEW e \in Envs, NEW a \in Stances(x, e), NEW r \in Returns, r.env = e,
           a.phase # "truncate", Due(x, a, r), NEW k, k[1] = e, NEW A \in Seq(Row), Whole(k, A, a), Ordered(A, a)
    PROVE  LET row == Transition(r, r)
               d == Grown(x, a, r)
           IN  /\ ~EndsKey(e, k, row) => Whole(k, Append(A, row), d)
               /\ EndsKey(e, k, row) => Whole(k, <<>>, d) /\ Closes(k, r)
               /\ RunOf(k, Append(A, row))
<1>1. PICK row : row = Transition(r, r) /\ row \in Row /\ row.ret = r /\ row.resp = r
      BY RowOf
<1>2. PICK B : B = Append(A, row)
      OBVIOUS
<1>3. /\ Len(B) = Len(A) + 1 /\ Len(A) \in Nat /\ DOMAIN A = 1..Len(A) /\ DOMAIN B = 1..(Len(A) + 1)
      /\ B # <<>> /\ B[Len(A) + 1] = row /\ \A i \in 1..Len(A) : B[i] = A[i]
      /\ A # <<>> => Len(A) > 0
      /\ A = <<>> => Len(A) = 0
      BY <1>1, <1>2, Appended
<1>4. MaxSteps \in Nat /\ MaxSteps > 0
      BY Counts
<1>5. A # <<>> => ~a.closed /\ A[Len(A)].ret = a.row /\ Follows(a.row, r)
      BY DEF Whole, Ordered, Due
<1>6. RunOf(k, B)
  <2>1. \A i \in DOMAIN B : B[i].resp = B[i].ret /\ B[i].ret.env = k[1]
    <3>1. \A i \in 1..Len(A) : A[i].resp = A[i].ret /\ A[i].ret.env = k[1]
          BY <1>3 DEF Whole, RunOf
    <3>2. \A i \in 1..(Len(A) + 1) : i \in 1..Len(A) \/ i = Len(A) + 1
          BY <1>3
    <3> QED BY <1>1, <1>3, <3>1, <3>2
  <2>2. ASSUME NEW i \in 1..(Len(B) - 1)
        PROVE  Follows(B[i].ret, B[i + 1].ret) /\ (i > 1 => ~Closes(k, B[i].ret))
    <3>1. i \in 1..Len(A) /\ B[i] = A[i]
          BY <1>3
    <3>2. CASE i < Len(A)
      <4>1. i + 1 \in 1..Len(A) /\ i \in 1..(Len(A) - 1) /\ B[i + 1] = A[i + 1]
            BY <1>3, <3>1, <3>2
      <4> QED BY <3>1, <4>1 DEF Whole, RunOf
    <3>3. ASSUME i = Len(A) PROVE Follows(B[i].ret, B[i + 1].ret) /\ (i > 1 => ~Closes(k, B[i].ret))
      <4>1. A # <<>> /\ B[i + 1] = row /\ B[i].ret = a.row
            BY <1>3, <1>5, <3>1, <3>3
      <4>2. i > 1 => ~Closes(k, a.row)
            BY <3>3 DEF Whole
      <4>3. Follows(B[i].ret, B[i + 1].ret)
            BY <1>1, <1>5, <4>1
      <4>4. i > 1 => ~Closes(k, B[i].ret)
            BY <4>1, <4>2
      <4> QED BY <4>3, <4>4
    <3>4. i < Len(A) \/ i = Len(A)
      <4>1. PICK n \in Nat : n = Len(A)
            BY <1>3
      <4>2. i \in 1..n
            BY <3>1, <4>1
      <4>3. i < n \/ i = n
            BY <4>2
      <4> QED BY <4>1, <4>3
    <3> QED BY <3>2, <3>3, <3>4
  <2> QED BY <2>1, <2>2 DEF RunOf
<1>7. PICK d : d = Grown(x, a, r)
      OBVIOUS
<1>8. d.closed = FALSE /\ d.row = r /\ d.phase = IF Full(x, a, r) THEN "truncate" ELSE "return"
      BY <1>7 DEF Grown
<1>9. EndsKey(e, k, row) <=> auto /\ IF Splits(r.env) THEN k[2] \in r.ended ELSE r.ended # {}
      BY <1>1 DEF EndsKey
<1>10. ASSUME ~EndsKey(e, k, row) PROVE Whole(k, B, d)
  <2>1. Len(B) > 1 /\ d.phase # "truncate" => ~Closes(k, r)
    <3> SUFFICES ASSUME Len(B) > 1, d.phase # "truncate" PROVE ~Closes(k, r)
        OBVIOUS
    <3>1. A # <<>> /\ ~a.closed
          BY <1>3, <1>5
    <3>2. ~Full(x, a, r)
          BY <1>8
    <3> QED BY <1>9, <1>10, <3>1, <3>2 DEF Closes, Full
  <2>2. ~auto /\ d.phase = "truncate" => Len(B) > 1
    <3> SUFFICES ASSUME ~auto, d.phase = "truncate" PROVE Len(B) > 1
        OBVIOUS
    <3>1. Full(x, a, r)
          BY <1>8
    <3>2. ~a.closed
      <4>1. CASE x
            BY <1>4, <3>1, <4>1 DEF Full, Due
      <4>2. CASE ~x
            BY <3>1, <4>2 DEF Full
      <4> QED BY <4>1, <4>2
    <3>3. A # <<>>
          BY <3>2 DEF Whole
    <3> QED BY <1>3, <3>3
  <2> QED BY <1>3, <1>6, <1>8, <2>1, <2>2 DEF Whole
<1>11. ASSUME EndsKey(e, k, row) PROVE Whole(k, <<>>, d) /\ Closes(k, r)
  <2>1. auto /\ Closes(k, r)
        BY <1>9, <1>11 DEF Closes
  <2>2. RunOf(k, <<>>)
        BY DEF RunOf
  <2>3. ~(Len(<<>>) > 1)
        OBVIOUS
  <2> QED BY <1>8, <2>1, <2>2, <2>3 DEF Whole
<1> QED BY <1>1, <1>2, <1>6, <1>7, <1>10, <1>11

LEMMA GrowOrdered ==
    ASSUME NEW a, a.row \in Returns, NEW r \in Returns, NEW A \in Seq(Row), Ordered(A, a),
           A # <<>> => Before(a.row, r), NEW d, d.row = r
    PROVE  Ordered(Append(A, Transition(r, r)), d) /\ Ordered(<<>>, d)
           /\ (A # <<>> => UpTo(A[1].ret, a.row))
<1>1. PICK row : row = Transition(r, r) /\ row \in Row /\ row.ret = r /\ row.resp = r
      BY RowOf
<1>2. PICK B : B = Append(A, row)
      OBVIOUS
<1>3. /\ Len(B) = Len(A) + 1 /\ Len(A) \in Nat /\ DOMAIN A = 1..Len(A) /\ DOMAIN B = 1..(Len(A) + 1)
      /\ B[Len(A) + 1] = row /\ \A i \in 1..Len(A) : B[i] = A[i] /\ A[i].ret \in Returns
      /\ A # <<>> => Len(A) > 0
      BY <1>1, <1>2, Appended
<1>4. ASSUME NEW i \in 1..Len(A) PROVE Before(A[i].ret, r) /\ UpTo(A[i].ret, a.row)
  <2>1. A # <<>> /\ A[Len(A)].ret = a.row /\ Len(A) \in 1..Len(A)
        BY <1>3 DEF Ordered
  <2>2. CASE i = Len(A)
        BY <1>3, <2>1, <2>2, Orders
  <2>3. CASE i # Len(A)
    <3>1. Before(A[i].ret, A[Len(A)].ret)
      <4>1. i < Len(A)
        <5>1. PICK n \in Nat : n = Len(A)
              BY <1>3
        <5>2. i \in 1..n /\ i # n
              BY <2>3, <5>1
        <5>3. i < n
              BY <5>2
        <5> QED BY <5>1, <5>3
      <4>2. i \in DOMAIN A /\ Len(A) \in DOMAIN A
            BY <1>3, <2>1
      <4> QED BY <4>1, <4>2 DEF Ordered, Rising
    <3> QED BY <1>3, <2>1, <3>1, Orders
  <2> QED BY <2>2, <2>3
<1>5. Rising(B)
  <2> SUFFICES ASSUME NEW i \in DOMAIN B, NEW j \in DOMAIN B, i < j PROVE Before(B[i].ret, B[j].ret)
      BY DEF Rising
  <2>1. i \in 1..Len(A) /\ B[i] = A[i]
        BY <1>3
  <2>2. CASE j \in 1..Len(A)
        BY <1>3, <2>1, <2>2 DEF Ordered, Rising
  <2>3. CASE j = Len(A) + 1
        BY <1>1, <1>3, <1>4, <2>1, <2>3
  <2> QED BY <1>3, <2>2, <2>3
<1>6. Rising(<<>>)
      BY DEF Rising
<1>7. A # <<>> => UpTo(A[1].ret, a.row)
      BY <1>3, <1>4
<1> QED BY <1>1, <1>2, <1>3, <1>5, <1>6, <1>7 DEF Ordered
-----------------------------------------------------------------------------
(***************************************************************************)
(* What a call does for the environments it concerns, and for the others.  *)
(***************************************************************************)

\* A pushed episode stays behind an open one that grows, or that is taken away.
LEMMA GrowBehind ==
    ASSUME NEW a, a.row \in Returns, NEW r \in Returns, UpTo(a.row, r), NEW A \in Seq(Row),
           NEW p, LastOf(p) \in Returns, Behind(p, A, a), NEW d, d.row = r
    PROVE  Behind(p, Append(A, Transition(r, r)), d) /\ Behind(p, <<>>, d)
<1>1. PICK row : row = Transition(r, r) /\ row \in Row /\ row.ret = r /\ row.resp = r
      BY RowOf
<1>2. PICK B : B = Append(A, row)
      OBVIOUS
<1>3. (A # <<>> => B[1] = A[1]) /\ (A = <<>> => B[1] = row)
      BY <1>1, <1>2, Appended
<1>4. UpTo(LastOf(p), r)
      BY Orders DEF Behind
<1>5. UpTo(LastOf(p), B[1].ret)
      BY <1>1, <1>3, <1>4 DEF Behind
<1> QED BY <1>1, <1>2, <1>4, <1>5 DEF Behind

\* Every episode pushed has its type.
LEMMA PushedTyped ==
    ASSUME ShardTyped
    PROVE  /\ Pushed \subseteq Episode
           /\ \A p \in Pushed : p.rows \in Seq(Row) /\ (p.rows # <<>> => LastOf(p) \in Returns)
<1>1. \A s \in Shards : ToSet(stored[s]) \subseteq Episode
  <2> SUFFICES ASSUME NEW s \in Shards PROVE ToSet(stored[s]) \subseteq Episode
      OBVIOUS
  <2>1. stored[s] \in Seq(Episode)
        BY DEF ShardTyped
  <2> QED BY <2>1 DEF ToSet
<1>2. Pushed \subseteq Episode
      BY <1>1 DEF Pushed, ShardTyped
<1>3. ASSUME NEW p \in Episode PROVE p.rows \in Seq(Row) /\ (p.rows # <<>> => LastOf(p) \in Returns)
  <2>1. p.rows \in Seq(Row)
        BY DEF Episode
  <2>2. p.rows # <<>> => p.rows[Len(p.rows)] \in Row
        BY <2>1
  <2>3. \A y \in Row : y.ret \in Returns
        BY DEF Row
  <2> QED BY <2>1, <2>2, <2>3 DEF LastOf
<1> QED BY <1>2, <1>3

\* What is pushed by pushing G.
LEMMA PushedBy ==
    ASSUME ShardTyped, NEW s \in Shards, NEW G, NEW t, Pushes(s, G, t), delivered' = delivered
    PROVE  /\ Pushed \subseteq Pushed' /\ Pushed' \subseteq Pushed \cup G
           /\ ToSet(t) = {p \in G : HasRows(p)} => Pushed' = Pushed \cup G
<1>1. /\ stored \in [Shards -> Seq(Episode)]
      /\ stored' = [stored EXCEPT ![s] = @ \o t]
      /\ ToSet(t) \subseteq {p \in G : HasRows(p)}
      /\ ToSet(stored'[s]) = ToSet(stored[s]) \cup ToSet(t)
      /\ dropped' = dropped \cup {p \in G : ~HasRows(p)}
      BY DEF ShardTyped, Pushes
<1>2. \A x \in Shards : ToSet(stored'[x]) = IF x = s THEN ToSet(stored[s]) \cup ToSet(t) ELSE ToSet(stored[x])
      BY <1>1
<1>3. Pushed' = delivered \cup dropped' \cup UNION {ToSet(stored'[x]) : x \in Shards}
      BY DEF Pushed
<1>4. Pushed' = Pushed \cup ToSet(t) \cup {p \in G : ~HasRows(p)}
  <2>1. ASSUME NEW z
        PROVE  (\E x \in Shards : z \in ToSet(stored'[x])) <=> (\E x \in Shards : z \in ToSet(stored[x])) \/ z \in ToSet(t)
        BY <1>2
  <2>2. ASSUME NEW z
        PROVE  z \in Pushed <=> z \in delivered \/ z \in dropped \/ \E x \in Shards : z \in ToSet(stored[x])
        BY DEF Pushed
  <2>3. ASSUME NEW z
        PROVE  z \in Pushed' <=> z \in delivered \/ z \in dropped' \/ \E x \in Shards : z \in ToSet(stored'[x])
        BY <1>3
  <2>4. \A z : z \in dropped' <=> z \in dropped \/ z \in {p \in G : ~HasRows(p)}
        BY <1>1
  <2>5. ASSUME NEW z
        PROVE  z \in Pushed' <=> z \in Pushed \/ z \in ToSet(t) \/ z \in {p \in G : ~HasRows(p)}
        BY <2>1, <2>2, <2>3, <2>4
  <2> QED BY <2>5
<1> QED BY <1>1, <1>4

\* The calls of the sampling thread push nothing.
LEMMA PushedSame ==
    ASSUME ShardTyped, NEW s \in Shards, NEW call,
           AddReturn(s, call) \/ GetSize(s, call) \/ GetItems(s, call) \/ ClearShard(s, call)
    PROVE  Pushed' = Pushed
<1>0. stored \in [Shards -> Seq(Episode)]
      BY DEF ShardTyped
<1>1. Pushed' = delivered' \cup dropped' \cup UNION {ToSet(stored'[x]) : x \in Shards}
      BY DEF Pushed
<1>2. CASE AddReturn(s, call) \/ GetSize(s, call)
      BY <1>1, <1>2 DEF Pushed, AddReturn, GetSize
<1>3. CASE GetItems(s, call)
  <2>1. /\ delivered' = delivered \cup EpisodesBelow(stored[s], call.n)
        /\ UNCHANGED <<stored, dropped>>
        BY <1>3 DEF GetItems
  <2>2. EpisodesBelow(stored[s], call.n) \subseteq ToSet(stored[s])
        BY DEF EpisodesBelow, ToSet
  <2> QED BY <1>1, <2>1, <2>2 DEF Pushed
<1>4. CASE ClearShard(s, call)
  <2>1. /\ stored' = [stored EXCEPT ![s] = <<>>]
        /\ dropped' = dropped \cup (ToSet(stored[s]) \ delivered) /\ delivered' = delivered
        BY <1>4 DEF ClearShard
  <2>2. \A x \in Shards : ToSet(stored'[x]) = IF x = s THEN {} ELSE ToSet(stored[x])
        BY <1>0, <2>1 DEF ToSet
  <2> QED BY <1>1, <2>1, <2>2 DEF Pushed
<1> QED BY <1>2, <1>3, <1>4

\* The returns in the episodes of key k.
Held(k) ==
    {row.ret : row \in ToSet(active[k])}
        \cup UNION {{row.ret : row \in ToSet(p.rows)} : p \in {q \in Pushed : q.key = k}}

\* The pushed episodes of e are whole.
Pure(e) ==
    ~Broken(e) => \A p \in Pushed : p.key[1] = e => RunOf(p.key, p.rows) /\ Closes(p.key, LastOf(p))

\* A step at the shards keeps what there is of e, and takes it to stance d.
Keeps(e, d) ==
    /\ AtShard(e, d)' /\ Pure(e)'
    /\ ~Broken(e)' => \A k \in ToSet(KeysOf(e)) : Held(k) \subseteq Held(k)'

\* Nothing about e changes.
LEMMA KeepsSame ==
    ASSUME NEW e, NEW a, AtShard(e, a), Pure(e), UNCHANGED <<auto, loop>>, current'[e] = current[e],
           \A k \in ToSet(KeysOf(e)) : active'[k] = active[k] /\ k[1] = e,
           \A p \in Pushed' : p.key[1] = e => p \in Pushed,
           Pushed \subseteq Pushed', torn \subseteq torn'
    PROVE  Keeps(e, a)
<1>1. AtShard(e, a)'
      BY ShardSame
<1>2. Broken(e) => Broken(e)'
      BY KeysSame DEF Broken
<1>3. \A k, r : Closes(k, r)' <=> Closes(k, r)
      BY KeysSame
<1>4. \A k, rows : RunOf(k, rows)' <=> RunOf(k, rows)
      BY KeysSame
<1>5. Pure(e)'
      BY <1>2, <1>3, <1>4 DEF Pure, LastOf
<1>6. \A k \in ToSet(KeysOf(e)) : Held(k) \subseteq Held(k)'
      BY DEF Held
<1> QED BY <1>1, <1>5, <1>6 DEF Keeps

\* The row that answers a return is added to the open episodes of its environment.
LEMMA GrowKeeps ==
    ASSUME ShardTyped, NEW s \in Shards, NEW x \in BOOLEAN, x = inAutoReset, NoAutoRsl, x \/ loop = "rsl",
           NEW e \in Envs, NEW a \in Stances(x, e), NEW r \in Returns, r.env = e,
           AtShard(e, a), Pure(e), a.phase # "truncate", Due(x, a, r),
           AddRow(s, e, Transition(r, r)), UNCHANGED <<auto, loop, delivered>>
    PROVE  /\ Keeps(e, Grown(x, a, r))
           /\ ~Broken(e)' => \A k \in ToSet(KeysOf(e)) : r \in Held(k)'
           /\ Pushed \subseteq Pushed' /\ torn \subseteq torn'
           /\ \A p \in Pushed' : p.key[1] # e => p \in Pushed
           /\ \A k \in AllKeys : k[1] # e => active'[k] = active[k]
<1> DEFINE K == ToSet(KeysOf(e))
<1>1. PICK row : row = Transition(r, r) /\ row \in Row /\ row.ret = r /\ row.resp = r
      BY RowOf
<1>2. PICK d : d = Grown(x, a, r)
      OBVIOUS
<1>3. d.closed = FALSE /\ d.row = r /\ d.phase # "response"
      BY <1>2 DEF Grown
<1>4. PICK G : G = GrownOf(e, row)
      OBVIOUS
<1>5. /\ \A k \in AllKeys : active'[k] = IF k \in EndedKeysOf(e, row) THEN <<>>
                                          ELSE IF k \in K THEN Append(active[k], row) ELSE active[k]
      /\ G \subseteq Episode /\ \A p \in G : p.key[1] = e
      /\ torn' = Torn({}, G)
  <2>1. AddRow(s, e, row)
        BY <1>1
  <2>2. /\ active' = [k \in AllKeys |->
                        IF k \in EndedKeysOf(e, row) THEN <<>>
                        ELSE IF k \in K THEN Append(active[k], row) ELSE active[k]]
        /\ G \subseteq Episode /\ \A p \in G : p.key[1] = e
        /\ torn' = Torn({}, G)
        BY <1>1, <1>4, <2>1, RowAdded
  <2> HIDE DEF K
  <2> QED BY <2>2
<1>6. PICK t : /\ Pushes(s, G, t)
               /\ (\A p \in G : HasRows(p)) \/ ~Splits(e) => ToSet(t) = {p \in G : HasRows(p)}
      BY <1>1, <1>4, RowAdded
<1>7. /\ Pushed \subseteq Pushed' /\ Pushed' \subseteq Pushed \cup G
      /\ ToSet(t) = {p \in G : HasRows(p)} => Pushed' = Pushed \cup G
      BY <1>6, PushedBy
<1>8. torn \subseteq torn' /\ \A p \in G : ~HasRows(p) => e \in torn'
      BY <1>5 DEF Torn
<1>9. (Broken(e) => Broken(e)') /\ (Pushed' = Pushed \cup G \/ Broken(e)')
  <2>1. Splits(e)' = Splits(e)
        BY KeysSame
  <2> QED BY <1>6, <1>7, <1>8, <2>1 DEF Broken
<1>10. \A k \in K : k \in AllKeys /\ k[1] = e
       BY OwnKeys
<1>11. active \in [AllKeys -> Seq(Row)] /\ a.row \in Returns
       BY StanceIs DEF ShardTyped
<1>12. UpTo(a.row, r) /\ (~a.closed \/ x => Before(a.row, r))
       BY DueLater
<1>13. ASSUME NEW k \in K PROVE active[k] # <<>> => Before(a.row, r)
  <2>1. CASE ~a.closed \/ x
        BY <1>12, <2>1
  <2>2. CASE a.closed /\ ~x
    <3>1. ~Broken(e)
          BY <2>2 DEF NoAutoRsl, Broken, Splits
    <3> QED BY <2>2, <3>1, ShardIs DEF Whole
  <2> QED BY <2>1, <2>2
<1>14. \A k \in K : \/ k \in EndedKeysOf(e, row) /\ active'[k] = <<>> /\ EndsKey(e, k, row)
                    \/ k \notin EndedKeysOf(e, row) /\ active'[k] = Append(active[k], row) /\ ~EndsKey(e, k, row)
       BY <1>5, <1>10 DEF EndedKeysOf
<1>15. \A k \in K : Ordered(active'[k], d)
  <2> SUFFICES ASSUME NEW k \in K PROVE Ordered(active'[k], d)
      OBVIOUS
  <2>1. active[k] \in Seq(Row) /\ Ordered(active[k], a)
        BY <1>10, <1>11, ShardIs
  <2>2. Ordered(Append(active[k], row), d) /\ Ordered(<<>>, d)
        BY <1>1, <1>3, <1>11, <1>13, <2>1, GrowOrdered
  <2> QED BY <1>14, <2>2
<1>16. ASSUME ~Broken(e), NEW k \in K
       PROVE  /\ Whole(k, active'[k], d) /\ RunOf(k, Append(active[k], row))
              /\ EndsKey(e, k, row) => Closes(k, r)
  <2>1. active[k] \in Seq(Row) /\ Ordered(active[k], a) /\ Whole(k, active[k], a)
        BY <1>10, <1>11, <1>16, ShardIs
  <2>2. /\ ~EndsKey(e, k, row) => Whole(k, Append(active[k], row), d)
        /\ EndsKey(e, k, row) => Whole(k, <<>>, d) /\ Closes(k, r)
        /\ RunOf(k, Append(active[k], row))
        BY <1>1, <1>2, <1>10, <2>1, GrowWhole
  <2> QED BY <1>14, <2>2
<1>17. ASSUME NEW p \in G
       PROVE  /\ p.key \in K /\ p.rows = Append(active[p.key], row) /\ p.rows # <<>> /\ LastOf(p) = r
              /\ EndsKey(e, p.key, row) /\ active'[p.key] = <<>>
  <2>1. PICK k \in EndedKeysOf(e, row) : p = [key |-> k, rows |-> Append(active[k], row)]
        BY <1>4 DEF GrownOf
  <2>2. k \in K /\ EndsKey(e, k, row) /\ p.key = k /\ p.rows = Append(active[k], row)
        BY <2>1 DEF EndedKeysOf
  <2>3. active[k] \in Seq(Row)
        BY <1>10, <1>11, <2>2
  <2>4. p.rows # <<>> /\ p.rows[Len(p.rows)] = row
        BY <1>1, <2>2, <2>3, Appended
  <2> QED BY <1>1, <1>14, <2>1, <2>2, <2>4 DEF LastOf
<1>18. ASSUME NEW p \in Pushed', p.key[1] = e
       PROVE  p.key \in K /\ p.rows # <<>> /\ (HasRows(p) => Behind(p, active'[p.key], d))
  <2>1. CASE p \in G
    <3>1. UpTo(r, r)
          BY Orders
    <3> QED BY <1>3, <1>17, <2>1, <3>1 DEF Behind
  <2>2. CASE p \in Pushed
    <3>1. p.key \in K /\ p.rows # <<>> /\ (HasRows(p) => Behind(p, active[p.key], a)) /\ LastOf(p) \in Returns
          BY <1>18, <2>2, ShardIs, PushedTyped
    <3>2. active[p.key] \in Seq(Row)
          BY <1>10, <1>11, <3>1
    <3>3. HasRows(p) => Behind(p, Append(active[p.key], row), d) /\ Behind(p, <<>>, d)
          BY <1>1, <1>3, <1>11, <1>12, <3>1, <3>2, GrowBehind
    <3> QED BY <1>14, <3>1, <3>3
  <2> QED BY <1>7, <2>1, <2>2
<1>19. AtShard(e, d)'
       BY <1>3, <1>9, <1>15, <1>16, <1>18, ShardNow
<1>20. Pure(e)'
  <2>1. SUFFICES ASSUME ~Broken(e)', NEW p \in Pushed', p.key[1] = e
                 PROVE  RunOf(p.key, p.rows) /\ Closes(p.key, LastOf(p))
    <3>1. \A k, y : Closes(k, y)' <=> Closes(k, y)
          BY KeysSame
    <3>2. \A k, rows : RunOf(k, rows)' <=> RunOf(k, rows)
          BY KeysSame
    <3> QED BY <3>1, <3>2 DEF Pure, LastOf
  <2>2. ~Broken(e)
        BY <1>9, <2>1
  <2>3. CASE p \in G
        BY <1>16, <1>17, <2>2, <2>3
  <2>4. CASE p \in Pushed
        BY <2>1, <2>2, <2>4 DEF Pure
  <2> QED BY <1>7, <2>1, <2>3, <2>4
<1>21. ASSUME ~Broken(e)', NEW k \in K PROVE Held(k) \subseteq Held(k)' /\ r \in Held(k)'
  <2>1. Pushed' = Pushed \cup G
        BY <1>9, <1>21
  <2>2. active[k] \in Seq(Row)
        BY <1>10, <1>11
  <2>3. /\ \A y \in ToSet(active[k]) : y \in ToSet(Append(active[k], row))
        /\ row \in ToSet(Append(active[k], row))
    <3>1. PICK A \in Seq(Row) : A = active[k]
          BY <2>2
    <3>2. PICK B : B = Append(A, row)
          OBVIOUS
    <3>3. /\ DOMAIN A = 1..Len(A) /\ DOMAIN B = 1..(Len(A) + 1) /\ Len(A) \in Nat
          /\ B[Len(A) + 1] = row /\ \A i \in 1..Len(A) : B[i] = A[i]
          BY <1>1, <3>2, Appended
    <3>4. \A i \in DOMAIN A : i \in DOMAIN B /\ B[i] = A[i]
          BY <3>3
    <3>5. Len(A) + 1 \in DOMAIN B
          BY <3>3
    <3> QED BY <3>1, <3>2, <3>3, <3>4, <3>5 DEF ToSet
  <2>4. \/ active'[k] = Append(active[k], row)
        \/ \E p \in Pushed' : p.key = k /\ p.rows = Append(active[k], row)
    <3>1. CASE k \in EndedKeysOf(e, row)
      <4>1. [key |-> k, rows |-> Append(active[k], row)] \in G
            BY <1>4, <3>1 DEF GrownOf
      <4> QED BY <2>1, <4>1
    <3> QED BY <1>14, <3>1
  <2>5. \A y \in ToSet(Append(active[k], row)) : y.ret \in Held(k)'
    <3> SUFFICES ASSUME NEW y \in ToSet(Append(active[k], row)) PROVE y.ret \in Held(k)'
        OBVIOUS
    <3>1. CASE active'[k] = Append(active[k], row)
          BY <3>1 DEF Held
    <3>2. CASE \E p \in Pushed' : p.key = k /\ p.rows = Append(active[k], row)
      <4>1. PICK p \in Pushed' : p.key = k /\ y \in ToSet(p.rows)
            BY <3>2
      <4> QED BY <4>1 DEF Held
    <3> QED BY <2>4, <3>1, <3>2
  <2> QED BY <1>1, <2>1, <2>3, <2>5 DEF Held
<1>22. Keeps(e, d)
       BY <1>19, <1>20, <1>21 DEF Keeps
<1>23. \A k \in AllKeys : k[1] # e => active'[k] = active[k]
       BY <1>5, <1>10 DEF EndedKeysOf
<1> QED BY <1>2, <1>5, <1>7, <1>8, <1>21, <1>22, <1>23

\* A return is stored; it waits for its response.
LEMMA StoreKeeps ==
    ASSUME ShardTyped, NEW s \in Shards, NEW x \in BOOLEAN, x = inAutoReset,
           NEW e \in Envs, NEW a \in Stances(x, e), NEW call, call.ret \in Returns, call.ret.env = e,
           a.phase = "return", AtShard(e, a), Pure(e), AddReturn(s, call), UNCHANGED <<auto, loop>>
    PROVE  Keeps(e, Stored(a, call.ret)) /\ torn' = torn /\ active' = active /\ Pushed' = Pushed
<1>1. PICK r : r = call.ret
      OBVIOUS
<1>2. PICK d : d = Stored(a, r)
      OBVIOUS
<1>3. d.cur = r /\ d.row = a.row /\ d.closed = a.closed /\ d.phase = "response"
      BY <1>2 DEF Stored
<1>4. /\ current' = [current EXCEPT ![e] = <<r>>]
      /\ UNCHANGED <<active, stored, delivered, dropped, torn>>
      BY <1>1 DEF AddReturn
<1>5. Pushed' = Pushed
      BY PushedSame
<1>6. current'[e] = <<r>>
      BY <1>4 DEF ShardTyped
<1>7. Broken(e)' <=> Broken(e)
      BY <1>4, KeysSame DEF Broken
<1>8. ASSUME ~Broken(e), NEW k \in ToSet(KeysOf(e)) PROVE Whole(k, active'[k], d)
  <2>1. Whole(k, active[k], a) /\ active'[k] = active[k]
        BY <1>4, <1>8, ShardIs
  <2> QED BY <1>3, <2>1 DEF Whole
<1>9. \A k \in ToSet(KeysOf(e)) : Ordered(active'[k], d)
      BY <1>3, <1>4, ShardIs DEF Ordered
<1>10. \A p \in Pushed' : p.key[1] = e =>
                 /\ p.key \in ToSet(KeysOf(e)) /\ p.rows # <<>>
                 /\ HasRows(p) => Behind(p, active'[p.key], d)
       BY <1>3, <1>4, <1>5, ShardIs DEF Behind
<1>11. AtShard(e, d)'
       BY <1>3, <1>6, <1>7, <1>8, <1>9, <1>10, ShardNow
<1>12. Pure(e)'
  <2>1. \A k, y : Closes(k, y)' <=> Closes(k, y)
        BY KeysSame
  <2>2. \A k, rows : RunOf(k, rows)' <=> RunOf(k, rows)
        BY KeysSame
  <2> QED BY <1>5, <1>7, <2>1, <2>2 DEF Pure, LastOf
<1>13. \A k : Held(k)' = Held(k)
       BY <1>4, <1>5 DEF Held
<1> QED BY <1>1, <1>2, <1>4, <1>5, <1>11, <1>12, <1>13 DEF Keeps

\* An environment that can be truncated.
Full_(e) == \E a \in Stances(inAutoReset, e) : AtShard(e, a) /\ a.phase = "truncate"

\* Where nothing is truncated automatically, every open episode has rows.
LEMMA RslHasRows ==
    ASSUME ShardTyped, ~auto, NEW e \in Envs, Full_(e)
    PROVE  Missing(e) = {} /\ ~Raises(e) /\ \A k \in ToSet(KeysOf(e)) : Len(active[k]) > 1
<1>1. PICK a \in Stances(inAutoReset, e) : AtShard(e, a) /\ a.phase = "truncate"
      BY DEF Full_
<1>2. ~Splits(e) /\ ~Broken(e)
      BY DEF Splits, Broken
<1>3. ~a.closed
      BY <1>1 DEF Stances, Sound
<1>4. \A k \in ToSet(KeysOf(e)) : active[k] # <<>> /\ Len(active[k]) > 1
      BY <1>1, <1>2, <1>3, ShardIs DEF Whole
<1>5. Missing(e) = {}
      BY <1>4 DEF Missing, ToSet
<1>6. PoppedKeys(e) \subseteq ToSet(KeysOf(e))
      BY DEF PoppedKeys, ToSet
<1>7. \A k \in ToSet(KeysOf(e)) : Len(active[k]) # 1
  <2> SUFFICES ASSUME NEW k \in ToSet(KeysOf(e)), Len(active[k]) = 1 PROVE FALSE
      OBVIOUS
  <2>1. Len(active[k]) > 1
        BY <1>4
  <2> QED BY <2>1
<1> QED BY <1>4, <1>5, <1>6, <1>7 DEF Raises

\* A truncation reaches all its environments, and loses no episode unless sub-environments
\* are split.
LEMMA AllReached ==
    ASSUME ShardTyped, NoAutoRsl, NEW s, NEW call \in Calls, call.op = "truncate", Placed(s, call),
           \A e \in ToSet(call.envs) : Full_(e)
    PROVE  /\ ReachedBy(call) = DOMAIN call.envs
           /\ \/ \A p \in OpenOf(TakenBy(call)) : HasRows(p)
              \/ Len(call.envs) = 1
<1>1. call.envs \in Seq(Envs) /\ DOMAIN call.envs = 1..Len(call.envs) /\ Len(call.envs) \in Nat
      /\ \A i \in DOMAIN call.envs : call.envs[i] \in Envs /\ call.envs[i] \in ToSet(call.envs)
      BY CallIs DEF ToSet
<1>2. CASE loop # "rsl"
  <2>1. Len(call.envs) = 1
        BY <1>2 DEF Placed
  <2>2. \A i \in DOMAIN call.envs : \A j \in 1..(i - 1) : FALSE
        BY <1>1, <2>1
  <2> QED BY <2>1, <2>2 DEF ReachedBy
<1>3. CASE loop = "rsl"
  <2>1. ~auto
        BY <1>3 DEF NoAutoRsl
  <2>2. \A i \in DOMAIN call.envs : ~Raises(call.envs[i])
                                    /\ \A k \in ToSet(KeysOf(call.envs[i])) : Len(active[k]) > 1
        BY <1>1, <2>1, RslHasRows
  <2>3. \A i \in DOMAIN call.envs : \A j \in 1..(i - 1) : j \in DOMAIN call.envs
        BY <1>1
  <2>4. ReachedBy(call) = DOMAIN call.envs
        BY <2>2, <2>3 DEF ReachedBy
  <2>5. \A p \in OpenOf(TakenBy(call)) : HasRows(p)
        BY <2>2, <2>4 DEF OpenOf, TakenBy, HasRows
  <2> QED BY <2>4, <2>5
<1> QED BY <1>2, <1>3

\* What a truncation takes, environment by environment.
LEMMA TruncateParts ==
    ASSUME ShardTyped, NoAutoRsl, NEW s \in Shards, NEW call \in Calls, call.op = "truncate", Placed(s, call),
           \A e \in ToSet(call.envs) : Full_(e), Truncate(s, call)
    PROVE  /\ Pushed \subseteq Pushed' /\ torn \subseteq torn' /\ current' = current
           /\ \A p \in Pushed' : p.key[1] \notin ToSet(call.envs) => p \in Pushed
           /\ \A k \in AllKeys : k[1] \notin ToSet(call.envs) => active'[k] = active[k]
           /\ \A e \in ToSet(call.envs) :
                /\ Missing(e) # {} => e \in torn'
                /\ \A k \in ToSet(KeysOf(e)) : active'[k] = IF k \in PoppedKeys(e) THEN <<>> ELSE active[k]
                /\ \A p \in Pushed' \ Pushed : p.key[1] = e =>
                      Missing(e) = {} /\ p.key \in ToSet(KeysOf(e)) /\ p.rows = active[p.key]
                /\ \/ Splits(e) /\ e \in torn'
                   \/ Missing(e) = {} => \A k \in ToSet(KeysOf(e)) : [key |-> k, rows |-> active[k]] \in Pushed'
<1>1. call.envs \in Seq(Envs) /\ DOMAIN call.envs = 1..Len(call.envs) /\ Len(call.envs) \in Nat
      /\ \A i \in DOMAIN call.envs : call.envs[i] \in Envs /\ call.envs[i] \in ToSet(call.envs)
      BY CallIs DEF ToSet
<1>2. \A e \in ToSet(call.envs) : e \in Envs /\ \E i \in DOMAIN call.envs : call.envs[i] = e
      BY <1>1 DEF ToSet
<1>3. PICK G : G = OpenOf(TakenBy(call))
      OBVIOUS
<1>4. /\ \A k \in AllKeys : active'[k] = IF k \in PoppedBy(call) THEN <<>> ELSE active[k]
      /\ torn' = Torn(MissedBy(call), G)
      BY <1>3, Truncates
<1>5. PICK t : /\ Pushes(s, G, t)
               /\ (\A p \in G : HasRows(p)) \/ (Len(call.envs) = 1 /\ ~Splits(call.envs[1]))
                     => ToSet(t) = {p \in G : HasRows(p)}
      BY <1>3, Truncates
<1>6. UNCHANGED <<current, delivered>>
      BY DEF Truncate
<1>7. /\ Pushed \subseteq Pushed' /\ Pushed' \subseteq Pushed \cup G
      /\ ToSet(t) = {p \in G : HasRows(p)} => Pushed' = Pushed \cup G
      BY <1>5, <1>6, PushedBy
<1>8. ReachedBy(call) = DOMAIN call.envs /\ ((\A p \in G : HasRows(p)) \/ Len(call.envs) = 1)
      BY <1>3, AllReached
<1>9. ASSUME NEW e \in Envs
      PROVE  /\ \A k \in ToSet(KeysOf(e)) : k \in AllKeys /\ k[1] = e
             /\ PoppedKeys(e) \subseteq ToSet(KeysOf(e))
             /\ Missing(e) = {} => PoppedKeys(e) = ToSet(KeysOf(e))
      BY OwnKeys DEF PoppedKeys, ToSet
<1>10. ASSUME NEW k \in PoppedBy(call) PROVE k[1] \in ToSet(call.envs) /\ k \in PoppedKeys(k[1])
  <2>1. PICK i \in DOMAIN call.envs : k \in PoppedKeys(call.envs[i])
        BY <1>8 DEF PoppedBy
  <2>2. k[1] = call.envs[i]
        BY <1>1, <1>9, <2>1
  <2> QED BY <1>1, <2>1, <2>2
<1>11. ASSUME NEW p \in G
       PROVE  /\ p.key[1] \in ToSet(call.envs) /\ Missing(p.key[1]) = {} /\ p.key \in ToSet(KeysOf(p.key[1]))
              /\ p.rows = active[p.key]
  <2>1. PICK k \in TakenBy(call) : p = [key |-> k, rows |-> active[k]]
        BY <1>3 DEF OpenOf
  <2>2. PICK i \in DOMAIN call.envs : Missing(call.envs[i]) = {} /\ k \in ToSet(KeysOf(call.envs[i]))
        BY <1>8, <2>1 DEF TakenBy
  <2>3. k[1] = call.envs[i]
        BY <1>1, <1>9, <2>2
  <2> QED BY <1>1, <2>1, <2>2, <2>3
<1>12. torn \subseteq torn' /\ \A p \in G : ~HasRows(p) => p.key[1] \in torn'
       BY <1>4 DEF Torn
<1>13. \A p \in Pushed' : p.key[1] \notin ToSet(call.envs) => p \in Pushed
       BY <1>7, <1>11
<1>14. \A k \in AllKeys : k[1] \notin ToSet(call.envs) => active'[k] = active[k]
       BY <1>4, <1>10
<1>15. ASSUME NEW e \in ToSet(call.envs)
       PROVE  /\ Missing(e) # {} => e \in torn'
              /\ \A k \in ToSet(KeysOf(e)) : active'[k] = IF k \in PoppedKeys(e) THEN <<>> ELSE active[k]
              /\ \A p \in Pushed' \ Pushed : p.key[1] = e =>
                      Missing(e) = {} /\ p.key \in ToSet(KeysOf(e)) /\ p.rows = active[p.key]
              /\ \/ Splits(e) /\ e \in torn'
                 \/ Missing(e) = {} => \A k \in ToSet(KeysOf(e)) : [key |-> k, rows |-> active[k]] \in Pushed'
  <2>1. PICK i \in DOMAIN call.envs : call.envs[i] = e
        BY <1>2
  <2>2. e \in Envs
        BY <1>2
  <2>3. Missing(e) # {} => e \in torn'
        BY <1>4, <1>8, <2>1 DEF MissedBy, Torn
  <2>4. \A k \in PoppedKeys(e) : k \in PoppedBy(call)
        BY <1>8, <2>1 DEF PoppedBy
  <2>5. \A k \in ToSet(KeysOf(e)) : k \in AllKeys /\ k[1] = e /\ (k \in PoppedBy(call) <=> k \in PoppedKeys(e))
        BY <1>9, <1>10, <2>2, <2>4
  <2>6. \A k \in ToSet(KeysOf(e)) : active'[k] = IF k \in PoppedKeys(e) THEN <<>> ELSE active[k]
        BY <1>4, <2>5
  <2>7. \A p \in Pushed' \ Pushed : p.key[1] = e =>
                      Missing(e) = {} /\ p.key \in ToSet(KeysOf(e)) /\ p.rows = active[p.key]
        BY <1>7, <1>11
  <2>8. Missing(e) = {} => \A k \in ToSet(KeysOf(e)) : [key |-> k, rows |-> active[k]] \in G
    <3>1. Missing(e) = {} => \A k \in ToSet(KeysOf(e)) : k \in TakenBy(call)
          BY <1>8, <2>1, <2>5 DEF TakenBy
    <3> QED BY <1>3, <3>1 DEF OpenOf
  <2>9. Pushed' = Pushed \cup G \/ (Splits(e) /\ e \in torn')
    <3>1. CASE \A p \in G : HasRows(p)
          BY <1>5, <1>7, <3>1
    <3>2. CASE \E p \in G : ~HasRows(p)
      <4>1. Len(call.envs) = 1
            BY <1>8, <3>2
      <4>2. \A f \in ToSet(call.envs) : f = call.envs[1]
            BY <1>1, <1>2, <4>1
      <4>3. e = call.envs[1] /\ \A p \in G : p.key[1] = e
            BY <1>11, <4>2
      <4>4. CASE Splits(e)
            BY <1>12, <3>2, <4>3, <4>4
      <4>5. CASE ~Splits(e)
            BY <1>5, <1>7, <4>1, <4>3, <4>5
      <4> QED BY <4>4, <4>5
    <3> QED BY <3>1, <3>2
  <2> QED BY <2>3, <2>6, <2>7, <2>8, <2>9
<1> QED BY <1>6, <1>7, <1>12, <1>13, <1>14, <1>15

\* The episodes of an environment are truncated.
LEMMA TruncateKeeps ==
    ASSUME ShardTyped, NoAutoRsl, NEW s \in Shards, NEW call \in Calls, call.op = "truncate", Placed(s, call),
           \A f \in ToSet(call.envs) : Full_(f), Truncate(s, call), UNCHANGED <<auto, loop>>,
           NEW x \in BOOLEAN, x = inAutoReset, NEW e \in ToSet(call.envs), e \in Envs,
           NEW a \in Stances(x, e), AtShard(e, a), Pure(e), a.phase = "truncate"
    PROVE  Keeps(e, Closed(a))
<1> DEFINE K == ToSet(KeysOf(e))
<1>1. PICK d : d = Closed(a)
      OBVIOUS
<1>2. d.row = a.row /\ d.closed = TRUE /\ d.phase = "return"
      BY <1>1 DEF Closed
<1>3. /\ Pushed \subseteq Pushed' /\ torn \subseteq torn'
      /\ Missing(e) # {} => e \in torn'
      /\ \A k \in K : active'[k] = IF k \in PoppedKeys(e) THEN <<>> ELSE active[k]
      /\ \A p \in Pushed' \ Pushed : p.key[1] = e => Missing(e) = {} /\ p.key \in K /\ p.rows = active[p.key]
      /\ \/ Splits(e) /\ e \in torn'
         \/ Missing(e) = {} => \A k \in K : [key |-> k, rows |-> active[k]] \in Pushed'
      BY TruncateParts
<1>4. /\ \A k \in K : k \in AllKeys /\ k[1] = e /\ \E i \in DOMAIN KeysOf(e) : KeysOf(e)[i] = k
      /\ Missing(e) = {} => PoppedKeys(e) = K
      BY OwnKeys DEF PoppedKeys, ToSet
<1>5. Missing(e) = {} => \A k \in K : active[k] # <<>> /\ active'[k] = <<>>
      BY <1>3, <1>4 DEF Missing
<1>6. Splits(e)' = Splits(e) /\ (Broken(e) => Broken(e)') /\ (Broken(e)' <=> Splits(e) /\ e \in torn')
      BY <1>3, KeysSame DEF Broken
<1>7. Missing(e) # {} /\ ~Splits(e) => \A k \in K : active[k] = <<>> /\ active'[k] = <<>>
  <2> SUFFICES ASSUME Missing(e) # {}, ~Splits(e) PROVE \A k \in K : active[k] = <<>> /\ active'[k] = <<>>
      OBVIOUS
  <2>1. KeysOf(e) = << <<e, "all">> >>
        BY Keys
  <2>2. \A k \in K : k = <<e, "all">>
        BY <2>1 DEF ToSet
  <2>3. active[<<e, "all">>] = <<>>
        BY <2>1 DEF Missing
  <2> QED BY <1>3, <2>2, <2>3
<1>8. ~Broken(e)' => \A k \in K : active'[k] = <<>>
      BY <1>3, <1>5, <1>6, <1>7
<1>9. ASSUME ~Broken(e)', NEW k \in K PROVE Whole(k, active'[k], d)
  <2>1. active'[k] = <<>>
        BY <1>8, <1>9
  <2>2. RunOf(k, <<>>)
        BY DEF RunOf
  <2>3. ~(Len(<<>>) > 1)
        OBVIOUS
  <2> QED BY <1>2, <2>1, <2>2, <2>3 DEF Whole
<1>10. ASSUME NEW k \in K PROVE Ordered(active'[k], d) /\ Ordered(active[k], a)
  <2>1. Ordered(active[k], a)
        BY ShardIs
  <2>2. Rising(<<>>)
        BY DEF Rising
  <2>3. Ordered(<<>>, d) /\ Ordered(active[k], d)
        BY <1>2, <2>1, <2>2 DEF Ordered
  <2> QED BY <1>3, <2>1, <2>3
<1>11. a.row \in Returns /\ active \in [AllKeys -> Seq(Row)]
       BY StanceIs DEF ShardTyped
<1>12. ASSUME NEW p \in Pushed', p.key[1] = e
       PROVE  p.key \in K /\ p.rows # <<>> /\ (HasRows(p) => Behind(p, active'[p.key], d))
  <2>1. CASE p \in Pushed
    <3>1. p.key \in K /\ p.rows # <<>> /\ (HasRows(p) => Behind(p, active[p.key], a))
          BY <1>12, <2>1, ShardIs
    <3>2. HasRows(p) => Behind(p, active[p.key], d) /\ Behind(p, <<>>, d)
          BY <1>2, <3>1 DEF Behind
    <3> QED BY <1>3, <3>1, <3>2
  <2>2. CASE p \notin Pushed
    <3>1. Missing(e) = {} /\ p.key \in K /\ p.rows = active[p.key]
          BY <1>3, <1>12, <2>2
    <3>2. p.rows # <<>> /\ active'[p.key] = <<>>
          BY <1>5, <3>1
    <3>3. LastOf(p) = a.row
          BY <1>10, <3>1, <3>2 DEF LastOf, Ordered
    <3>4. UpTo(a.row, a.row)
          BY <1>11, Orders
    <3> QED BY <1>2, <3>1, <3>2, <3>3, <3>4 DEF Behind
  <2> QED BY <2>1, <2>2
<1>13. AtShard(e, d)'
       BY <1>2, <1>9, <1>10, <1>12, ShardNow
<1>14. Pure(e)'
  <2>1. SUFFICES ASSUME ~Broken(e)', NEW p \in Pushed', p.key[1] = e
                 PROVE  RunOf(p.key, p.rows) /\ Closes(p.key, LastOf(p))
    <3>1. \A k, y : Closes(k, y)' <=> Closes(k, y)
          BY KeysSame
    <3>2. \A k, rows : RunOf(k, rows)' <=> RunOf(k, rows)
          BY KeysSame
    <3> QED BY <3>1, <3>2 DEF Pure, LastOf
  <2>2. ~Broken(e)
        BY <1>6, <2>1
  <2>3. CASE p \in Pushed
        BY <2>1, <2>2, <2>3 DEF Pure
  <2>4. CASE p \notin Pushed
    <3>1. Missing(e) = {} /\ p.key \in K /\ p.rows = active[p.key] /\ p.rows # <<>>
          BY <1>3, <1>5, <2>1, <2>4
    <3>2. LastOf(p) = a.row
          BY <1>10, <3>1 DEF LastOf, Ordered
    <3>3. RunOf(p.key, p.rows)
          BY <2>2, <3>1, ShardIs DEF Whole
    <3>4. Closes(p.key, a.row)
      <4>1. IF x THEN a.row.steps = MaxSteps ELSE a.row.steps % MaxSteps = 0
            BY DEF Stances, Sound
      <4> QED BY <4>1 DEF Closes
    <3> QED BY <3>2, <3>3, <3>4
  <2> QED BY <2>3, <2>4
<1>15. ASSUME ~Broken(e)', NEW k \in K PROVE Held(k) \subseteq Held(k)'
  <2>1. CASE Missing(e) = {}
    <3>1. [key |-> k, rows |-> active[k]] \in Pushed'
          BY <1>3, <1>6, <1>15, <2>1
    <3>2. \A y \in ToSet(active[k]) : y.ret \in Held(k)'
      <4> SUFFICES ASSUME NEW y \in ToSet(active[k]) PROVE y.ret \in Held(k)'
          OBVIOUS
      <4>1. PICK p \in Pushed' : p.key = k /\ p.rows = active[k]
            BY <3>1
      <4> QED BY <4>1 DEF Held
    <3> QED BY <1>3, <3>2 DEF Held
  <2>2. CASE Missing(e) # {}
    <3>1. active'[k] = active[k]
          BY <1>6, <1>3, <1>7, <1>15, <2>2
    <3> QED BY <1>3, <3>1 DEF Held
  <2> QED BY <2>1, <2>2
<1> QED BY <1>1, <1>13, <1>14, <1>15 DEF Keeps

\* Every call that is executed takes every environment to its next stance.
LEMMA ExecuteKeeps ==
    ASSUME ShardTyped, NoAutoRsl, NEW s \in Shards, Execute(s), UNCHANGED loop,
           NEW call \in Calls, call = Head(mailbox[s]), Placed(s, call),
           call.op = "truncate" => \A f \in ToSet(call.envs) : Full_(f),
           NEW x \in BOOLEAN, x = inAutoReset, NEW e \in Envs, NEW a \in Stances(x, e), NEW d,
           AtShard(e, a), Pure(e), Does(x, e, a, call, d)
    PROVE  /\ Keeps(e, d) /\ torn \subseteq torn' /\ Pushed \subseteq Pushed'
           /\ call.op \in {"pair", "response"} /\ call.ret.env = e /\ ~Broken(e)' =>
                \A k \in ToSet(KeysOf(e)) : call.ret \in Held(k)'
<1>1. UNCHANGED <<auto, loop>>
      BY DEF Execute, fixedVars
<1>2. \/ AddPair(s, call) \/ AddReturn(s, call) \/ AddResponse(s, call)
      \/ Truncate(s, call) \/ GetSize(s, call) \/ GetItems(s, call) \/ ClearShard(s, call)
      BY DEF Execute
<1>3. \A k \in ToSet(KeysOf(e)) : k \in AllKeys /\ k[1] = e
      BY OwnKeys
<1>4. x \/ loop = "rsl"
      BY DEF inAutoReset
<1> DEFINE Goal ==
       /\ Keeps(e, d) /\ torn \subseteq torn' /\ Pushed \subseteq Pushed'
       /\ call.op \in {"pair", "response"} /\ call.ret.env = e /\ ~Broken(e)' =>
                \A k \in ToSet(KeysOf(e)) : call.ret \in Held(k)'
<1>5. ASSUME call.op \in {"pair", "response"}, NEW f \in Envs, f = call.ret.env,
             AddRow(s, f, Transition(call.ret, call.ret)), UNCHANGED delivered,
             f # e => current'[e] = current[e], f = e => a.phase # "truncate" /\ Due(x, a, call.ret) /\ d = Grown(x, a, call.ret)
      PROVE  Goal
  <2>1. call.ret \in Returns
        BY <1>5, CallIs
  <2>2. PICK r \in Returns : r = call.ret
        BY <2>1
  <2>3. CASE f = e
    <3>1. /\ Keeps(e, Grown(x, a, r))
          /\ ~Broken(e)' => \A k \in ToSet(KeysOf(e)) : r \in Held(k)'
          /\ Pushed \subseteq Pushed' /\ torn \subseteq torn'
          BY <1>1, <1>4, <1>5, <2>2, <2>3, GrowKeeps
    <3> QED BY <1>5, <2>2, <2>3, <3>1
  <2>4. CASE f # e
    <3>1. d = a
          BY <1>5, <2>4 DEF Does, Concerns, Carries
    <3>2. Transition(r, r) \in Row
          BY RowOf
    <3>3. PICK row \in Row : row = Transition(r, r)
          BY <3>2
    <3>4. /\ active' = [k \in AllKeys |->
                          IF k \in EndedKeysOf(f, row) THEN <<>>
                          ELSE IF k \in ToSet(KeysOf(f)) THEN Append(active[k], row) ELSE active[k]]
          /\ \A p \in GrownOf(f, row) : p.key[1] = f
          /\ torn' = Torn({}, GrownOf(f, row)) /\ \E t : Pushes(s, GrownOf(f, row), t)
          BY <1>5, <2>2, <3>3, RowAdded
    <3>5. \A k \in ToSet(KeysOf(f)) : k[1] = f
          BY OwnKeys
    <3>6. \A k \in ToSet(KeysOf(e)) : active'[k] = active[k]
          BY <1>3, <2>4, <3>4, <3>5 DEF EndedKeysOf
    <3>7. Pushed \subseteq Pushed' /\ Pushed' \subseteq Pushed \cup GrownOf(f, row)
          BY <1>5, <3>4, PushedBy
    <3>8. torn \subseteq torn'
          BY <3>4 DEF Torn
    <3>9. \A p \in Pushed' : p.key[1] = e => p \in Pushed
          BY <2>4, <3>4, <3>7
    <3>10. Keeps(e, a)
          BY <1>1, <1>3, <1>5, <2>4, <3>6, <3>7, <3>8, <3>9, KeepsSame
    <3> QED BY <1>5, <2>4, <3>1, <3>7, <3>8, <3>10
  <2> QED BY <2>3, <2>4
<1>6. ASSUME AddPair(s, call) PROVE Goal
  <2>1. /\ call.op = "pair" /\ AddRow(s, call.ret.env, Transition(call.ret, call.ret))
        /\ current' = [current EXCEPT ![call.ret.env] = <<call.ret>>] /\ UNCHANGED delivered
        BY <1>6 DEF AddPair
  <2>2. call.ret.env \in Envs
        BY <2>1, CallIs
  <2>3. call.ret.env # e => current'[e] = current[e]
        BY <2>1 DEF ShardTyped
  <2>4. call.ret.env = e => a.phase = "return" /\ Due(x, a, call.ret) /\ d = Grown(x, a, call.ret)
        BY <2>1 DEF Does, Concerns, Carries
  <2> QED BY <1>5, <2>1, <2>2, <2>3, <2>4
<1>7. ASSUME AddReturn(s, call) PROVE Goal
  <2>1. /\ call.op = "return" /\ current' = [current EXCEPT ![call.ret.env] = <<call.ret>>]
        /\ UNCHANGED <<active, torn>>
        BY <1>7 DEF AddReturn
  <2>2. Pushed' = Pushed /\ call.ret \in Returns /\ call.ret.env \in Envs
        BY <1>7, <2>1, PushedSame, CallIs
  <2>3. CASE call.ret.env = e
    <3>1. a.phase = "return" /\ d = Stored(a, call.ret)
          BY <2>1, <2>3 DEF Does, Concerns, Carries
    <3>2. Keeps(e, Stored(a, call.ret))
          BY <1>1, <1>7, <2>2, <2>3, <3>1, StoreKeeps
    <3> QED BY <2>1, <2>2, <3>1, <3>2
  <2>4. CASE call.ret.env # e
    <3>1. d = a
          BY <2>1, <2>4 DEF Does, Concerns, Carries
    <3>2. current'[e] = current[e]
          BY <2>1, <2>4 DEF ShardTyped
    <3>3. Keeps(e, a)
          BY <1>1, <1>3, <2>1, <2>2, <3>2, KeepsSame
    <3> QED BY <2>1, <2>2, <3>1, <3>3
  <2> QED BY <2>3, <2>4
<1>8. ASSUME AddResponse(s, call) PROVE Goal
  <2>1. /\ call.op = "response" /\ AddRow(s, call.ret.env, Transition(current[call.ret.env][1], call.ret))
        /\ UNCHANGED <<current, delivered>>
        BY <1>8 DEF AddResponse
  <2>2. call.ret.env \in Envs /\ call.ret \in Returns
        BY <2>1, CallIs
  <2>3. CASE call.ret.env = e
    <3>1. a.phase = "response" /\ a.cur = call.ret /\ d = Grown(x, a, call.ret)
          BY <2>1, <2>3 DEF Does, Concerns, Carries
    <3>2. Due(x, a, call.ret)
          BY <3>1 DEF Stances, Sound
    <3>3. current[e] = <<call.ret>>
          BY <3>1, ShardIs
    <3>4. current[e][1] = call.ret
          BY <3>3
    <3>5. AddRow(s, e, Transition(call.ret, call.ret))
          BY <2>1, <2>3, <3>4
    <3> QED BY <1>5, <2>1, <2>3, <3>1, <3>2, <3>5
  <2>4. CASE call.ret.env # e
    <3>1. d = a
          BY <2>1, <2>4 DEF Does, Concerns, Carries
    <3>2. current \in [Envs -> Seq(Returns)]
          BY DEF ShardTyped
    <3>3. current[call.ret.env][1] \in Returns
      <4>1. current[call.ret.env] \in Seq(Returns) /\ current[call.ret.env] # <<>>
            BY <1>8, <2>2, <3>2 DEF AddResponse
      <4> QED BY <4>1
    <3>4. Transition(current[call.ret.env][1], call.ret) \in Row
          BY <2>2, <3>3 DEF Transition, Row
    <3>5. PICK f \in Envs : f = call.ret.env
          BY <2>2
    <3>6. PICK row \in Row : row = Transition(current[call.ret.env][1], call.ret)
          BY <3>4
    <3>7. AddRow(s, f, row)
          BY <2>1, <3>5, <3>6
    <3>8. /\ active' = [k \in AllKeys |->
                          IF k \in EndedKeysOf(f, row) THEN <<>>
                          ELSE IF k \in ToSet(KeysOf(f)) THEN Append(active[k], row) ELSE active[k]]
          /\ \A p \in GrownOf(f, row) : p.key[1] = f
          /\ torn' = Torn({}, GrownOf(f, row)) /\ \E t : Pushes(s, GrownOf(f, row), t)
          BY <3>7, RowAdded
    <3>9. \A k \in ToSet(KeysOf(f)) : k[1] = f
          BY OwnKeys
    <3>10. \A k \in ToSet(KeysOf(e)) : active'[k] = active[k]
          BY <1>3, <2>4, <3>5, <3>8, <3>9 DEF EndedKeysOf
    <3>11. Pushed \subseteq Pushed' /\ Pushed' \subseteq Pushed \cup GrownOf(f, row)
          BY <2>1, <3>8, PushedBy
    <3>12. torn \subseteq torn'
          BY <3>8 DEF Torn
    <3>13. \A p \in Pushed' : p.key[1] = e => p \in Pushed
          BY <2>4, <3>5, <3>8, <3>11
    <3>14. Keeps(e, a)
          BY <1>1, <1>3, <2>1, <3>10, <3>11, <3>12, <3>13, KeepsSame
    <3> QED BY <2>4, <3>1, <3>11, <3>12, <3>14
  <2> QED BY <2>3, <2>4
<1>9. ASSUME Truncate(s, call) PROVE Goal
  <2>1. call.op = "truncate" /\ \A f \in ToSet(call.envs) : Full_(f)
        BY <1>9 DEF Truncate
  <2>2. /\ Pushed \subseteq Pushed' /\ torn \subseteq torn' /\ current' = current
        /\ \A p \in Pushed' : p.key[1] \notin ToSet(call.envs) => p \in Pushed
        /\ \A k \in AllKeys : k[1] \notin ToSet(call.envs) => active'[k] = active[k]
        BY <1>9, <2>1, TruncateParts
  <2>3. CASE e \in ToSet(call.envs)
    <3>1. a.phase = "truncate" /\ d = Closed(a)
          BY <2>1, <2>3 DEF Does, Concerns
    <3>2. Keeps(e, Closed(a))
          BY <1>1, <1>9, <2>1, <2>3, <3>1, TruncateKeeps
    <3> QED BY <2>1, <2>2, <3>1, <3>2
  <2>4. CASE e \notin ToSet(call.envs)
    <3>1. d = a
          BY <2>1, <2>4 DEF Does, Concerns, Carries
    <3>2. Keeps(e, a)
          BY <1>1, <1>3, <2>2, <2>4, KeepsSame
    <3> QED BY <2>1, <2>2, <3>1, <3>2
  <2> QED BY <2>3, <2>4
<1>10. ASSUME GetSize(s, call) \/ GetItems(s, call) \/ ClearShard(s, call) PROVE Goal
  <2>1. call.op \in {"size", "get", "clear"} /\ UNCHANGED <<active, current, torn>>
        BY <1>10 DEF GetSize, GetItems, ClearShard
  <2>2. d = a
        BY <2>1 DEF Does, Concerns, Carries
  <2>3. Pushed' = Pushed
        BY <1>10, PushedSame
  <2>4. Keeps(e, a)
        BY <1>1, <1>3, <2>1, <2>3, KeepsSame
  <2> QED BY <2>1, <2>2, <2>3, <2>4
<1>11. Goal
  <2> HIDE DEF Goal
  <2> QED BY <1>2, <1>6, <1>7, <1>8, <1>9, <1>10
<1> QED BY <1>11
-----------------------------------------------------------------------------
(***************************************************************************)
(* No return is lost on its way.                                           *)
(***************************************************************************)
Queued(r) ==
    \E s \in Shards : \E c \in ToSet(mailbox[s]) : c.op \in {"pair", "response"} /\ c.ret = r

LEMMA KeptIs ==
    ASSUME NEW k, NEW at
    PROVE  at \in Kept(k) <=> \E r : At(r) = at /\ r.env = k[1] /\ (Queued(r) \/ r \in Held(k))
<1> DEFINE queued == {c \in UNION {ToSet(mailbox[s]) : s \in Shards} : c.op \in {"pair", "response"}}
           All == {c.ret : c \in queued} \cup Held(k)
<1>1. Kept(k) = {At(r) : r \in {x \in All : x.env = k[1]}}
      BY DEF Kept, Held, At
<1>2. \A r : r \in {c.ret : c \in queued} <=> Queued(r)
      BY DEF Queued
<1> HIDE DEF queued
<1>3. \A r : r \in All <=> Queued(r) \/ r \in Held(k)
      BY <1>2
<1> HIDE DEF All
<1> QED BY <1>1, <1>3

\* Execution: what was queued or held is queued or held.
LEMMA PastExecuted ==
    ASSUME ShardTyped, NEW s \in Shards, NEW call, call = Head(mailbox[s]), Placed(s, call),
           mailbox[s] \in Seq(Calls), mailbox[s] # <<>>, mailbox'[s] = Tail(mailbox[s]),
           \A x \in Shards : x # s => mailbox'[x] = mailbox[x],
           UNCHANGED <<auto, loop>>, NEW e \in Envs, NEW b, PastKept(e, b), torn \subseteq torn',
           ~Broken(e)' => \A k \in ToSet(KeysOf(e)) : Held(k) \subseteq Held(k)',
           call.op \in {"pair", "response"} /\ call.ret.env = e /\ ~Broken(e)' =>
                \A k \in ToSet(KeysOf(e)) : call.ret \in Held(k)'
    PROVE  PastKept(e, b)'
<1>1. KeysOf(e)' = KeysOf(e) /\ (Broken(e) => Broken(e)')
      BY KeysSame DEF Broken
<1> SUFFICES ASSUME ~Broken(e)', NEW k \in ToSet(KeysOf(e)), NEW at \in Past(b) PROVE at \in Kept(k)'
    BY <1>1 DEF PastKept, Past
<1>2. at \in Kept(k)
      BY <1>1 DEF PastKept
<1>3. PICK r : At(r) = at /\ r.env = k[1] /\ (Queued(r) \/ r \in Held(k))
      BY <1>2, KeptIs
<1>4. k[1] = e
      BY OwnKeys
<1>5. Queued(r)' \/ r \in Held(k)'
  <2>1. CASE r \in Held(k)
        BY <2>1
  <2>2. CASE Queued(r)
    <3>1. PICK x \in Shards : \E c \in ToSet(mailbox[x]) : c.op \in {"pair", "response"} /\ c.ret = r
          BY <2>2 DEF Queued
    <3>2. PICK c \in ToSet(mailbox[x]) : c.op \in {"pair", "response"} /\ c.ret = r
          BY <3>1
    <3>3. CASE x # s
          BY <3>1, <3>3 DEF Queued
    <3>4. CASE x = s
      <4>1. ToSet(mailbox[s]) = {call} \cup ToSet(mailbox'[s])
            BY Tails
      <4>2. CASE c = call
            BY <1>3, <1>4, <3>2, <4>2
      <4>3. CASE c \in ToSet(mailbox'[s])
            BY <3>2, <4>3 DEF Queued
      <4> QED BY <3>2, <3>4, <4>1, <4>2, <4>3
    <3> QED BY <3>3, <3>4
  <2> QED BY <1>3, <2>1, <2>2
<1>6. at \in Kept(k)' <=> \E y : At(y) = at /\ y.env = k[1] /\ (Queued(y)' \/ y \in Held(k)')
  <2> DEFINE queued == {c \in UNION {ToSet(mailbox'[z]) : z \in Shards} : c.op \in {"pair", "response"}}
             All == {c.ret : c \in queued} \cup Held(k)'
  <2>1. Kept(k)' = {At(y) : y \in {z \in All : z.env = k[1]}}
        BY DEF Kept, Held, At
  <2>2. \A y : y \in {c.ret : c \in queued} <=> Queued(y)'
        BY DEF Queued
  <2> HIDE DEF queued
  <2>3. \A y : y \in All <=> Queued(y)' \/ y \in Held(k)'
        BY <2>2
  <2> HIDE DEF All
  <2> QED BY <2>1, <2>3
<1> QED BY <1>3, <1>5, <1>6

\* Submission: what is submitted is queued.
LEMMA PastExtended ==
    ASSUME ShardTyped, ShardTyped', NEW x, NEW e \in Envs, NEW b, NEW d, PastKept(e, b), Extends(x, e, b, d),
           \A s \in Shards : ToSet(mailbox[s]) \subseteq ToSet(mailbox'[s]),
           UNCHANGED <<auto, loop, active, stored, delivered, dropped, torn>>
    PROVE  PastKept(e, d)'
<1>1. KeysOf(e)' = KeysOf(e) /\ (Broken(e) <=> Broken(e)')
      BY KeysSame DEF Broken
<1>2. \A k : Held(k)' = Held(k)
      BY DEF Held, Pushed
<1>3. PICK q \in Seq(Calls) : mailbox'[shardOf[e]] = mailbox[shardOf[e]] \o q /\ Brings(e, q, b, d)
      BY DEF Extends
<1> SUFFICES ASSUME ~Broken(e)', NEW k \in ToSet(KeysOf(e)), NEW at \in Past(d) PROVE at \in Kept(k)'
    BY <1>1 DEF PastKept, Past
<1>4. k[1] = e
      BY OwnKeys
<1>5. \E r : At(r) = at /\ r.env = k[1] /\ (Queued(r)' \/ r \in Held(k)')
  <2>1. CASE at \in Past(b)
    <3>1. at \in Kept(k)
          BY <1>1, <2>1 DEF PastKept
    <3>2. PICK r : At(r) = at /\ r.env = k[1] /\ (Queued(r) \/ r \in Held(k))
          BY <3>1, KeptIs
    <3>3. Queued(r) => Queued(r)'
          BY DEF Queued
    <3> QED BY <1>2, <3>2, <3>3
  <2>2. CASE at \notin Past(b)
    <3>1. PICK i \in DOMAIN q : q[i].op \in {"pair", "response"} /\ q[i].ret.env = e /\ At(q[i].ret) = at
          BY <1>3, <2>2 DEF Brings
    <3>2. shardOf[e] \in Shards /\ mailbox[shardOf[e]] \in Seq(Calls)
          BY DEF ShardTyped
    <3>3. q[i] \in ToSet(mailbox'[shardOf[e]])
      <4>1. ToSet(mailbox'[shardOf[e]]) = ToSet(mailbox[shardOf[e]]) \cup ToSet(q)
            BY <1>3, <3>2, Joined
      <4> QED BY <4>1 DEF ToSet
    <3>4. Queued(q[i].ret)'
          BY <3>1, <3>2, <3>3 DEF Queued
    <3> QED BY <1>4, <3>1, <3>4
  <2> QED BY <2>1, <2>2
<1>6. at \in Kept(k)' <=> \E y : At(y) = at /\ y.env = k[1] /\ (Queued(y)' \/ y \in Held(k)')
  <2> DEFINE queued == {c \in UNION {ToSet(mailbox'[z]) : z \in Shards} : c.op \in {"pair", "response"}}
             All == {c.ret : c \in queued} \cup Held(k)'
  <2>1. Kept(k)' = {At(y) : y \in {z \in All : z.env = k[1]}}
        BY DEF Kept, Held, At
  <2>2. \A y : y \in {c.ret : c \in queued} <=> Queued(y)'
        BY DEF Queued
  <2> HIDE DEF queued
  <2>3. \A y : y \in All <=> Queued(y)' \/ y \in Held(k)'
        BY <2>2
  <2> HIDE DEF All
  <2> QED BY <2>1, <2>3
<1> QED BY <1>5, <1>6
-----------------------------------------------------------------------------
(***************************************************************************)
(* What a shard pushes was not pushed before.                              *)
(***************************************************************************)
\* The call is in order for every environment.
Turn(x, call) == \A e \in Envs : \E a, d \in Stances(x, e) : AtShard(e, a) /\ Does(x, e, a, call, d)

LEMMA TurnFull ==
    ASSUME NEW x \in BOOLEAN, x = inAutoReset, NEW call \in Calls, call.op = "truncate", Turn(x, call)
    PROVE  \A f \in ToSet(call.envs) : Full_(f)
<1> SUFFICES ASSUME NEW f \in ToSet(call.envs) PROVE Full_(f)
    OBVIOUS
<1>1. f \in Envs
      BY CallIs DEF ToSet
<1>2. PICK a \in Stances(x, f), d \in Stances(x, f) : AtShard(f, a) /\ Does(x, f, a, call, d)
      BY <1>1 DEF Turn
<1>3. a.phase = "truncate"
      BY <1>2 DEF Does, Concerns
<1> QED BY <1>2, <1>3 DEF Full_

\* The open episode of k with its next row is not one that was pushed.
LEMMA NewGrown ==
    ASSUME ShardTyped, NEW x \in BOOLEAN, x = inAutoReset, NoAutoRsl, NEW e \in Envs, NEW a \in Stances(x, e),
           NEW r \in Returns, AtShard(e, a), Due(x, a, r), NEW p \in GrownOf(e, Transition(r, r)), HasRows(p)
    PROVE  p \notin Pushed
<1>1. PICK row : row = Transition(r, r) /\ row \in Row /\ row.ret = r
      BY RowOf
<1>2. PICK k \in EndedKeysOf(e, row) : p = [key |-> k, rows |-> Append(active[k], row)]
      BY <1>1 DEF GrownOf
<1>3. k \in ToSet(KeysOf(e)) /\ k \in AllKeys /\ k[1] = e /\ p.key = k /\ p.rows = Append(active[k], row)
      BY <1>2, OwnKeys DEF EndedKeysOf
<1>4. PICK A \in Seq(Row) : A = active[k]
      BY <1>3 DEF ShardTyped
<1>5. Len(Append(A, row)) = Len(A) + 1 /\ Append(A, row)[Len(A) + 1] = row /\ (A = <<>> => Len(A) = 0)
      BY <1>1, Appended
<1>6. A # <<>> /\ LastOf(p) = r
      BY <1>1, <1>3, <1>4, <1>5 DEF HasRows, LastOf
<1>7. Before(a.row, r)
  <2>1. UpTo(a.row, r) /\ (~a.closed \/ x => Before(a.row, r))
        BY DueLater
  <2>2. CASE ~a.closed \/ x
        BY <2>1, <2>2
  <2>3. CASE a.closed /\ ~x
    <3>1. ~Broken(e)
          BY <2>3 DEF NoAutoRsl, Broken, Splits, inAutoReset
    <3> QED BY <1>3, <1>4, <1>6, <2>3, <3>1, ShardIs DEF Whole
  <2> QED BY <2>2, <2>3
<1>8. SUFFICES ASSUME p \in Pushed PROVE FALSE
      OBVIOUS
<1>9. UpTo(r, a.row)
      BY <1>3, <1>6, <1>8, ShardIs DEF Behind
<1>10. a.row \in Returns
       BY StanceIs
<1> QED BY <1>7, <1>9, <1>10, Orders

\* Nor is an open episode with rows.
LEMMA NewOpen ==
    ASSUME ShardTyped, NEW e \in Envs, NEW a, AtShard(e, a), NEW k \in ToSet(KeysOf(e)),
           NEW p, p = [key |-> k, rows |-> active[k]], HasRows(p)
    PROVE  p \notin Pushed
<1>1. k \in AllKeys /\ k[1] = e /\ p.key = k /\ p.rows = active[k]
      BY OwnKeys
<1>2. PICK A \in Seq(Row) : A = active[k]
      BY <1>1 DEF ShardTyped
<1>3. Len(A) > 1 /\ Len(A) \in Nat /\ DOMAIN A = 1..Len(A) /\ \A i \in 1..Len(A) : A[i] \in Row
      BY <1>1, <1>2 DEF HasRows
<1>4. 1 \in DOMAIN A /\ Len(A) \in DOMAIN A /\ 1 < Len(A) /\ A # <<>>
  <2>1. PICK n \in Nat : n = Len(A)
        BY <1>3
  <2>2. 1 \in 1..n /\ n \in 1..n /\ 1 < n
        BY <1>3, <2>1
  <2> QED BY <1>3, <2>1, <2>2
<1>5. Before(A[1].ret, A[Len(A)].ret) /\ A[1].ret \in Returns /\ A[Len(A)].ret \in Returns
  <2>1. Rising(A)
        BY <1>2, ShardIs DEF Ordered
  <2>2. \A y \in Row : y.ret \in Returns
        BY DEF Row
  <2> QED BY <1>3, <1>4, <2>1, <2>2 DEF Rising
<1> SUFFICES ASSUME p \in Pushed PROVE FALSE
    OBVIOUS
<1>6. UpTo(LastOf(p), A[1].ret)
      BY <1>1, <1>2, <1>4, ShardIs DEF Behind
<1>7. LastOf(p) = A[Len(A)].ret
      BY <1>1, <1>2 DEF LastOf
<1> QED BY <1>5, <1>6, <1>7, Orders

\* The container of s grows by t.
Grew(s, t) ==
    /\ t \in Seq(Episode) /\ stored'[s] = stored[s] \o t /\ ToSet(t) \cap Pushed = {}
    /\ ToSet(stored'[s]) = ToSet(stored[s]) \cup ToSet(t)
    /\ \A y \in Shards : y # s => stored'[y] = stored[y]
    /\ dropped \subseteq dropped' /\ \A p \in dropped' : HasRows(p) => p \in dropped
    /\ UNCHANGED <<sizes, delivered, counted>>

LEMMA PushGrew ==
    ASSUME ShardTyped, NEW s \in Shards, NEW G, NEW t, Pushes(s, G, t), UNCHANGED <<sizes, delivered, counted>>,
           \A p \in G : HasRows(p) => p \notin Pushed
    PROVE  Grew(s, t)
<1>1. stored \in [Shards -> Seq(Episode)]
      BY DEF ShardTyped
<1>2. /\ t \in Seq(Episode) /\ ToSet(t) \subseteq {p \in G : HasRows(p)}
      /\ stored' = [stored EXCEPT ![s] = @ \o t]
      /\ ToSet(stored'[s]) = ToSet(stored[s]) \cup ToSet(t)
      /\ dropped' = dropped \cup {p \in G : ~HasRows(p)}
      BY DEF Pushes
<1> QED BY <1>1, <1>2 DEF Grew

LEMMA ShardGrows ==
    ASSUME ShardTyped, NoAutoRsl, NEW s \in Shards, Execute(s), NEW call \in Calls, call = Head(mailbox[s]),
           Placed(s, call), NEW x \in BOOLEAN, x = inAutoReset, Turn(x, call), call.op \notin {"size", "get", "clear"}
    PROVE  \E t : Grew(s, t)
<1>1. \/ AddPair(s, call) \/ AddReturn(s, call) \/ AddResponse(s, call) \/ Truncate(s, call)
      BY DEF Execute, GetSize, GetItems, ClearShard
<1>2. ASSUME NEW e \in Envs, NEW a \in Stances(x, e), NEW r \in Returns, AtShard(e, a), Due(x, a, r),
             AddRow(s, e, Transition(r, r)), UNCHANGED <<sizes, delivered, counted>>
      PROVE  \E t : Grew(s, t)
  <2>1. Transition(r, r) \in Row
        BY RowOf
  <2>2. \E t : Pushes(s, GrownOf(e, Transition(r, r)), t)
        BY <1>2, <2>1, RowAdded
  <2>3. \A p \in GrownOf(e, Transition(r, r)) : HasRows(p) => p \notin Pushed
        BY <1>2, NewGrown
  <2> QED BY <1>2, <2>2, <2>3, PushGrew
<1>3. CASE AddPair(s, call)
  <2>1. /\ call.op = "pair" /\ AddRow(s, call.ret.env, Transition(call.ret, call.ret))
        /\ UNCHANGED <<sizes, delivered, counted>>
        BY <1>3 DEF AddPair
  <2>2. call.ret \in Returns /\ call.ret.env \in Envs
        BY <2>1, CallIs
  <2>3. PICK e \in Envs : e = call.ret.env
        BY <2>2
  <2>4. PICK a \in Stances(x, e), d \in Stances(x, e) : AtShard(e, a) /\ Does(x, e, a, call, d)
        BY DEF Turn
  <2>5. Due(x, a, call.ret)
        BY <2>1, <2>3, <2>4 DEF Does, Concerns, Carries
  <2> QED BY <1>2, <2>1, <2>2, <2>3, <2>4, <2>5
<1>4. CASE AddResponse(s, call)
  <2>1. /\ call.op = "response" /\ AddRow(s, call.ret.env, Transition(current[call.ret.env][1], call.ret))
        /\ UNCHANGED <<sizes, delivered, counted>>
        BY <1>4 DEF AddResponse
  <2>2. call.ret \in Returns /\ call.ret.env \in Envs
        BY <2>1, CallIs
  <2>3. PICK e \in Envs : e = call.ret.env
        BY <2>2
  <2>4. PICK a \in Stances(x, e), d \in Stances(x, e) : AtShard(e, a) /\ Does(x, e, a, call, d)
        BY DEF Turn
  <2>5. a.phase = "response" /\ a.cur = call.ret
        BY <2>1, <2>3, <2>4 DEF Does, Concerns, Carries
  <2>6. Due(x, a, call.ret)
        BY <2>5 DEF Stances, Sound
  <2>7. current[e] = <<call.ret>>
        BY <2>4, <2>5, ShardIs
  <2>8. current[e][1] = call.ret
        BY <2>7
  <2>9. AddRow(s, e, Transition(call.ret, call.ret))
        BY <2>1, <2>3, <2>8
  <2> QED BY <1>2, <2>1, <2>2, <2>4, <2>6, <2>9
<1>5. CASE AddReturn(s, call)
  <2>1. UNCHANGED <<stored, sizes, delivered, dropped, counted>>
        BY <1>5 DEF AddReturn
  <2>2. stored[s] \in Seq(Episode) /\ <<>> \in Seq(Episode) /\ ToSet(<<>>) = {}
        BY DEF ShardTyped, ToSet
  <2>3. stored[s] \o <<>> = stored[s]
        BY <2>2, ConcatEmptySeq
  <2>4. Grew(s, <<>>)
        BY <2>1, <2>2, <2>3 DEF Grew
  <2> QED BY <2>4
<1>6. CASE Truncate(s, call)
  <2>1. call.op = "truncate" /\ UNCHANGED <<sizes, delivered, counted>>
        BY <1>6 DEF Truncate
  <2>2. PICK t : Pushes(s, OpenOf(TakenBy(call)), t)
        BY <1>6, <2>1, Truncates
  <2>3. ASSUME NEW p \in OpenOf(TakenBy(call)), HasRows(p) PROVE p \notin Pushed
    <3>1. PICK k \in TakenBy(call) : p = [key |-> k, rows |-> active[k]]
          BY DEF OpenOf
    <3>2. PICK i \in DOMAIN call.envs : k \in ToSet(KeysOf(call.envs[i]))
          BY <3>1 DEF TakenBy, ReachedBy
    <3>3. PICK e \in Envs : e = call.envs[i]
          BY <2>1, <3>2, CallIs
    <3>4. PICK a \in Stances(x, e) : AtShard(e, a)
          BY DEF Turn
    <3> QED BY <2>3, <3>1, <3>2, <3>3, <3>4, NewOpen
  <2> QED BY <2>1, <2>2, <2>3, PushGrew
<1> QED BY <1>1, <1>3, <1>4, <1>5, <1>6
-----------------------------------------------------------------------------
(***************************************************************************)
(* The calls of a sample among those that wait at a shard.                 *)
(***************************************************************************)
\* Calls of the rollout are added.
LEMMA InMore ==
    ASSUME NEW q \in Seq(Calls), NEW t \in Seq(Calls), \A i \in DOMAIN t : t[i].op \notin Sampled
    PROVE  /\ \A op \in Sampled : In_(q \o t, op) = In_(q, op)
           /\ \A i \in DOMAIN q : (q \o t)[i] = q[i]
           /\ ToSet(q) \subseteq ToSet(q \o t)
<1>1. PICK u : u = q \o t
      OBVIOUS
<1>2. /\ DOMAIN u = 1..(Len(q) + Len(t)) /\ \A i \in 1..Len(q) : u[i] = q[i]
      /\ \A i \in 1..Len(t) : u[Len(q) + i] = t[i]
      /\ ToSet(u) = ToSet(q) \cup ToSet(t)
      BY <1>1, Joined
<1>3. DOMAIN q = 1..Len(q) /\ Len(q) \in Nat /\ DOMAIN t = 1..Len(t) /\ Len(t) \in Nat
      OBVIOUS
<1>4. \A i \in DOMAIN q : i \in DOMAIN u /\ u[i] = q[i]
      BY <1>2, <1>3
<1>5. ASSUME NEW i \in DOMAIN u, i \notin DOMAIN q PROVE u[i].op \notin Sampled
  <2>1. PICK m \in Nat : m = Len(q)
        BY <1>3
  <2>2. PICK n \in Nat : n = Len(t)
        BY <1>3
  <2>3. i \in 1..(m + n) /\ i \notin 1..m
        BY <1>2, <1>3, <1>5, <2>1, <2>2
  <2>4. i - m \in 1..n /\ m + (i - m) = i
        BY <2>3
  <2>5. u[i] = t[i - m] /\ i - m \in DOMAIN t
        BY <1>2, <1>3, <2>1, <2>2, <2>4
  <2> QED BY <2>5
<1>6. \A op \in Sampled : In_(u, op) = In_(q, op)
      BY <1>4, <1>5 DEF In_
<1> QED BY <1>1, <1>2, <1>4, <1>6

\* A call is added.
LEMMA InOne ==
    ASSUME NEW q \in Seq(Calls), NEW c \in Calls
    PROVE  /\ \A op : In_(Append(q, c), op) = In_(q, op) \cup (IF c.op = op THEN {Len(q) + 1} ELSE {})
           /\ \A i \in DOMAIN q : Append(q, c)[i] = q[i] /\ i < Len(q) + 1
           /\ Append(q, c)[Len(q) + 1] = c
           /\ \A op : \A i \in In_(q, op) : i \in DOMAIN q
           /\ ToSet(q) \subseteq ToSet(Append(q, c))
<1>1. PICK u : u = Append(q, c)
      OBVIOUS
<1>2. PICK n \in Nat : n = Len(q)
      OBVIOUS
<1>3. DOMAIN q = 1..n /\ DOMAIN u = 1..(n + 1) /\ u[n + 1] = c /\ \A i \in 1..n : u[i] = q[i]
      BY <1>1, <1>2
<1>4. (\A i \in 1..(n + 1) : i \in 1..n \/ i = n + 1) /\ (\A i \in 1..n : i \in 1..(n + 1) /\ i < n + 1)
      /\ n + 1 \in 1..(n + 1)
      OBVIOUS
<1>5. \A op : In_(u, op) = In_(q, op) \cup (IF c.op = op THEN {n + 1} ELSE {})
      BY <1>3, <1>4 DEF In_
<1>6. ToSet(q) \subseteq ToSet(u)
      BY <1>3, <1>4 DEF ToSet
<1> QED BY <1>1, <1>2, <1>3, <1>4, <1>5, <1>6 DEF In_

\* The first call is taken.
LEMMA InRest ==
    ASSUME NEW q \in Seq(Calls), q # <<>>
    PROVE  /\ 1 \in DOMAIN q /\ q[1] = Head(q)
           /\ \A op : 1 \in In_(q, op) <=> Head(q).op = op
           /\ \A op : \A i \in In_(Tail(q), op) :
                 i \in Nat /\ i + 1 \in In_(q, op) /\ Tail(q)[i] = q[i + 1]
           /\ \A op : \A i \in In_(q, op) : i \in Nat /\ i >= 1 /\ (i = 1 \/ i - 1 \in In_(Tail(q), op))
<1>1. PICK t : t = Tail(q)
      OBVIOUS
<1>2. PICK n \in Nat : n = Len(q)
      OBVIOUS
<1>3. DOMAIN q = 1..n /\ n > 0 /\ DOMAIN t = 1..(n - 1) /\ q[1] = Head(q)
      BY <1>1, <1>2
<1>4. \A i \in 1..(n - 1) : t[i] = q[i + 1]
      BY <1>1, <1>2, Tails
<1>5. 1 \in 1..n /\ (\A i \in 1..(n - 1) : i \in Nat /\ i + 1 \in 1..n)
      /\ \A i \in 1..n : i \in Nat /\ i >= 1 /\ (i = 1 \/ (i - 1 \in 1..(n - 1) /\ (i - 1) + 1 = i))
      BY <1>3
<1>6. \A op : \A i \in In_(t, op) : i \in Nat /\ i + 1 \in In_(q, op) /\ t[i] = q[i + 1]
      BY <1>3, <1>4, <1>5 DEF In_
<1>7. \A op : \A i \in In_(q, op) : i \in Nat /\ i >= 1 /\ (i = 1 \/ i - 1 \in In_(t, op))
  <2> SUFFICES ASSUME NEW op, NEW i \in In_(q, op) PROVE i \in Nat /\ i >= 1 /\ (i = 1 \/ i - 1 \in In_(t, op))
      OBVIOUS
  <2>1. i \in 1..n /\ q[i].op = op
        BY <1>3 DEF In_
  <2>2. CASE i = 1
        BY <1>5, <2>1, <2>2
  <2>3. CASE i # 1
    <3>1. i \in Nat /\ i >= 1 /\ i - 1 \in 1..(n - 1) /\ (i - 1) + 1 = i
          BY <1>5, <2>1, <2>3
    <3>2. t[i - 1].op = op
          BY <1>4, <2>1, <3>1
    <3> QED BY <1>3, <3>1, <3>2 DEF In_
  <2> QED BY <2>2, <2>3
<1>8. \A op : 1 \in In_(q, op) <=> Head(q).op = op
      BY <1>3, <1>5 DEF In_
<1> QED BY <1>1, <1>3, <1>5, <1>6, <1>7, <1>8

LEMMA LineRest ==
    ASSUME NEW q \in Seq(Calls), q # <<>>, Line(q)
    PROVE  /\ Line(Tail(q))
           /\ \A op : Head(q).op # op => (In_(Tail(q), op) = {} <=> In_(q, op) = {})
           /\ \A op : In_(q, op) = {} => In_(Tail(q), op) = {}
           /\ Head(q).op \in {"size", "get"} => In_(Tail(q), Head(q).op) = {}
           /\ Head(q).op = "size" => In_(q, "get") = {} /\ In_(q, "clear") = {}
           /\ Head(q).op = "clear" => In_(q, "get") = {}
<1>1. PICK t : t = Tail(q)
      OBVIOUS
<1>2. /\ \A op : 1 \in In_(q, op) <=> Head(q).op = op
      /\ \A op : \A i \in In_(t, op) : i \in Nat /\ i + 1 \in In_(q, op)
      /\ \A op : \A i \in In_(q, op) : i \in Nat /\ i >= 1 /\ (i = 1 \/ i - 1 \in In_(t, op))
      BY <1>1, InRest
<1>3. \A op : Head(q).op # op => (In_(t, op) = {} <=> In_(q, op) = {})
      BY <1>2
<1>4. Line(t)
  <2>1. ASSUME NEW op \in {"size", "get"}, NEW i \in In_(t, op), NEW j \in In_(t, op) PROVE i = j
    <3>1. i \in Nat /\ j \in Nat /\ i + 1 \in In_(q, op) /\ j + 1 \in In_(q, op)
          BY <1>2
    <3>2. i + 1 = j + 1
          BY <3>1 DEF Line
    <3> QED BY <3>1, <3>2
  <2>2. ASSUME NEW i \in In_(t, "get"), NEW j \in In_(t, "clear") PROVE i < j
    <3>1. i \in Nat /\ j \in Nat /\ i + 1 \in In_(q, "get") /\ j + 1 \in In_(q, "clear")
          BY <1>2
    <3>2. i + 1 < j + 1
          BY <3>1 DEF Line
    <3> QED BY <3>1, <3>2
  <2>3. ASSUME NEW i \in In_(t, "get") \cup In_(t, "clear"), NEW j \in In_(t, "size") PROVE i < j
    <3>1. i \in Nat /\ j \in Nat /\ i + 1 \in In_(q, "get") \cup In_(q, "clear") /\ j + 1 \in In_(q, "size")
          BY <1>2
    <3>2. i + 1 < j + 1
          BY <3>1 DEF Line
    <3> QED BY <3>1, <3>2
  <2> QED BY <2>1, <2>2, <2>3 DEF Line
<1>5. Head(q).op \in {"size", "get"} => In_(t, Head(q).op) = {}
  <2> SUFFICES ASSUME Head(q).op \in {"size", "get"}, NEW i \in In_(t, Head(q).op) PROVE FALSE
      OBVIOUS
  <2>1. i \in Nat /\ i + 1 \in In_(q, Head(q).op) /\ 1 \in In_(q, Head(q).op)
        BY <1>2
  <2>2. i + 1 = 1 /\ i + 1 # 0
        BY <2>1 DEF Line
  <2>3. i = 0
        BY <2>1, <2>2
  <2>4. i \in DOMAIN t /\ DOMAIN t = 1..Len(t) /\ Len(t) \in Nat
        BY <1>1 DEF In_
  <2> QED BY <2>3, <2>4
<1>6. Head(q).op = "size" => In_(q, "get") = {} /\ In_(q, "clear") = {}
  <2> SUFFICES ASSUME Head(q).op = "size", NEW i \in In_(q, "get") \cup In_(q, "clear") PROVE FALSE
      OBVIOUS
  <2>1. 1 \in In_(q, "size") /\ i \in Nat /\ i >= 1
        BY <1>2
  <2>2. i < 1
        BY <2>1 DEF Line
  <2> QED BY <2>1, <2>2
<1>7. Head(q).op = "clear" => In_(q, "get") = {}
  <2> SUFFICES ASSUME Head(q).op = "clear", NEW i \in In_(q, "get") PROVE FALSE
      OBVIOUS
  <2>1. 1 \in In_(q, "clear") /\ i \in Nat /\ i >= 1
        BY <1>2
  <2>2. i < 1
        BY <2>1 DEF Line
  <2> QED BY <2>1, <2>2
<1>8. \A op : In_(q, op) = {} => In_(t, op) = {}
      BY <1>2
<1> QED BY <1>1, <1>3, <1>4, <1>5, <1>6, <1>7, <1>8
-----------------------------------------------------------------------------
(***************************************************************************)
(* The rollout adds calls of its own to the queues.                        *)
(***************************************************************************)
Rolls(s) ==
    \E t \in Seq(Calls) :
        mailbox'[s] = mailbox[s] \o t /\ \A i \in DOMAIN t : t[i].op \notin Sampled

LEMMA RollingQueues ==
    ASSUME Typed, pc = "truncate" => loop = "rsl", Rolling
    PROVE  (\A s \in Shards : Rolls(s)) /\ UNCHANGED <<fixedVars, shardVars, samplerVars, loop>>
<1>0. ShardTyped /\ RollTyped
      BY DEF Typed
<1>1. /\ DOMAIN batch \subseteq Envs /\ \A e \in DOMAIN batch : OfEnv(e, batch[e])
      /\ DOMAIN last \subseteq Envs /\ \A e \in DOMAIN last : OfEnv(e, last[e])
      BY <1>0 DEF RollTyped
<1>2. /\ CallsFor(PairCalls(batch, flags)) /\ CallsFor(ReturnCalls(batch))
      /\ CallsFor(ResponseCalls(batch, flags)) /\ CallsFor(ResponseCalls(batch, {}))
      /\ CallsFor(ReturnCalls(last))
      BY <1>1, BatchCalls
<1>3. ASSUME NEW calls, CallsFor(calls), Submit(calls), UNCHANGED <<loop, shardOf>>, NEW s \in Shards
      PROVE  Rolls(s)
  <2>1. mailbox'[s] = mailbox[s] \o CallsOn(s, calls)
        BY <1>0, <1>3, SubmitQueues
  <2>2. /\ CallsOn(s, calls) \in Seq(Calls)
        /\ \A i \in DOMAIN CallsOn(s, calls) : \E e \in DOMAIN calls : CallFor(e, CallsOn(s, calls)[i])
        BY <1>3, CallsOnAre
  <2>3. \A e, c : CallFor(e, c) => c.op \notin Sampled
        BY DEF CallFor, Carries, Sampled
  <2> QED BY <2>1, <2>2, <2>3 DEF Rolls
<1>4. ASSUME UNCHANGED bufferVars
      PROVE  (\A s \in Shards : Rolls(s)) /\ UNCHANGED <<fixedVars, shardVars>>
  <2>1. UNCHANGED <<mailbox, fixedVars, shardVars>>
        BY <1>4 DEF bufferVars, fixedVars, shardVars
  <2>2. ASSUME NEW s \in Shards PROVE Rolls(s)
    <3>1. mailbox[s] \in Seq(Calls) /\ <<>> \in Seq(Calls) /\ DOMAIN <<>> = {}
          BY <1>0 DEF ShardTyped
    <3>2. mailbox'[s] = mailbox[s] \o <<>>
          BY <2>1, <3>1, ConcatEmptySeq
    <3> QED BY <3>1, <3>2 DEF Rolls
  <2> QED BY <2>1, <2>2
<1>5. UNCHANGED <<loop, shardOf>>
      BY Constant DEF Next
<1>6. CASE Reset \/ Step \/ SubmitSteps \/ Collect \/ CollectRsl \/ NextEpoch
  <2>1. UNCHANGED <<bufferVars, samplerVars>>
        BY <1>6 DEF Reset, Step, SubmitSteps, Collect, CollectRsl, NextEpoch
  <2> QED BY <1>4, <1>5, <2>1
<1>7. CASE StorePairs
  <2>1. Submit(PairCalls(batch, flags)) /\ UNCHANGED <<fixedVars, shardVars, samplerVars>>
        BY <1>7 DEF StorePairs, SubmitPairs, PairCalls
  <2> QED BY <1>2, <1>3, <1>5, <2>1
<1>8. CASE StoreReturns
  <2>1. Submit(ReturnCalls(batch)) /\ UNCHANGED <<fixedVars, shardVars, samplerVars>>
        BY <1>8 DEF StoreReturns, SubmitReturns, ReturnCalls
  <2> QED BY <1>2, <1>3, <1>5, <2>1
<1>9. CASE StoreResponses
  <2>1. Submit(ResponseCalls(batch, flags)) /\ UNCHANGED <<fixedVars, shardVars, samplerVars>>
        BY <1>9 DEF StoreResponses, SubmitResponses, ResponseCalls
  <2> QED BY <1>2, <1>3, <1>5, <2>1
<1>10. CASE StoreLast
  <2>1. Submit(ReturnCalls(last)) /\ UNCHANGED <<fixedVars, shardVars, samplerVars>>
        BY <1>10 DEF StoreLast, SubmitReturns, ReturnCalls
  <2> QED BY <1>2, <1>3, <1>5, <2>1
<1>11. CASE StoreLastResponses
  <2>1. Submit(ResponseCalls(batch, {})) /\ UNCHANGED <<fixedVars, shardVars, samplerVars>>
        BY <1>11 DEF StoreLastResponses, SubmitResponses, ResponseCalls
  <2> QED BY <1>2, <1>3, <1>5, <2>1
<1>12. CASE TruncateAll
  <2>1. SubmitTruncations(DOMAIN batch) /\ UNCHANGED <<fixedVars, shardVars, samplerVars>> /\ loop = "rsl"
        BY <1>12 DEF TruncateAll
  <2>2. ASSUME NEW s \in Shards PROVE Rolls(s)
    <3>1. mailbox'[s] = IF \A e \in DOMAIN batch : shardOf[e] # s THEN mailbox[s]
                        ELSE Append(mailbox[s], TruncationAt(s, DOMAIN batch))
          BY <1>0, <1>1, <1>5, <2>1, TruncationQueues
    <3>2. TruncationAt(s, DOMAIN batch) \in Calls /\ TruncationAt(s, DOMAIN batch).op \notin Sampled
          BY <1>1, <2>1, TruncationIs DEF Sampled
    <3>3. PICK c \in Calls : c = TruncationAt(s, DOMAIN batch) /\ c.op \notin Sampled
          BY <3>2
    <3>4. PICK q \in Seq(Calls) : q = mailbox[s]
          BY <1>0 DEF ShardTyped
    <3>5. q \o <<>> = q /\ <<>> \in Seq(Calls) /\ DOMAIN <<>> = {}
          BY ConcatEmptySeq
    <3>6. Append(q, c) = q \o <<c>> /\ <<c>> \in Seq(Calls) /\ \A i \in DOMAIN <<c>> : <<c>>[i] = c
          BY AppendIsConcat
    <3> QED BY <3>1, <3>3, <3>4, <3>5, <3>6 DEF Rolls
  <2> QED BY <1>5, <2>1, <2>2
<1> QED BY <1>6, <1>7, <1>8, <1>9, <1>10, <1>11, <1>12 DEF Rolling

-----------------------------------------------------------------------------
(***************************************************************************)
(* What the sampling thread knows of a shard stays true.                   *)
(***************************************************************************)
\* Nothing that matters to the sample changes.
LEMMA SamplerSame ==
    ASSUME NEW s, SamplerInv(s),
           \A op \in Sampled : In_(mailbox'[s], op) = In_(mailbox[s], op),
           \A i \in In_(mailbox[s], "get") : mailbox'[s][i] = mailbox[s][i],
           spc' = spc, Asked(s)' <=> Asked(s), shardOf' = shardOf,
           stored'[s] = stored[s], sizes'[s] = sizes[s], counted'[s] = counted[s],
           delivered \subseteq delivered', \A p \in delivered' : p \in delivered \/ p \notin ToSet(stored[s]),
           \A p \in dropped' : HasRows(p) => p \in dropped \/ (p \notin counted[s] /\ p \notin ToSet(stored[s])),
           Pushed \subseteq Pushed'
    PROVE  SamplerInv(s)'
<1>1. PICK q, u : q = mailbox[s] /\ u = mailbox'[s]
      OBVIOUS
<1>2. /\ In_(u, "get") = In_(q, "get") /\ In_(u, "size") = In_(q, "size") /\ In_(u, "clear") = In_(q, "clear")
      /\ \A op \in Sampled : In_(u, op) = In_(q, op)
      BY <1>1 DEF Sampled
<1>3. Line(u)
      BY <1>1, <1>2 DEF SamplerInv, Line
<1>4. Sized(spc', Asked(s)', sizes'[s]) <=> Sized(spc, Asked(s), sizes[s])
      BY DEF Sized
<1>5. Asking(u, spc', Asked(s)', sizes'[s])
  <2>1. Asking(q, spc, Asked(s), sizes[s])
        BY <1>1 DEF SamplerInv
  <2> QED BY <1>2, <1>4, <2>1 DEF Asking
<1>6. Got(u, spc') <=> Got(q, spc)
      BY <1>2 DEF Got
<1> QED BY <1>1, <1>2, <1>3, <1>4, <1>5, <1>6 DEF SamplerInv, HasRows

LEMMA SamplerRolls ==
    ASSUME ShardTyped, NEW s \in Shards, SamplerInv(s), Rolls(s), UNCHANGED <<fixedVars, shardVars, samplerVars>>
    PROVE  SamplerInv(s)'
<1>1. PICK t \in Seq(Calls) : mailbox'[s] = mailbox[s] \o t /\ \A i \in DOMAIN t : t[i].op \notin Sampled
      BY DEF Rolls
<1>2. mailbox[s] \in Seq(Calls)
      BY DEF ShardTyped
<1>3. /\ \A op \in Sampled : In_(mailbox'[s], op) = In_(mailbox[s], op)
      /\ \A i \in DOMAIN mailbox[s] : mailbox'[s][i] = mailbox[s][i]
      BY <1>1, <1>2, InMore
<1>4. \A i \in In_(mailbox[s], "get") : mailbox'[s][i] = mailbox[s][i]
      BY <1>3 DEF In_
<1>5. /\ spc' = spc /\ asked' = asked /\ shardOf' = shardOf /\ stored' = stored /\ sizes' = sizes
      /\ counted' = counted /\ delivered' = delivered /\ dropped' = dropped
      BY DEF fixedVars, shardVars, samplerVars
<1>6. (Asked(s)' <=> Asked(s)) /\ Pushed' = Pushed
      BY <1>5 DEF Asked, shards, Pushed
<1> QED BY <1>3, <1>4, <1>5, <1>6, SamplerSame
-----------------------------------------------------------------------------
(***************************************************************************)
(* The same when the shard executes its first call.                        *)
(***************************************************************************)
\* What was told stays told when more is stored.
LEMMA ToldMore ==
    ASSUME NEW st \in Seq(Episode), NEW t \in Seq(Episode), NEW cn, NEW n, Told(st, cn, n)
    PROVE  Told(st \o t, cn, n)
<1>1. PICK m \in 0..Len(st) : n = LengthOf(SubSeq(st, 1, m)) /\ cn = ToSet(SubSeq(st, 1, m))
      BY DEF Told
<1>2. Len(st) \in Nat /\ Len(t) \in Nat /\ st \o t \in Seq(Episode) /\ Len(st \o t) = Len(st) + Len(t)
      /\ \A i \in 1..Len(st) : (st \o t)[i] = st[i]
      BY Joined
<1>3. PICK u \in Seq(Episode) : u = st \o t
      BY <1>2
<1>4. PICK k \in Nat, l \in Nat : k = Len(st) /\ l = Len(u) /\ k <= l
      BY <1>2, <1>3
<1>5. m \in Nat /\ m <= k /\ m <= l /\ m \in 0..Len(u)
      BY <1>4
<1>6. SubSeq(st, 1, m) = SubSeq(u, 1, m)
  <2>1. /\ SubSeq(st, 1, m) \in Seq(Episode) /\ Len(SubSeq(st, 1, m)) = m
        /\ \A i \in 1..m : SubSeq(st, 1, m)[i] = st[i]
        BY <1>4, <1>5
  <2>2. /\ SubSeq(u, 1, m) \in Seq(Episode) /\ Len(SubSeq(u, 1, m)) = m
        /\ \A i \in 1..m : SubSeq(u, 1, m)[i] = u[i]
        BY <1>4, <1>5
  <2>3. \A i \in 1..m : st[i] = u[i]
        BY <1>2, <1>3, <1>4, <1>5
  <2> QED BY <2>1, <2>2, <2>3
<1>7. n = LengthOf(SubSeq(u, 1, m)) /\ cn = ToSet(SubSeq(u, 1, m))
      BY <1>1, <1>6
<1> QED BY <1>3, <1>5, <1>7 DEF Told

\* What is read up to the size told includes what was counted.
LEMMA ToldRead ==
    ASSUME NEW st \in Seq(Episode), \A p \in ToSet(st) : HasRows(p), NEW cn, NEW n, Told(st, cn, n)
    PROVE  cn \subseteq EpisodesBelow(st, n) /\ EpisodesBelow(st, n) \subseteq ToSet(st)
<1>1. PICK m \in 0..Len(st) : n = LengthOf(SubSeq(st, 1, m)) /\ cn = ToSet(SubSeq(st, 1, m))
      BY DEF Told
<1>2. \A i \in 1..Len(st) : HasRows(st[i])
      BY DEF ToSet
<1>3. \A i \in 0..m : LengthOf(SubSeq(st, 1, i)) <= n
      BY <1>1, <1>2, LengthRises
<1>4. PICK k \in Nat : k = Len(st)
      OBVIOUS
<1>5. m \in Nat /\ m <= k
      BY <1>4
<1>6. Len(SubSeq(st, 1, m)) = m /\ DOMAIN SubSeq(st, 1, m) = 1..m /\ \A i \in 1..m : SubSeq(st, 1, m)[i] = st[i]
      BY <1>4, <1>5
<1>7. \A i \in 1..m : i \in DOMAIN st /\ i \in 0..m
      BY <1>4, <1>5
<1>8. \A i \in 1..m : st[i] \in EpisodesBelow(st, n)
      BY <1>3, <1>7 DEF EpisodesBelow
<1>9. cn \subseteq EpisodesBelow(st, n)
      BY <1>1, <1>6, <1>8 DEF ToSet
<1> QED BY <1>9 DEF EpisodesBelow, ToSet

\* The first call is one of the rollout.
LEMMA SamplerGrows ==
    ASSUME ShardTyped, NEW s \in Shards, SamplerInv(s), mailbox[s] # <<>>, mailbox'[s] = Tail(mailbox[s]),
           Head(mailbox[s]).op \notin Sampled, NEW t, Grew(s, t), UNCHANGED <<spc, asked, shardOf>>,
           Pushed \subseteq Pushed'
    PROVE  SamplerInv(s)'
<1>1. PICK q, u : q \in Seq(Calls) /\ q = mailbox[s] /\ u = mailbox'[s] /\ u = Tail(q) /\ q # <<>>
      BY DEF ShardTyped
<1>2. Line(u) /\ \A op \in Sampled : In_(u, op) = {} <=> In_(q, op) = {}
      BY <1>1, LineRest DEF SamplerInv
<1>3. (In_(u, "get") = {} <=> In_(q, "get") = {}) /\ (In_(u, "size") = {} <=> In_(q, "size") = {})
      /\ (In_(u, "clear") = {} <=> In_(q, "clear") = {})
      BY <1>2 DEF Sampled
<1>4. sizes' = sizes /\ delivered' = delivered /\ counted' = counted
      BY DEF Grew
<1>5. Asked(s)' <=> Asked(s)
      BY DEF Asked, shards
<1>6. Asking(u, spc', Asked(s)', sizes'[s]) /\ (Sized(spc', Asked(s)', sizes'[s]) <=> Sized(spc, Asked(s), sizes[s]))
  <2>1. Asking(q, spc, Asked(s), sizes[s])
        BY <1>1 DEF SamplerInv
  <2>2. Sized(spc', Asked(s)', sizes'[s]) <=> Sized(spc, Asked(s), sizes[s])
        BY <1>4, <1>5 DEF Sized
  <2> QED BY <1>2, <1>3, <1>4, <1>5, <2>1, <2>2 DEF Asking
<1>7. Got(u, spc') <=> Got(q, spc)
      BY <1>3 DEF Got
<1>8. \A cn, n : Told(stored[s], cn, n) => Told(stored'[s], cn, n)
  <2>1. stored[s] \in Seq(Episode)
        BY DEF ShardTyped
  <2> QED BY <2>1, ToldMore DEF Grew
<1>9. \A i \in In_(u, "get") : Told(stored'[s], counted'[s], u[i].n)
  <2>1. \A i \in In_(u, "get") : i + 1 \in In_(q, "get") /\ u[i] = q[i + 1]
        BY <1>1, InRest
  <2>2. \A i \in In_(q, "get") : Told(stored[s], counted[s], q[i].n)
        BY <1>1 DEF SamplerInv
  <2> QED BY <1>4, <1>8, <2>1, <2>2
<1>10. delivered \subseteq Pushed /\ dropped \subseteq Pushed
       BY DEF Pushed
<1>11. ~Got(u, spc') => ToSet(stored'[s]) \cap delivered' = {}
  <2>1. ~Got(q, spc) => ToSet(stored[s]) \cap delivered = {}
        BY <1>1 DEF SamplerInv
  <2>2. ToSet(stored'[s]) = ToSet(stored[s]) \cup ToSet(t) /\ ToSet(t) \cap Pushed = {}
        BY DEF Grew
  <2> QED BY <1>4, <1>7, <1>10, <2>1, <2>2
<1>12. \A p \in dropped' : HasRows(p) => p \notin counted'[s] /\ p \notin ToSet(stored'[s])
  <2>1. \A p \in dropped : HasRows(p) => p \notin counted[s] /\ p \notin ToSet(stored[s])
        BY DEF SamplerInv
  <2>2. /\ ToSet(stored'[s]) = ToSet(stored[s]) \cup ToSet(t) /\ ToSet(t) \cap Pushed = {}
        /\ \A p \in dropped' : HasRows(p) => p \in dropped
        BY DEF Grew
  <2> QED BY <1>4, <1>10, <2>1, <2>2
<1>13. \A p \in counted'[s] : HasRows(p) /\ shardOf'[p.key[1]] = s /\ p \in Pushed'
       BY <1>4 DEF SamplerInv
<1>14. Got(u, spc') => counted'[s] \subseteq delivered'
       BY <1>1, <1>4, <1>7 DEF SamplerInv
<1>15. Sized(spc', Asked(s)', sizes'[s]) => Told(stored'[s], counted'[s], sizes'[s])
       BY <1>4, <1>6, <1>8 DEF SamplerInv
<1> QED BY <1>1, <1>2, <1>6, <1>9, <1>11, <1>12, <1>13, <1>14, <1>15 DEF SamplerInv, HasRows

\* What is left of the queue after a call of the sample.
LEMMA SamplerQueue ==
    ASSUME ShardTyped, NEW s \in Shards, SamplerInv(s), mailbox[s] # <<>>, mailbox'[s] = Tail(mailbox[s]),
           Head(mailbox[s]).op \in Sampled
    PROVE  LET q == mailbox[s]
               u == mailbox'[s]
           IN  /\ Line(u)
               /\ \A op \in Sampled : op # Head(q).op => (In_(u, op) = {} <=> In_(q, op) = {})
               /\ Head(q).op = "size" =>
                     /\ \A op \in Sampled : In_(u, op) = {}
                     /\ In_(q, "clear") = {} /\ spc \in Rounds /\ Asked(s)
               /\ Head(q).op = "get" =>
                     /\ Got(u, spc) /\ ~Got(q, spc) /\ In_(u, "get") = {} /\ ~Sized(spc, Asked(s), sizes[s])
                     /\ Told(stored[s], counted[s], Head(q).n)
               /\ Head(q).op = "clear" =>
                     /\ Got(q, spc) /\ spc # "clear" /\ In_(u, "get") = {}
                     /\ ~Sized(spc, Asked(s), sizes[s])
<1>1. PICK q, u : q \in Seq(Calls) /\ q = mailbox[s] /\ u = mailbox'[s] /\ u = Tail(q) /\ q # <<>>
      BY DEF ShardTyped
<1>2. /\ Line(u)
      /\ \A op : Head(q).op # op => (In_(u, op) = {} <=> In_(q, op) = {})
      /\ Head(q).op \in {"size", "get"} => In_(u, Head(q).op) = {}
      /\ Head(q).op = "size" => In_(q, "get") = {} /\ In_(q, "clear") = {}
      /\ Head(q).op = "clear" => In_(q, "get") = {}
      /\ \A op : In_(q, op) = {} => In_(u, op) = {}
      BY <1>1, LineRest DEF SamplerInv
<1>3. In_(q, Head(q).op) # {} /\ 1 \in In_(q, Head(q).op) /\ q[1] = Head(q)
      BY <1>1, InRest
<1>4. Asking(q, spc, Asked(s), sizes[s]) /\ \A i \in In_(q, "get") : Told(stored[s], counted[s], q[i].n)
      BY <1>1 DEF SamplerInv
<1>5. Sized(spc, Asked(s), sizes[s]) => Head(q).op \notin Sampled
      BY <1>3, <1>4 DEF Asking
<1>6. CASE Head(q).op = "size"
  <2>1. In_(u, "size") = {} /\ In_(u, "get") = {} /\ In_(u, "clear") = {} /\ In_(q, "clear") = {}
        BY <1>2, <1>6
  <2>2. spc \in Rounds /\ Asked(s)
        BY <1>3, <1>4, <1>6 DEF Asking
  <2> QED BY <1>1, <1>2, <1>6, <2>1, <2>2 DEF Sampled
<1>7. CASE Head(q).op = "get"
  <2>1. In_(u, "get") = {} /\ (spc = "clear" \/ In_(q, "clear") # {})
        BY <1>2, <1>3, <1>4, <1>7 DEF Asking
  <2>2. Got(u, spc) /\ ~Got(q, spc)
        BY <1>2, <1>3, <1>7, <2>1 DEF Got
  <2>3. ~Sized(spc, Asked(s), sizes[s])
        BY <1>5, <1>7 DEF Sampled
  <2>4. Told(stored[s], counted[s], Head(q).n)
        BY <1>3, <1>4, <1>7
  <2> QED BY <1>1, <1>2, <1>7, <2>1, <2>2, <2>3, <2>4
<1>8. CASE Head(q).op = "clear"
  <2>1. In_(q, "get") = {} /\ In_(u, "get") = {} /\ Got(q, spc)
        BY <1>2, <1>3, <1>8 DEF Got
  <2>2. ~Sized(spc, Asked(s), sizes[s])
        BY <1>5, <1>8 DEF Sampled
  <2>3. spc # "clear"
        BY <1>3, <1>4, <1>8 DEF Asking
  <2> QED BY <1>1, <1>2, <1>8, <2>1, <2>2, <2>3
<1> QED BY <1>1, <1>6, <1>7, <1>8 DEF Sampled

LEMMA SamplerSizes ==
    ASSUME ShardTyped, NEW s \in Shards, SamplerInv(s), mailbox[s] # <<>>, mailbox'[s] = Tail(mailbox[s]),
           NEW call, call = Head(mailbox[s]), GetSize(s, call), UNCHANGED <<spc, asked, shardOf>>,
           Pushed \subseteq Pushed'
    PROVE  SamplerInv(s)'
<1>1. PICK q, u : q = mailbox[s] /\ u = mailbox'[s]
      OBVIOUS
<1>2. /\ call.op = "size" /\ sizes' = [sizes EXCEPT ![s] = LengthOf(stored[s])]
      /\ counted' = [counted EXCEPT ![s] = ToSet(stored[s])] /\ UNCHANGED <<stored, delivered, dropped>>
      BY DEF GetSize
<1>3. /\ Line(u) /\ \A op \in Sampled : In_(u, op) = {}
      /\ In_(q, "clear") = {} /\ spc \in Rounds /\ Asked(s)
      BY <1>1, <1>2, SamplerQueue DEF Sampled
<1>4. In_(u, "get") = {} /\ In_(u, "clear") = {} /\ In_(u, "size") = {}
      BY <1>3 DEF Sampled
<1>5. sizes'[s] = LengthOf(stored[s]) /\ counted'[s] = ToSet(stored[s])
      BY <1>2 DEF ShardTyped
<1>6. Asked(s)' <=> Asked(s)
      BY DEF Asked, shards
<1>7. spc' # "clear" /\ spc' # "get"
      BY <1>3 DEF Rounds
<1>8. Asking(u, spc', Asked(s)', sizes'[s])
      BY <1>3, <1>4, <1>7 DEF Asking
<1>9. ~Got(u, spc') /\ ~Got(q, spc)
      BY <1>3, <1>4, <1>7 DEF Got
<1>10. ToSet(stored'[s]) \cap delivered' = {}
       BY <1>1, <1>2, <1>9 DEF SamplerInv
<1>11. Told(stored'[s], counted'[s], sizes'[s])
  <2>1. PICK st \in Seq(Episode) : st = stored[s]
        BY DEF ShardTyped
  <2>2. SubSeq(st, 1, Len(st)) = st /\ Len(st) \in 0..Len(st)
        OBVIOUS
  <2>3. Told(st, ToSet(st), LengthOf(st))
        BY <2>2 DEF Told
  <2> QED BY <1>2, <1>5, <2>1, <2>3
<1>12. \A p \in dropped' : HasRows(p) => p \notin counted'[s] /\ p \notin ToSet(stored'[s])
       BY <1>2, <1>5 DEF SamplerInv
<1>13. \A p \in counted'[s] : HasRows(p) /\ shardOf'[p.key[1]] = s /\ p \in Pushed'
  <2>1. \A p \in ToSet(stored[s]) : HasRows(p) /\ shardOf[p.key[1]] = s
        BY DEF ShardTyped
  <2>2. ToSet(stored[s]) \subseteq Pushed
        BY DEF Pushed
  <2> QED BY <1>5, <2>1, <2>2
<1> QED BY <1>1, <1>3, <1>4, <1>8, <1>9, <1>10, <1>11, <1>12, <1>13 DEF SamplerInv, HasRows

LEMMA SamplerGets ==
    ASSUME ShardTyped, NEW s \in Shards, SamplerInv(s), mailbox[s] # <<>>, mailbox'[s] = Tail(mailbox[s]),
           NEW call, call = Head(mailbox[s]), GetItems(s, call), UNCHANGED <<spc, asked, shardOf>>,
           Pushed \subseteq Pushed'
    PROVE  SamplerInv(s)'
<1>1. PICK q, u : q = mailbox[s] /\ u = mailbox'[s]
      OBVIOUS
<1>2. /\ call.op = "get" /\ delivered' = delivered \cup EpisodesBelow(stored[s], call.n)
      /\ UNCHANGED <<stored, sizes, dropped, counted>>
      BY DEF GetItems
<1>3. /\ Line(u) /\ \A op \in Sampled : op # "get" => (In_(u, op) = {} <=> In_(q, op) = {})
      /\ Got(u, spc) /\ In_(u, "get") = {} /\ ~Sized(spc, Asked(s), sizes[s])
      /\ Told(stored[s], counted[s], call.n)
      BY <1>1, <1>2, SamplerQueue DEF Sampled
<1>4. (In_(u, "clear") = {} <=> In_(q, "clear") = {}) /\ (In_(u, "size") = {} <=> In_(q, "size") = {})
      BY <1>3 DEF Sampled
<1>5. Asked(s)' <=> Asked(s)
      BY DEF Asked, shards
<1>6. ~Sized(spc', Asked(s)', sizes'[s])
      BY <1>2, <1>3, <1>5 DEF Sized
<1>7. Asking(u, spc', Asked(s)', sizes'[s])
  <2>1. Asking(q, spc, Asked(s), sizes[s])
        BY <1>1 DEF SamplerInv
  <2> QED BY <1>2, <1>3, <1>4, <1>5, <1>6, <2>1 DEF Asking
<1>8. counted'[s] \subseteq delivered'
  <2>1. stored[s] \in Seq(Episode) /\ \A p \in ToSet(stored[s]) : HasRows(p)
        BY DEF ShardTyped
  <2> QED BY <1>2, <1>3, <2>1, ToldRead
<1>9. \A p \in dropped' : HasRows(p) => p \notin counted'[s] /\ p \notin ToSet(stored'[s])
      BY <1>2 DEF SamplerInv
<1>10. \A p \in counted'[s] : HasRows(p) /\ shardOf'[p.key[1]] = s /\ p \in Pushed'
       BY <1>2 DEF SamplerInv
<1>11. Got(u, spc')
       BY <1>3
<1> QED BY <1>1, <1>3, <1>6, <1>7, <1>8, <1>9, <1>10, <1>11 DEF SamplerInv, HasRows

LEMMA SamplerClears ==
    ASSUME ShardTyped, NEW s \in Shards, SamplerInv(s), mailbox[s] # <<>>, mailbox'[s] = Tail(mailbox[s]),
           NEW call, call = Head(mailbox[s]), ClearShard(s, call), UNCHANGED <<spc, asked, shardOf>>,
           Pushed \subseteq Pushed'
    PROVE  SamplerInv(s)'
<1>1. PICK q, u : q = mailbox[s] /\ u = mailbox'[s]
      OBVIOUS
<1>2. /\ call.op = "clear" /\ stored' = [stored EXCEPT ![s] = <<>>]
      /\ dropped' = dropped \cup (ToSet(stored[s]) \ delivered) /\ UNCHANGED <<sizes, delivered, counted>>
      BY DEF ClearShard
<1>3. /\ Line(u) /\ \A op \in Sampled : op # "clear" => (In_(u, op) = {} <=> In_(q, op) = {})
      /\ Got(q, spc) /\ spc # "clear" /\ In_(u, "get") = {} /\ ~Sized(spc, Asked(s), sizes[s])
      BY <1>1, <1>2, SamplerQueue DEF Sampled
<1>4. In_(u, "size") = {} <=> In_(q, "size") = {}
      BY <1>3 DEF Sampled
<1>5. Asked(s)' <=> Asked(s)
      BY DEF Asked, shards
<1>6. ~Sized(spc', Asked(s)', sizes'[s])
      BY <1>2, <1>3, <1>5 DEF Sized
<1>7. Asking(u, spc', Asked(s)', sizes'[s])
  <2>1. Asking(q, spc, Asked(s), sizes[s])
        BY <1>1 DEF SamplerInv
  <2> QED BY <1>2, <1>3, <1>4, <1>5, <1>6, <2>1 DEF Asking
<1>8. counted[s] \subseteq delivered /\ counted'[s] \subseteq delivered'
      BY <1>1, <1>2, <1>3 DEF SamplerInv
<1>9. stored'[s] = <<>> /\ ToSet(stored'[s]) = {}
      BY <1>2 DEF ShardTyped, ToSet
<1>10. \A p \in dropped' : HasRows(p) => p \notin counted'[s] /\ p \notin ToSet(stored'[s])
       BY <1>2, <1>8, <1>9 DEF SamplerInv
<1>11. \A p \in counted'[s] : HasRows(p) /\ shardOf'[p.key[1]] = s /\ p \in Pushed'
       BY <1>2 DEF SamplerInv
<1> QED BY <1>1, <1>3, <1>6, <1>7, <1>8, <1>9, <1>10, <1>11 DEF SamplerInv, HasRows
-----------------------------------------------------------------------------
(***************************************************************************)
(* The same for the steps of the sampling thread.                          *)
(***************************************************************************)
\* What a shard holds is not touched.
LEMMA SamplerKept ==
    ASSUME NEW s, SamplerInv(s), UNCHANGED <<shardOf, stored, delivered, dropped, counted>>,
           NEW u, u = mailbox'[s], Line(u), Asking(u, spc', Asked(s)', sizes'[s]),
           Sized(spc', Asked(s)', sizes'[s]) => Told(stored[s], counted[s], sizes'[s]),
           \A i \in In_(u, "get") : Told(stored[s], counted[s], u[i].n),
           Got(u, spc') => counted[s] \subseteq delivered,
           ~Got(u, spc') => ToSet(stored[s]) \cap delivered = {}
    PROVE  SamplerInv(s)'
<1>1. Pushed' = Pushed
      BY DEF Pushed
<1>2. /\ \A p \in dropped : HasRows(p) => p \notin counted[s] /\ p \notin ToSet(stored[s])
      /\ \A p \in counted[s] : HasRows(p) /\ shardOf[p.key[1]] = s /\ p \in Pushed
      BY DEF SamplerInv
<1> QED BY <1>1, <1>2 DEF SamplerInv, HasRows

LEMMA SamplerStarts ==
    ASSUME ShardTyped, NEW s \in Shards, SamplerInv(s), StartSampling
    PROVE  SamplerInv(s)'
<1>1. /\ spc = "idle" /\ spc' \in {"poll", "check"} /\ asked' = 0
      /\ UNCHANGED <<mailbox, sizes, shardOf, stored, delivered, dropped, counted>>
      BY DEF StartSampling, bufferVars, fixedVars, shardVars
<1>2. ~Asked(s)'
      BY <1>1 DEF Asked
<1>3. PICK q : q = mailbox[s]
      OBVIOUS
<1>4. Line(q) /\ Asking(q, spc, Asked(s), sizes[s]) /\ \A i \in In_(q, "get") : Told(stored[s], counted[s], q[i].n)
      BY <1>3 DEF SamplerInv
<1>5. ~Sized(spc', Asked(s)', sizes'[s])
      BY <1>1, <1>2 DEF Sized
<1>6. Asking(q, spc', Asked(s)', sizes'[s])
  <2>1. In_(q, "size") = {} /\ (In_(q, "get") # {} => In_(q, "clear") # {})
        BY <1>1, <1>4 DEF Asking, Rounds
  <2> QED BY <1>1, <1>5, <2>1 DEF Asking
<1>7. Got(q, spc') <=> Got(q, spc)
      BY <1>1 DEF Got
<1>8. (Got(q, spc) => counted[s] \subseteq delivered) /\ (~Got(q, spc) => ToSet(stored[s]) \cap delivered = {})
      BY <1>3 DEF SamplerInv
<1>9. q = mailbox'[s]
      BY <1>1, <1>3
<1> QED BY <1>1, <1>4, <1>5, <1>6, <1>7, <1>8, <1>9, SamplerKept

LEMMA SamplerDecides ==
    ASSUME Typed, NEW s \in Shards, SamplerInv(s), Decide
    PROVE  SamplerInv(s)'
<1>1. /\ spc \in Rounds /\ asked = Len(shards) /\ sizes[s] >= 0 /\ asked' = 0
      /\ spc' \in {"poll", "check", "sizes", "get", "failed"}
      /\ UNCHANGED <<mailbox, sizes, shardOf, stored, delivered, dropped, counted>>
      BY DEF Decide, Rounds, bufferVars, fixedVars, shardVars
<1>2. ~Asked(s)' /\ Asked(s)
      BY <1>1, InOrder DEF Asked
<1>3. PICK q : q = mailbox[s] /\ q = mailbox'[s]
      BY <1>1
<1>4. Line(q) /\ Asking(q, spc, Asked(s), sizes[s])
      BY <1>3 DEF SamplerInv
<1>5. Sized(spc, Asked(s), sizes[s])
      BY <1>1, <1>2 DEF Sized
<1>6. In_(q, "get") = {} /\ In_(q, "size") = {} /\ In_(q, "clear") = {} /\ \A op \in Sampled : In_(q, op) = {}
      BY <1>4, <1>5 DEF Asking, Sampled
<1>7. Told(stored[s], counted[s], sizes[s])
      BY <1>5 DEF SamplerInv
<1>8. spc' # "clear" /\ spc # "clear"
      BY <1>1 DEF Rounds
<1>9. ~Got(q, spc') /\ ~Got(q, spc)
      BY <1>6, <1>8 DEF Got
<1>10. Asking(q, spc', Asked(s)', sizes'[s])
       BY <1>6, <1>8 DEF Asking
<1>11. ToSet(stored[s]) \cap delivered = {}
       BY <1>3, <1>9 DEF SamplerInv
<1> QED BY <1>1, <1>3, <1>4, <1>6, <1>7, <1>9, <1>10, <1>11, SamplerKept

\* The size of a shard is asked for.
LEMMA SamplerAsks ==
    ASSUME Typed, NEW s \in Shards, SamplerInv(s), AskSize
    PROVE  SamplerInv(s)'
<1>0. ShardTyped /\ asked \in 0..Len(shards)
      BY DEF Typed, SampleTyped
<1>1. PICK y : y = shards[asked + 1]
      OBVIOUS
<1>2. /\ spc \in Rounds /\ asked < Len(shards) /\ asked' = asked + 1 /\ spc' = spc
      /\ mailbox' = [mailbox EXCEPT ![y] = Append(@, [op |-> "size"])]
      /\ sizes' = [sizes EXCEPT ![y] = -1]
      /\ UNCHANGED <<shardOf, stored, delivered, dropped, counted>>
      BY <1>1, SMTT(30) DEF AskSize, SubmitTo, fixedVars
<1>3. PICK a \in Nat : a = asked /\ asked + 1 \in 1..Len(shards) /\ asked' = a + 1
  <2>1. PICK n \in Nat : n = Len(shards)
        BY InOrder
  <2>2. asked \in Nat /\ asked + 1 \in 1..n
        BY <1>0, <1>2, <2>1
  <2> QED BY <1>2, <2>1, <2>2
<1>4. (\A i \in 1..a : i # a + 1) /\ (\A i \in 1..(a + 1) : i \in 1..a \/ i = a + 1) /\ a + 1 \in 1..(a + 1)
      /\ \A i \in 1..a : i \in 1..(a + 1)
      OBVIOUS
<1>5. Asked(s)' <=> Asked(s) \/ s = y
      BY <1>1, <1>3, <1>4 DEF Asked, shards
<1>6. ~(\E i \in 1..asked : shards[i] = y)
  <2>1. PICK n \in Nat : n = Len(shards)
        BY InOrder
  <2>2. \A i \in 1..a : i \in 1..n
        BY <1>2, <1>3, <2>1
  <2> QED BY <1>1, <1>3, <1>4, <2>1, <2>2, InOrder
<1>7. y \in Shards
      BY <1>1, <1>3, InOrder
<1>8. PICK q, u : q = mailbox[s] /\ u = mailbox'[s] /\ q \in Seq(Calls)
      BY <1>0 DEF ShardTyped
<1>9. CASE s # y
  <2>1. u = q /\ sizes'[s] = sizes[s] /\ (Asked(s)' <=> Asked(s))
        BY <1>0, <1>2, <1>5, <1>7, <1>8, <1>9 DEF ShardTyped
  <2>2. Pushed' = Pushed
        BY <1>2 DEF Pushed
  <2> QED BY <1>2, <1>8, <2>1, <2>2, SamplerSame
<1>10. CASE s = y
  <2>1. u = Append(q, [op |-> "size"]) /\ sizes'[s] = -1
        BY <1>0, <1>2, <1>8, <1>10 DEF ShardTyped
  <2>2. Asked(s)' /\ ~Asked(s)
        BY <1>5, <1>6, <1>10 DEF Asked
  <2>3. PICK n \in Nat : n = Len(q)
        BY <1>8
  <2>4. /\ In_(u, "size") = In_(q, "size") \cup {n + 1}
        /\ In_(u, "get") = In_(q, "get") /\ In_(u, "clear") = In_(q, "clear")
        /\ \A op : \A i \in In_(q, op) : i < n + 1 /\ u[i] = q[i]
    <3>1. PICK c \in Calls : c = [op |-> "size"] /\ c.op = "size"
          BY SizeCall
    <3>2. /\ \A op : In_(Append(q, c), op) = In_(q, op) \cup (IF c.op = op THEN {n + 1} ELSE {})
          /\ \A i \in DOMAIN q : Append(q, c)[i] = q[i] /\ i < n + 1
          /\ \A op : \A i \in In_(q, op) : i \in DOMAIN q
          BY <1>8, <2>3, <3>1, InOne
    <3> QED BY <2>1, <3>1, <3>2
  <2>5. Line(q) /\ Asking(q, spc, Asked(s), sizes[s]) /\ \A i \in In_(q, "get") : Told(stored[s], counted[s], q[i].n)
        BY <1>8 DEF SamplerInv
  <2>6. In_(q, "size") = {}
        BY <2>2, <2>5 DEF Asking
  <2>7. Line(u)
        BY <2>4, <2>5, <2>6 DEF Line
  <2>8. spc # "clear" /\ spc # "get"
        BY <1>2 DEF Rounds
  <2>9. ~Sized(spc', Asked(s)', sizes'[s])
        BY <1>2, <2>1, <2>8 DEF Sized
  <2>10. Asking(u, spc', Asked(s)', sizes'[s])
    <3>1. In_(u, "get") # {} => In_(u, "clear") # {}
          BY <2>4, <2>5, <2>8 DEF Asking
    <3> QED BY <1>2, <2>1, <2>2, <2>8, <2>9, <3>1 DEF Asking
  <2>11. Got(u, spc') <=> Got(q, spc)
         BY <1>2, <2>4 DEF Got
  <2>12. (Got(q, spc) => counted[s] \subseteq delivered) /\ (~Got(q, spc) => ToSet(stored[s]) \cap delivered = {})
         BY <1>8 DEF SamplerInv
  <2>13. \A i \in In_(u, "get") : Told(stored[s], counted[s], u[i].n)
         BY <2>4, <2>5
  <2> QED BY <1>2, <1>8, <2>7, <2>9, <2>10, <2>11, <2>12, <2>13, SamplerKept
<1> QED BY <1>9, <1>10

\* The dataset is asked for, and then all is cleared.
LEMMA SamplerReads ==
    ASSUME Typed, NEW s \in Shards, SamplerInv(s), Get \/ Clear
    PROVE  SamplerInv(s)'
<1>0. ShardTyped
      BY DEF Typed
<1>1. /\ asked' = asked /\ UNCHANGED <<sizes, shardOf, stored, delivered, dropped, counted>>
      BY DEF Get, Clear, fixedVars, shardVars
<1>2. Asked(s)' <=> Asked(s)
      BY <1>1 DEF Asked, shards
<1>3. PICK q, u : q = mailbox[s] /\ u = mailbox'[s] /\ q \in Seq(Calls)
      BY <1>0 DEF ShardTyped
<1>4. PICK n \in Nat : n = Len(q)
      BY <1>3
<1>5. Line(q) /\ Asking(q, spc, Asked(s), sizes[s]) /\ \A i \in In_(q, "get") : Told(stored[s], counted[s], q[i].n)
      BY <1>3 DEF SamplerInv
<1>6. (Got(q, spc) => counted[s] \subseteq delivered) /\ (~Got(q, spc) => ToSet(stored[s]) \cap delivered = {})
      BY <1>3 DEF SamplerInv
<1>7. ASSUME NEW c \in Calls
      PROVE  /\ \A op : In_(Append(q, c), op) = In_(q, op) \cup (IF c.op = op THEN {n + 1} ELSE {})
             /\ \A op : \A i \in In_(q, op) : i < n + 1 /\ Append(q, c)[i] = q[i]
             /\ Append(q, c)[n + 1] = c
      BY <1>3, <1>4, InOne
<1>8. CASE Get
  <2>1. /\ spc = "get" /\ spc' = "clear" /\ mailbox' = [x \in Shards |-> Append(mailbox[x], [op |-> "get", n |-> sizes[x]])]
        BY <1>8 DEF Get, SubmitToAll
  <2>2. PICK c : c = [op |-> "get", n |-> sizes[s]]
        OBVIOUS
  <2>3. c \in Calls /\ c.op = "get" /\ c.n = sizes[s]
    <3>1. sizes[s] \in Int
          BY <1>0 DEF ShardTyped
    <3>2. c \in [op : {"get"}, n : Int]
          BY <2>2, <3>1
    <3> QED BY <2>2, <3>2 DEF Calls
  <2>4. u = Append(q, c)
        BY <1>3, <2>1, <2>2
  <2>5. Sized(spc, Asked(s), sizes[s])
        BY <2>1 DEF Sized
  <2>6. In_(q, "get") = {} /\ In_(q, "size") = {} /\ In_(q, "clear") = {}
        BY <1>5, <2>5 DEF Asking, Sampled
  <2>7. In_(u, "get") = {n + 1} /\ In_(u, "size") = {} /\ In_(u, "clear") = {} /\ u[n + 1] = c
    <3>1. /\ In_(u, "get") = In_(q, "get") \cup (IF c.op = "get" THEN {n + 1} ELSE {})
          /\ In_(u, "size") = In_(q, "size") \cup (IF c.op = "size" THEN {n + 1} ELSE {})
          /\ In_(u, "clear") = In_(q, "clear") \cup (IF c.op = "clear" THEN {n + 1} ELSE {})
          /\ u[n + 1] = c
          BY <1>7, <2>3, <2>4
    <3> QED BY <2>3, <2>6, <3>1
  <2>8. Line(u)
        BY <2>7 DEF Line
  <2>9. ~Sized(spc', Asked(s)', sizes'[s])
        BY <2>1 DEF Sized, Rounds
  <2>10. Asking(u, spc', Asked(s)', sizes'[s])
         BY <2>1, <2>7, <2>9 DEF Asking
  <2>11. Told(stored[s], counted[s], sizes[s])
         BY <2>5 DEF SamplerInv
  <2>12. \A i \in In_(u, "get") : Told(stored[s], counted[s], u[i].n)
         BY <2>3, <2>7, <2>11
  <2>13. ~Got(q, spc) /\ ~Got(u, spc')
         BY <2>1, <2>6, <2>7 DEF Got
  <2> QED BY <1>1, <1>3, <1>6, <2>8, <2>9, <2>10, <2>12, <2>13, SamplerKept
<1>9. CASE Clear
  <2>1. /\ spc = "clear" /\ spc' = "idle" /\ mailbox' = [x \in Shards |-> Append(mailbox[x], [op |-> "clear"])]
        BY <1>9 DEF Clear, SubmitToAll
  <2>2. PICK c \in Calls : c = [op |-> "clear"] /\ c.op = "clear"
        BY SizeCall
  <2>3. u = Append(q, c)
        BY <1>3, <2>1, <2>2
  <2>4. In_(q, "size") = {}
        BY <1>5, <2>1 DEF Asking
  <2>5. /\ In_(u, "get") = In_(q, "get") /\ In_(u, "size") = {} /\ In_(u, "clear") = In_(q, "clear") \cup {n + 1}
        /\ \A i \in In_(q, "get") : i < n + 1 /\ u[i] = q[i]
    <3>1. /\ In_(u, "get") = In_(q, "get") \cup (IF c.op = "get" THEN {n + 1} ELSE {})
          /\ In_(u, "size") = In_(q, "size") \cup (IF c.op = "size" THEN {n + 1} ELSE {})
          /\ In_(u, "clear") = In_(q, "clear") \cup (IF c.op = "clear" THEN {n + 1} ELSE {})
          BY <1>7, <2>3
    <3>2. \A op : \A i \in In_(q, op) : i < n + 1 /\ Append(q, c)[i] = q[i]
          BY <1>7
    <3>4. \A op : \A i \in In_(q, op) : i < n + 1 /\ u[i] = q[i]
          BY <2>3, <3>2
    <3> QED BY <2>2, <2>4, <3>1, <3>4
  <2>6. Line(u)
        BY <1>5, <2>5 DEF Line
  <2>7. ~Sized(spc', Asked(s)', sizes'[s])
        BY <2>1 DEF Sized, Rounds
  <2>8. Asking(u, spc', Asked(s)', sizes'[s])
        BY <2>1, <2>5, <2>7 DEF Asking
  <2>9. \A i \in In_(u, "get") : Told(stored[s], counted[s], u[i].n)
        BY <1>5, <2>5
  <2>10. Got(u, spc') <=> Got(q, spc)
         BY <2>1, <2>5 DEF Got
  <2> QED BY <1>1, <1>3, <1>6, <2>6, <2>7, <2>8, <2>9, <2>10, SamplerKept
<1> QED BY <1>8, <1>9

LEMMA SamplerSteps ==
    ASSUME Typed, NEW s \in Shards, SamplerInv(s), Sampling
    PROVE  SamplerInv(s)'
BY SamplerStarts, SamplerDecides, SamplerAsks, SamplerReads DEF Sampling, Typed
-----------------------------------------------------------------------------
(***************************************************************************)
(* A shard executes a call.                                                *)
(***************************************************************************)
LEMMA SamplerExecutes ==
    ASSUME ShardTyped, NoAutoRsl, NEW y \in Shards, Execute(y), NEW call \in Calls, call = Head(mailbox[y]),
           Placed(y, call), NEW x \in BOOLEAN, x = inAutoReset, Turn(x, call), Pushed \subseteq Pushed',
           UNCHANGED <<spc, asked>>, NEW s \in Shards, SamplerInv(s)
    PROVE  SamplerInv(s)'
<1>1. /\ mailbox[y] # <<>> /\ mailbox' = [mailbox EXCEPT ![y] = Tail(@)] /\ shardOf' = shardOf
      BY DEF Execute, fixedVars
<1>2. mailbox'[y] = Tail(mailbox[y]) /\ \A z \in Shards : z # y => mailbox'[z] = mailbox[z]
      BY <1>1 DEF ShardTyped
<1>3. Asked(s)' <=> Asked(s)
      BY Zenon DEF Asked, shards
<1>4. call.op \notin Sampled => \E t : Grew(y, t)
      BY ShardGrows DEF Sampled
<1>5. \/ call.op \notin Sampled \/ GetSize(y, call) \/ GetItems(y, call) \/ ClearShard(y, call)
      BY DEF Execute, AddPair, AddReturn, AddResponse, Truncate, Sampled
<1>6. CASE s = y
  <2>1. CASE call.op \notin Sampled
        BY <1>1, <1>2, <1>4, <1>6, <2>1, SamplerGrows
  <2>2. CASE GetSize(y, call)
        BY <1>1, <1>2, <1>6, <2>2, SamplerSizes
  <2>3. CASE GetItems(y, call)
        BY <1>1, <1>2, <1>6, <2>3, SamplerGets
  <2>4. CASE ClearShard(y, call)
        BY <1>1, <1>2, <1>6, <2>4, SamplerClears
  <2> QED BY <1>5, <2>1, <2>2, <2>3, <2>4
<1>7. CASE s # y
  <2>1. /\ \A p \in ToSet(stored[y]) : shardOf[p.key[1]] = y
        /\ \A p \in ToSet(stored[s]) : shardOf[p.key[1]] = s
        BY DEF ShardTyped
  <2>2. \A p \in counted[s] : shardOf[p.key[1]] = s
        BY DEF SamplerInv
  <2>3. \A p \in ToSet(stored[y]) : p \notin counted[s] /\ p \notin ToSet(stored[s])
        BY <1>7, <2>1, <2>2
  <2>4. /\ stored'[s] = stored[s] /\ sizes'[s] = sizes[s] /\ counted'[s] = counted[s] /\ delivered \subseteq delivered'
        /\ \A p \in delivered' : p \in delivered \/ p \in ToSet(stored[y])
        /\ \A p \in dropped' : HasRows(p) => p \in dropped \/ p \in ToSet(stored[y])
    <3>1. CASE call.op \notin Sampled
          BY <1>4, <1>7, <3>1 DEF Grew
    <3>2. CASE GetSize(y, call)
          BY <1>7, <3>2 DEF GetSize, ShardTyped
    <3>3. CASE GetItems(y, call)
      <4>1. EpisodesBelow(stored[y], call.n) \subseteq ToSet(stored[y])
            BY DEF EpisodesBelow, ToSet
      <4> QED BY <3>3, <4>1 DEF GetItems
    <3>4. CASE ClearShard(y, call)
          BY <1>7, <3>4 DEF ClearShard, ShardTyped
    <3> QED BY <1>5, <3>1, <3>2, <3>3, <3>4
  <2>5. \A p \in delivered' : p \in delivered \/ p \notin ToSet(stored[s])
        BY <2>3, <2>4
  <2>6. \A p \in dropped' : HasRows(p) => p \in dropped \/ (p \notin counted[s] /\ p \notin ToSet(stored[s]))
        BY <2>3, <2>4
  <2>7. mailbox'[s] = mailbox[s]
        BY <1>2, <1>7
  <2> QED BY <1>1, <1>3, <2>4, <2>5, <2>6, <2>7, SamplerSame
<1> QED BY <1>6, <1>7

\* All of it, for one environment: stance a at its shard, b for what was submitted.
PipedFrom(e, a, b) ==
    /\ a \in Stances(inAutoReset, e) /\ b \in Stances(inAutoReset, e)
    /\ NoAutoRsl => AtShard(e, a) /\ Pure(e) /\ PastKept(e, b)
    /\ Leads(inAutoReset, e, a, mailbox[shardOf[e]], b)
    /\ AtFront(e, b)

Piped(e) == \E a, b : PipedFrom(e, a, b)

IInv ==
    /\ Typed
    /\ \A e \in Envs : Piped(e)
    /\ NoAutoRsl => \A s \in Shards : SamplerInv(s)

\* The call at the head of a queue is the next for every environment.
LEMMA CallNext ==
    ASSUME ShardTyped, NEW s \in Shards, mailbox[s] # <<>>, NEW call, call = Head(mailbox[s]), Placed(s, call),
           mailbox'[s] = Tail(mailbox[s]), \A y \in Shards : y # s => mailbox'[y] = mailbox[y],
           NEW x, NEW e \in Envs, NEW a \in Stances(x, e), NEW b, Leads(x, e, a, mailbox[shardOf[e]], b)
    PROVE  \E d \in Stances(x, e) : Does(x, e, a, call, d) /\ Leads(x, e, d, mailbox'[shardOf[e]], b)
<1>1. shardOf[e] \in Shards /\ mailbox[s] \in Seq(Calls)
      BY DEF ShardTyped
<1>2. CASE shardOf[e] = s
      BY <1>1, <1>2, LeadsNext
<1>3. CASE shardOf[e] # s
  <2>1. ~Concerns(e, call)
        BY <1>3 DEF Placed, Concerns, ToSet
  <2>2. Does(x, e, a, call, a)
        BY <2>1 DEF Does
  <2> QED BY <1>1, <1>3, <2>2
<1> QED BY <1>2, <1>3

LEMMA ExecuteNext ==
    ASSUME IInv, NEW s \in Shards, ExecuteCall(s), Typed'
    PROVE  IInv'
<1>0. /\ ShardTyped /\ \A e \in Envs : Piped(e)
      /\ NoAutoRsl => \A y \in Shards : SamplerInv(y)
      BY DEF IInv, Typed
<1>1. Execute(s) /\ UNCHANGED <<envVars, rolloutVars, samplerVars>>
      BY DEF ExecuteCall
<1>2. /\ UNCHANGED <<loop, pc, batch, flags, iter, taken, last, position, counter, task, result, spc, asked>>
      /\ mailbox[s] # <<>> /\ mailbox' = [mailbox EXCEPT ![s] = Tail(@)] /\ UNCHANGED <<auto, shardOf>>
      BY <1>1 DEF Execute, envVars, rolloutVars, samplerVars, fixedVars
<1>3. mailbox'[s] = Tail(mailbox[s]) /\ (\A y \in Shards : y # s => mailbox'[y] = mailbox[y])
      /\ mailbox[s] \in Seq(Calls)
      BY <1>0, <1>2 DEF ShardTyped
<1>4. PICK x \in BOOLEAN : x = inAutoReset /\ x = inAutoReset'
      BY <1>2 DEF inAutoReset
<1>5. PICK call \in Calls : call = Head(mailbox[s]) /\ Placed(s, call)
  <2>1. PICK q \in Seq(Calls) : q = mailbox[s] /\ q # <<>>
        BY <1>2, <1>3
  <2>2. Head(q) \in Calls /\ Head(q) \in ToSet(q)
    <3>1. PICK n \in Nat : n = Len(q)
          OBVIOUS
    <3>2. n > 0 /\ DOMAIN q = 1..n /\ Head(q) = q[1] /\ 1 \in 1..n
          BY <2>1, <3>1
    <3> QED BY <2>1, <3>2 DEF ToSet
  <2> QED BY <1>0, <2>1, <2>2 DEF ShardTyped
<1>6. ASSUME NEW e \in Envs, NEW a, NEW b, PipedFrom(e, a, b)
      PROVE  \E d \in Stances(x, e) : Does(x, e, a, call, d) /\ Leads(x, e, d, mailbox'[shardOf[e]], b)
  <2>1. a \in Stances(x, e) /\ Leads(x, e, a, mailbox[shardOf[e]], b)
        BY <1>4, <1>6 DEF PipedFrom
  <2> QED BY <1>0, <1>2, <1>3, <1>5, <2>1, CallNext
<1>7. NoAutoRsl' <=> NoAutoRsl
      BY <1>2 DEF NoAutoRsl
<1>8. ASSUME NoAutoRsl PROVE Turn(x, call)
  <2> SUFFICES ASSUME NEW e \in Envs PROVE \E a, d \in Stances(x, e) : AtShard(e, a) /\ Does(x, e, a, call, d)
      BY DEF Turn
  <2>1. PICK a, b : PipedFrom(e, a, b)
        BY <1>0 DEF Piped
  <2>2. a \in Stances(x, e) /\ AtShard(e, a)
        BY <1>4, <1>8, <2>1 DEF PipedFrom
  <2> QED BY <1>6, <2>1, <2>2
<1>9. ASSUME NoAutoRsl PROVE call.op = "truncate" => \A f \in ToSet(call.envs) : Full_(f)
      BY <1>4, <1>8, <1>9, TurnFull
<1>10. ASSUME NEW e \in Envs PROVE Piped(e)' /\ (NoAutoRsl => Pushed \subseteq Pushed')
  <2>1. PICK a, b : PipedFrom(e, a, b)
        BY <1>0 DEF Piped
  <2>2. PICK d \in Stances(x, e) : Does(x, e, a, call, d) /\ Leads(x, e, d, mailbox'[shardOf[e]], b)
        BY <1>6, <2>1
  <2>3. /\ a \in Stances(x, e) /\ b \in Stances(x, e) /\ AtFront(e, b)
        /\ NoAutoRsl => AtShard(e, a) /\ Pure(e) /\ PastKept(e, b)
        BY <1>4, <2>1 DEF PipedFrom
  <2>4. AtFront(e, b)'
        BY <1>2, <2>3, FrontSame
  <2>5. ASSUME NoAutoRsl
        PROVE  /\ Keeps(e, d) /\ torn \subseteq torn' /\ Pushed \subseteq Pushed'
               /\ call.op \in {"pair", "response"} /\ call.ret.env = e /\ ~Broken(e)' =>
                    \A k \in ToSet(KeysOf(e)) : call.ret \in Held(k)'
        BY <1>0, <1>1, <1>2, <1>4, <1>5, <1>9, <2>2, <2>3, <2>5, ExecuteKeeps
  <2>6. ASSUME NoAutoRsl PROVE PastKept(e, b)'
    <3>1. ~Broken(e)' => \A k \in ToSet(KeysOf(e)) : Held(k) \subseteq Held(k)'
          BY <2>5, <2>6 DEF Keeps
    <3> QED BY <1>0, <1>2, <1>3, <1>5, <2>3, <2>5, <2>6, <3>1, PastExecuted
  <2>7. NoAutoRsl => AtShard(e, d)' /\ Pure(e)' /\ PastKept(e, b)'
        BY <2>5, <2>6 DEF Keeps
  <2>8. \E aa, bb :
           /\ aa \in Stances(inAutoReset', e) /\ bb \in Stances(inAutoReset', e)
           /\ NoAutoRsl' => AtShard(e, aa)' /\ Pure(e)' /\ PastKept(e, bb)'
           /\ Leads(inAutoReset', e, aa, mailbox'[shardOf'[e]], bb)
           /\ AtFront(e, bb)'
        BY <1>2, <1>4, <1>7, <2>2, <2>3, <2>4, <2>7
  <2> QED BY <2>5, <2>8 DEF Piped, PipedFrom
<1>11. ASSUME NoAutoRsl, NEW y \in Shards PROVE SamplerInv(y)'
  <2>1. Pushed \subseteq Pushed'
        BY <1>10, <1>11, EnvsAssumption
  <2>2. SamplerInv(y)
        BY <1>0, <1>11
  <2> QED BY <1>0, <1>1, <1>2, <1>4, <1>5, <1>8, <1>11, <2>1, <2>2, SamplerExecutes
<1> QED BY <1>7, <1>10, <1>11 DEF IInv
-----------------------------------------------------------------------------
(***************************************************************************)
(* Every other step.                                                       *)
(***************************************************************************)
Other == Rolling \/ Sampling \/ (\E f \in Envs : FinishTask(f)) \/ Stop \/ UNCHANGED vars

\* What waits at the shards stays there, and they hold what they held.
LEMMA QueuesGrow ==
    ASSUME Typed, pc = "truncate" => loop = "rsl", Other
    PROVE  /\ UNCHANGED <<auto, shardOf, loop, current, active, stored, delivered, dropped, counted, torn>>
           /\ \A s \in Shards : ToSet(mailbox[s]) \subseteq ToSet(mailbox'[s])
<1>0. \A s \in Shards : mailbox[s] \in Seq(Calls)
      BY DEF Typed, ShardTyped
<1>1. UNCHANGED <<auto, shardOf, loop>>
      BY Constant DEF Other, Next, vars, bufferVars, fixedVars, rolloutVars
<1>2. CASE Rolling
  <2>1. (\A s \in Shards : Rolls(s)) /\ UNCHANGED shardVars
        BY <1>2, RollingQueues
  <2>2. \A s \in Shards : ToSet(mailbox[s]) \subseteq ToSet(mailbox'[s])
        BY <1>0, <2>1, InMore DEF Rolls
  <2> QED BY <1>1, <2>1, <2>2 DEF shardVars
<1>3. CASE (\E f \in Envs : FinishTask(f)) \/ Stop \/ UNCHANGED vars \/ StartSampling \/ Decide
  <2>1. UNCHANGED bufferVars
        BY <1>3 DEF FinishTask, Stop, StartSampling, Decide, vars
  <2> QED BY <1>1, <2>1 DEF bufferVars, shardVars
<1>4. \A s \in Shards, c \in Calls : ToSet(mailbox[s]) \subseteq ToSet(Append(mailbox[s], c))
      BY <1>0, InOne
<1>5. CASE AskSize
  <2>1. UNCHANGED <<current, active, stored, delivered, dropped, counted, torn>>
        BY <1>5 DEF AskSize
  <2>2. PICK c \in Calls : c = [op |-> "size"]
        BY SizeCall
  <2>3. mailbox' = [mailbox EXCEPT ![shards[asked + 1]] = Append(@, c)]
        BY <1>5, <2>2 DEF AskSize, SubmitTo
  <2>4. \A s \in Shards : mailbox'[s] = mailbox[s] \/ mailbox'[s] = Append(mailbox[s], c)
        BY <2>3 DEF Typed, ShardTyped
  <2> QED BY <1>1, <1>4, <2>1, <2>2, <2>4
<1>6. CASE Get
  <2>1. UNCHANGED shardVars /\ mailbox' = [x \in Shards |-> Append(mailbox[x], [op |-> "get", n |-> sizes[x]])]
        BY <1>6 DEF Get, SubmitToAll
  <2>2. ASSUME NEW s \in Shards PROVE ToSet(mailbox[s]) \subseteq ToSet(mailbox'[s])
    <3>1. PICK c : c = [op |-> "get", n |-> sizes[s]]
          OBVIOUS
    <3>2. sizes[s] \in Int
          BY DEF Typed, ShardTyped
    <3>3. c \in [op : {"get"}, n : Int]
          BY <3>1, <3>2
    <3>4. c \in Calls
          BY <3>3 DEF Calls
    <3>5. mailbox'[s] = Append(mailbox[s], c)
          BY <2>1, <3>1
    <3> QED BY <1>4, <3>4, <3>5
  <2> QED BY <1>1, <2>1, <2>2 DEF shardVars
<1>7. CASE Clear
  <2>1. UNCHANGED shardVars /\ mailbox' = [x \in Shards |-> Append(mailbox[x], [op |-> "clear"])]
        BY <1>7 DEF Clear, SubmitToAll
  <2>2. PICK c \in Calls : c = [op |-> "clear"]
        BY SizeCall
  <2>3. \A s \in Shards : mailbox'[s] = Append(mailbox[s], c)
        BY <2>1, <2>2
  <2> QED BY <1>1, <1>4, <2>1, <2>2, <2>3 DEF shardVars
<1> QED BY <1>2, <1>3, <1>5, <1>6, <1>7 DEF Other, Sampling

LEMMA OtherNext ==
    ASSUME IInv, Other, Typed', pc = "truncate" => loop = "rsl"
    PROVE  IInv'
<1>0. /\ Typed /\ ShardTyped /\ ShardTyped' /\ \A e \in Envs : Piped(e)
      /\ NoAutoRsl => \A y \in Shards : SamplerInv(y)
      BY DEF IInv, Typed
<1>1. /\ UNCHANGED <<auto, shardOf, loop, current, active, stored, delivered, dropped, counted, torn>>
      /\ \A s \in Shards : ToSet(mailbox[s]) \subseteq ToSet(mailbox'[s])
      BY <1>0, QueuesGrow
<1>2. PICK x \in BOOLEAN : x = inAutoReset /\ x = inAutoReset'
      BY <1>1 DEF inAutoReset
<1>3. (NoAutoRsl' <=> NoAutoRsl) /\ Pushed' = Pushed
      BY <1>1 DEF NoAutoRsl, Pushed
<1>4. ASSUME NEW e \in Envs PROVE Piped(e)'
  <2>1. PICK a, b : PipedFrom(e, a, b)
        BY <1>0 DEF Piped
  <2>2. /\ a \in Stances(x, e) /\ b \in Stances(x, e) /\ AtFront(e, b)
        /\ NoAutoRsl => AtShard(e, a) /\ Pure(e) /\ PastKept(e, b)
        /\ Leads(x, e, a, mailbox[shardOf[e]], b)
        BY <1>2, <2>1 DEF PipedFrom
  <2>3. PICK d \in Stances(x, e) : Extends(x, e, b, d) /\ AtFront(e, d)'
    <3>1. CASE UNCHANGED vars
      <4>1. UNCHANGED <<mailbox, loop, pc, batch, flags, iter, taken, last, position, counter, task, result>>
            BY <3>1 DEF vars, bufferVars, rolloutVars, envVars
      <4> QED BY <1>0, <2>2, <4>1, ExtendsNot, FrontSame
    <3> QED BY <1>0, <1>2, <2>2, <3>1, NextFront DEF Other
  <2>4. PICK q \in Seq(Calls) : mailbox'[shardOf[e]] = mailbox[shardOf[e]] \o q /\ Leads(x, e, b, q, d)
        BY <2>3 DEF Extends
  <2>5. mailbox[shardOf[e]] \in Seq(Calls)
        BY <1>0 DEF ShardTyped
  <2>6. Leads(x, e, a, mailbox'[shardOf[e]], d)
        BY <2>2, <2>4, <2>5, LeadsOn
  <2>7. ASSUME NoAutoRsl PROVE AtShard(e, a)' /\ Pure(e)' /\ PastKept(e, d)'
    <3>1. \A k \in ToSet(KeysOf(e)) : active'[k] = active[k] /\ k[1] = e
          BY <1>1, OwnKeys
    <3>2. Keeps(e, a)
          BY <1>1, <1>3, <2>2, <2>7, <3>1, KeepsSame
    <3>3. PastKept(e, d)'
          BY <1>0, <1>1, <2>2, <2>3, <2>7, PastExtended
    <3> QED BY <3>2, <3>3 DEF Keeps
  <2>8. \E aa, bb :
           /\ aa \in Stances(inAutoReset', e) /\ bb \in Stances(inAutoReset', e)
           /\ NoAutoRsl' => AtShard(e, aa)' /\ Pure(e)' /\ PastKept(e, bb)'
           /\ Leads(inAutoReset', e, aa, mailbox'[shardOf'[e]], bb)
           /\ AtFront(e, bb)'
        BY <1>1, <1>2, <1>3, <2>2, <2>3, <2>6, <2>7
  <2> QED BY <2>8 DEF Piped, PipedFrom
<1>5. ASSUME NoAutoRsl, NEW s \in Shards PROVE SamplerInv(s)'
  <2>1. SamplerInv(s)
        BY <1>0, <1>5
  <2>2. CASE Rolling
    <3>1. Rolls(s) /\ UNCHANGED <<fixedVars, shardVars, samplerVars>>
          BY <1>0, <2>2, RollingQueues
    <3> QED BY <1>0, <2>1, <3>1, SamplerRolls
  <2>3. CASE Sampling
        BY <1>0, <2>1, <2>3, SamplerSteps
  <2>4. CASE (\E f \in Envs : FinishTask(f)) \/ Stop \/ UNCHANGED vars
    <3>1. UNCHANGED <<mailbox, sizes, spc, asked>>
          BY <2>4 DEF FinishTask, Stop, bufferVars, shardVars, samplerVars, vars
    <3>2. Asked(s)' <=> Asked(s)
          BY <3>1 DEF Asked, shards
    <3> QED BY <1>1, <1>3, <2>1, <3>1, <3>2, SamplerSame
  <2> QED BY <2>2, <2>3, <2>4 DEF Other
<1> QED BY <1>3, <1>4, <1>5 DEF IInv

-----------------------------------------------------------------------------
(***************************************************************************)
(* The invariant.                                                          *)
(***************************************************************************)
LEMMA InitPiped == ASSUME Init, NEW e \in Envs PROVE Piped(e)
<1>1. /\ EnvInit /\ BufferInit /\ pc = "reset" /\ batch = Empty /\ flags = {} /\ iter = 0
      /\ taken = [f \in Envs |-> 0] /\ last = Empty /\ spc = "idle" /\ asked = 0
      /\ loop \in {"sync", "rsl", "async"}
      BY ConfigsAssumption DEF Init
<1>2. /\ counter[e] = -1 /\ task[e] = "none" /\ result[e] = {} /\ position[e] = [resets |-> 0, steps |-> 0]
      BY <1>1 DEF EnvInit
<1>3. /\ shardOf[e] \in Shards /\ mailbox[shardOf[e]] = <<>> /\ active = [k \in AllKeys |-> <<>>]
      /\ Pushed = {}
  <2>1. shardOf[e] \in Shards
        BY <1>1, TableComplete DEF BufferInit
  <2>2. stored = [s \in Shards |-> <<>>] /\ delivered = {} /\ dropped = {}
        BY <1>1 DEF BufferInit
  <2>3. Pushed = {}
        BY <2>2 DEF Pushed, ToSet
  <2> QED BY <1>1, <2>1, <2>3 DEF BufferInit
<1>4. PICK x \in BOOLEAN : x = inAutoReset
      BY DEF inAutoReset
<1>5. PICK r : r = ReturnOf(e, [resets |-> 0, steps |-> 0], {})
      OBVIOUS
<1>6. r \in Returns /\ r.env = e /\ r.resets = 0 /\ r.steps = 0
  <2>1. r = [env |-> e, resets |-> 0, steps |-> 0, ended |-> {}]
        BY <1>5 DEF ReturnOf
  <2> QED BY <2>1 DEF Returns
<1>7. PICK a : a = [row |-> r, cur |-> r, phase |-> "return", closed |-> TRUE]
      OBVIOUS
<1>8. a.row = r /\ a.cur = r /\ a.phase = "return" /\ a.closed = TRUE /\ a \in Records
      BY <1>6, <1>7 DEF Records, Phases
<1>9. a \in Stances(x, e)
      BY <1>6, <1>8 DEF Stances, Sound
<1>10. AtFront(e, a)
  <2>1. At(a.row) = position[e]
        BY <1>2, <1>6, <1>8 DEF At
  <2>2. InRange(e)
        BY <1>1, <1>2, Counts DEF InRange
  <2>3. e \notin DOMAIN last /\ taken[e] = 0
        BY <1>1 DEF Empty
  <2>4. Idle(e) /\ Rests(e, a)
        BY <1>2, <1>8, <2>1 DEF Idle, Rests
  <2>5. SyncFront(e, a)
        BY <1>1, <1>8, <2>4 DEF SyncFront
  <2>6. AsyncFront(e, a)
        BY <1>1, <1>8, <2>4 DEF AsyncFront
  <2>7. RslFront(e, a)
        BY <1>1, <1>2, <1>6, <1>8, <2>3, <2>4 DEF RslFront
  <2> QED BY <2>2, <2>5, <2>6, <2>7 DEF AtFront
<1>11. AtShard(e, a)
  <2>1. \A k \in ToSet(KeysOf(e)) : active[k] = <<>>
        BY <1>3, OwnKeys
  <2>2. \A k : RunOf(k, <<>>)
        BY DEF RunOf
  <2>3. Rising(<<>>) /\ Len(<<>>) = 0
        BY DEF Rising
  <2> QED BY <1>3, <1>8, <2>1, <2>2, <2>3 DEF AtShard, OpenWhole, OpenOrdered, PushedOrdered
<1>12. Pure(e) /\ PastKept(e, a)
  <2>1. Past(a) = {}
        BY <1>6, <1>8 DEF Past
  <2> QED BY <1>3, <2>1 DEF Pure, PastKept
<1>13. Leads(x, e, a, mailbox[shardOf[e]], a)
  <2>1. <<>> \in Seq(Calls) /\ DOMAIN <<>> = {}
        OBVIOUS
  <2> QED BY <1>3, <1>9, <2>1, LeadsNowhere
<1> QED BY <1>4, <1>9, <1>10, <1>11, <1>12, <1>13 DEF Piped, PipedFrom

LEMMA InitSampler == ASSUME Init, NEW s \in Shards PROVE SamplerInv(s)
<1>1. /\ mailbox[s] = <<>> /\ stored[s] = <<>> /\ delivered = {} /\ dropped = {} /\ counted[s] = {}
      /\ spc = "idle" /\ asked = 0
      BY DEF Init, BufferInit
<1>2. \A op : In_(mailbox[s], op) = {}
      BY <1>1 DEF In_
<1>3. ~Asked(s)
      BY <1>1 DEF Asked
<1>4. ~Sized(spc, Asked(s), sizes[s])
      BY <1>1, <1>3 DEF Sized
<1>5. Line(mailbox[s])
      BY <1>2 DEF Line
<1>6. Asking(mailbox[s], spc, Asked(s), sizes[s])
      BY <1>1, <1>2, <1>4 DEF Asking
<1> QED BY <1>1, <1>2, <1>4, <1>5, <1>6 DEF SamplerInv

LEMMA InitInv == Init => IInv
BY InitTyped, InitPiped, InitSampler DEF IInv

LEMMA Truncating == IInv => (pc = "truncate" => loop = "rsl")
<1> SUFFICES ASSUME IInv PROVE pc = "truncate" => loop = "rsl"
    OBVIOUS
<1>1. PICK e \in Envs : Piped(e)
      BY EnvsAssumption DEF IInv
<1> QED BY <1>1, Where DEF IInv, Piped, PipedFrom

LEMMA NextInv == IInv /\ [Next]_vars => IInv'
<1> SUFFICES ASSUME IInv, [Next]_vars PROVE IInv'
    OBVIOUS
<1>1. Typed /\ (pc = "truncate" => loop = "rsl")
      BY Truncating DEF IInv
<1>2. Typed'
      BY <1>1, NextTyped, SameTyped
<1>3. CASE \E s \in Shards : ExecuteCall(s)
      BY <1>2, <1>3, ExecuteNext
<1>4. CASE Other
      BY <1>1, <1>2, <1>4, OtherNext
<1> QED BY <1>3, <1>4 DEF Next, Other
-----------------------------------------------------------------------------
(***************************************************************************)
(* What the invariant says.                                                *)
(***************************************************************************)
LEMMA InvTypeOK == IInv => TypeOK
<1> SUFFICES ASSUME IInv PROVE TypeOK
    OBVIOUS
<1>1. EnvTyped /\ RollTyped /\ SampleTyped /\ ShardTyped
      BY DEF IInv, Typed
<1>2. \A e \in Envs : counter[e] \in -1..MaxSteps /\ iter \in 0..MaxSteps /\ taken[e] \in 0..MaxSteps
      BY Where DEF IInv, Piped, PipedFrom
<1>3. iter \in 0..MaxSteps
      BY <1>2, EnvsAssumption
<1>4. counter \in [Envs -> -1..MaxSteps] /\ taken \in [Envs -> 0..MaxSteps]
      BY <1>1, <1>2 DEF EnvTyped, RollTyped
<1>5. \A e \in Envs : result[e] \subseteq Returns /\ Cardinality(result[e]) <= 1
  <2> SUFFICES ASSUME NEW e \in Envs PROVE result[e] \subseteq Returns /\ Cardinality(result[e]) <= 1
      OBVIOUS
  <2>1. CASE result[e] = {}
        BY <2>1, FS_EmptySet
  <2>2. CASE \E r : OfEnv(e, r) /\ result[e] = {r}
        BY <2>2, FS_Singleton DEF OfEnv
  <2> QED BY <1>1, <2>1, <2>2 DEF EnvTyped
<1>6. /\ task \in [Envs -> {"none", "step", "reset"}] /\ position \in [Envs -> [resets : Nat, steps : Nat]]
      BY <1>1 DEF EnvTyped, Positions
<1>7. /\ auto \in BOOLEAN /\ shardOf \in [Envs -> Shards]
      /\ \A e \in Envs : current[e] \in Seq(Returns)
      /\ \A k \in AllKeys : active[k] \in Seq(Row)
      /\ \A s \in Shards : stored[s] \in Seq(Episode) /\ sizes[s] \in Nat \cup {-1}
      BY <1>1 DEF ShardTyped
<1>8. /\ running \in BOOLEAN /\ DOMAIN last \subseteq Envs /\ flags \subseteq Envs
      /\ \A e \in DOMAIN batch : batch[e] \in Returns
      /\ epochs \in Nat /\ rollout_epoch \in Nat /\ round \in 1..rollout_epoch
      BY <1>1 DEF RollTyped, OfEnv
<1>9. samples \in Nat /\ asked \in 0..Len(shards)
      BY <1>1 DEF SampleTyped
<1> QED BY <1>3, <1>4, <1>5, <1>6, <1>7, <1>8, <1>9 DEF TypeOK

\* The episodes that were pushed.
LEMMA InvPushedWhole == IInv /\ NoAutoRsl => PushedWhole
<1> SUFFICES ASSUME IInv, NoAutoRsl, NEW p \in Pushed, ~Broken(p.key[1]), NEW rets,
                    rets = [i \in DOMAIN p.rows |-> p.rows[i].ret]
             PROVE  /\ \A i \in DOMAIN p.rows : p.rows[i].resp = rets[i] /\ rets[i].env = p.key[1]
                    /\ \A i \in 1..(Len(rets) - 1) :
                          Follows(rets[i], rets[i + 1]) /\ (i > 1 => ~Closes(p.key, rets[i]))
                    /\ Closes(p.key, rets[Len(rets)])
    BY DEF PushedWhole
<1>1. p \in Episode /\ p.rows \in Seq(Row)
      BY PushedTyped DEF IInv, Typed
<1>2. PICK e \in Envs : e = p.key[1]
  <2>1. p.key \in AllKeys
        BY <1>1 DEF Episode
  <2> QED BY <2>1 DEF AllKeys
<1>3. PICK a, b : PipedFrom(e, a, b)
      BY DEF IInv, Piped
<1>4. AtShard(e, a) /\ Pure(e)
      BY <1>3 DEF PipedFrom
<1>5. RunOf(p.key, p.rows) /\ Closes(p.key, LastOf(p)) /\ p.rows # <<>>
      BY <1>2, <1>4, ShardIs DEF Pure
<1>6. PICK rows \in Seq(Row) : rows = p.rows
      BY <1>1
<1>7. PICK n \in Nat : n = Len(rows)
      BY <1>6
<1>8. n > 0 /\ DOMAIN rows = 1..n /\ n \in 1..n /\ \A i \in 1..(n - 1) : i \in 1..n /\ i + 1 \in 1..n
      BY <1>5, <1>6, <1>7
<1>9. Len(rets) = n
  <2>1. rets = [i \in 1..n |-> rows[i].ret]
        BY <1>6, <1>8
  <2>2. \A i \in 1..n : rows[i].ret \in Returns
    <3>1. \A i \in 1..n : rows[i] \in Row
          BY <1>6, <1>8
    <3> QED BY <3>1 DEF Row
  <2>3. rets \in Seq(Returns) /\ DOMAIN rets = 1..n
        BY <2>1, <2>2
  <2> QED BY <2>3
<1>10. \A i \in 1..n : rets[i] = rows[i].ret
       BY <1>6, <1>8
<1>11. \A i \in DOMAIN rows : rows[i].resp = rows[i].ret /\ rows[i].ret.env = p.key[1]
       BY <1>5, <1>6 DEF RunOf
<1>12. \A i \in 1..(n - 1) : Follows(rows[i].ret, rows[i + 1].ret) /\ (i > 1 => ~Closes(p.key, rows[i].ret))
       BY <1>5, <1>6, <1>7 DEF RunOf
<1>13. Closes(p.key, rets[n])
       BY <1>5, <1>6, <1>7, <1>8, <1>10 DEF LastOf
<1>14. \A i \in 1..(n - 1) : Follows(rets[i], rets[i + 1]) /\ (i > 1 => ~Closes(p.key, rets[i]))
       BY <1>8, <1>10, <1>12
<1> QED BY <1>6, <1>8, <1>9, <1>10, <1>11, <1>13, <1>14

\* The stance that the submitted calls lead to, against the last return of the environment.
LEMMA FrontPosition ==
    ASSUME Typed, NEW x, x = inAutoReset, NEW e \in Envs, NEW b \in Stances(x, e), AtFront(e, b)
    PROVE  \/ Answered(e) = {}
           \/ At(b.row) = position[e]
           \/ \E r \in Returns : At(r) = position[e] /\ Due(x, b, r)
<1>1. /\ DOMAIN batch \subseteq Envs /\ \A f \in DOMAIN batch : OfEnv(f, batch[f])
      /\ DOMAIN last \subseteq Envs /\ \A f \in DOMAIN last : OfEnv(f, last[f])
      /\ loop \in {"sync", "rsl", "async"} /\ \A f \in Envs : result[f] = {} \/ \E r : OfEnv(f, r) /\ result[f] = {r}
      BY DEF Typed, RollTyped, EnvTyped
<1> DEFINE Goal == \/ Answered(e) = {}
                   \/ At(b.row) = position[e]
                   \/ \E r \in Returns : At(r) = position[e] /\ Due(x, b, r)
<1>2. ASSUME NEW r \in Returns, Is(e, r), Due(x, b, r) PROVE Goal
      BY <1>2 DEF Is
<1>3. ASSUME NEW r \in Returns, Is(e, r), Waits(b, r) PROVE Goal
  <2>1. Due(x, b, r)
        BY <1>3 DEF Waits, Stances, Sound
  <2> QED BY <1>2, <1>3, <2>1
<1>4. ASSUME NEW r \in Returns, Holds(e, b, r) PROVE Goal
      BY <1>2, <1>4 DEF Holds
<1>5. Rests(e, b) => Goal
      BY DEF Rests
<1>6. ASSUME Away(e, b) PROVE Goal
  <2>1. CASE At(b.row) = position[e]
        BY <2>1
  <2>2. CASE \E r \in result[e] : result[e] = {r} /\ Holds(e, b, r)
    <3>1. PICK r \in Returns : Holds(e, b, r)
          BY <1>1, <2>2 DEF OfEnv
    <3> QED BY <1>4, <3>1
  <2> QED BY <1>6, <2>1, <2>2 DEF Away
<1>7. ASSUME NEW f \in DOMAIN batch PROVE batch[f] \in Returns
      BY <1>1 DEF OfEnv
<1>8. ASSUME NEW f \in DOMAIN last PROVE last[f] \in Returns
      BY <1>1 DEF OfEnv
<1>9. loop = "rsl" /\ pc = "store_responses" /\ e \in DOMAIN batch => Goal
      BY DEF Answered
<1> SUFFICES Goal
    OBVIOUS
<1> HIDE DEF Goal
<1>10. CASE loop = "sync"
       BY <1>4, <1>5, <1>7, <1>10 DEF AtFront, SyncFront
<1>11. CASE loop = "async"
       BY <1>3, <1>4, <1>5, <1>6, <1>7, <1>11 DEF AtFront, AsyncFront
<1>12. CASE loop = "rsl"
  <2>1. RslFront(e, b)
        BY <1>12 DEF AtFront
  <2>2. CASE pc = "reset"
        BY <1>5, <2>1, <2>2 DEF RslFront
  <2>3. CASE pc \in {"store_returns", "step_async", "store_responses", "collect"}
    <3>1. CASE e \in DOMAIN last
          BY <1>4, <1>8, <2>1, <2>3, <3>1 DEF RslFront
    <3>2. CASE e \notin DOMAIN last /\ pc # "collect" /\ e \in DOMAIN batch
      <4>1. CASE pc = "store_responses"
            BY <1>9, <1>12, <3>2, <4>1
      <4>2. CASE pc = "store_returns"
            BY <1>4, <1>7, <2>1, <3>2, <4>2 DEF RslFront
      <4>3. CASE pc = "step_async"
            BY <1>3, <1>7, <2>1, <3>2, <4>3 DEF RslFront
      <4> QED BY <2>3, <3>2, <4>1, <4>2, <4>3
    <3>3. CASE e \notin DOMAIN last /\ (pc = "collect" \/ e \notin DOMAIN batch)
          BY <1>6, <2>1, <2>3, <3>3 DEF RslFront
    <3> QED BY <3>1, <3>2, <3>3
  <2>4. CASE pc = "store_last"
        BY <1>4, <1>8, <2>1, <2>4 DEF RslFront
  <2>5. CASE pc = "store_last_responses"
        BY <1>3, <1>8, <2>1, <2>5 DEF RslFront, Finished
  <2>6. CASE pc \in {"truncate", "rolled_out", "sampled", "done"}
    <3>1. Is(e, batch[e]) /\ b.row = batch[e]
          BY <2>1, <2>6 DEF RslFront
    <3> QED BY <3>1 DEF Is, Goal
  <2> QED BY <2>1, <2>2, <2>3, <2>4, <2>5, <2>6 DEF RslFront
<1> QED BY <1>1, <1>10, <1>11, <1>12

LEMMA AnsweredPast ==
    ASSUME Typed, NEW x \in BOOLEAN, x = inAutoReset, NEW e \in Envs, NEW b \in Stances(x, e), AtFront(e, b),
           NEW at \in Answered(e)
    PROVE  at \in Past(b)
<1>1. PICK m \in Nat : m = MaxSteps /\ m > 0
      BY MaxStepsAssumption
<1>2. position[e] \in Positions /\ position[e].resets \in Nat /\ position[e].steps \in Nat
      BY DEF Typed, EnvTyped, Positions
<1>3. PICK R \in Nat, S \in Nat : R = position[e].resets /\ S = position[e].steps
      BY <1>2
<1>4. Max({MaxSteps, S}) \in Nat
  <2>1. Max({MaxSteps, S}) \in {MaxSteps, S}
    <3> DEFINE T == {MaxSteps, S}
    <3>1. \E y \in T : \A z \in T : y >= z
          BY <1>1, <1>3
    <3> QED BY <3>1 DEF Max
  <2> QED BY <1>1, <1>3, <2>1
<1>5. /\ at \in [resets : Nat, steps : Nat] /\ at.resets \in Nat /\ at.steps \in Nat
      /\ at.resets >= 1 /\ at.resets <= R
      /\ IF at.resets < R THEN at.steps <= m ELSE at.steps < S
      BY <1>1, <1>3, <1>4 DEF Answered
<1>6. b.row.resets \in Nat /\ b.row.steps \in Nat /\ Sound(x, b)
      BY StanceIs
<1>7. SUFFICES \/ at.resets < b.row.resets /\ at.steps <= m
               \/ at.resets = b.row.resets /\ at.steps <= b.row.steps
      BY <1>1, <1>5 DEF Past
<1>8. CASE At(b.row) = position[e]
  <2>1. R = b.row.resets /\ S = b.row.steps
        BY <1>3, <1>8 DEF At
  <2> QED BY <1>5, <1>6, <2>1
<1>9. CASE \E r \in Returns : At(r) = position[e] /\ Due(x, b, r)
  <2>1. PICK r \in Returns : At(r) = position[e] /\ Due(x, b, r)
        BY <1>9
  <2>2. R = r.resets /\ S = r.steps
        BY <1>3, <2>1 DEF At
  <2>3. CASE ~b.closed
    <3>1. R = b.row.resets /\ S = b.row.steps + 1
          BY <2>1, <2>2, <2>3 DEF Due, Follows
    <3> QED BY <1>5, <1>6, <3>1
  <2>4. CASE b.closed /\ (x \/ b.row.resets = 0)
    <3>1. R = b.row.resets + 1 /\ S = 0
          BY <2>1, <2>2, <2>4 DEF Due
    <3>2. b.row.resets > 0 => b.row.steps = m
          BY <1>1, <1>6, <2>4 DEF Sound
    <3> QED BY <1>5, <1>6, <3>1, <3>2
  <2>5. CASE b.closed /\ ~(x \/ b.row.resets = 0)
    <3>1. r = b.row
          BY <2>1, <2>5 DEF Due
    <3> QED BY <1>5, <1>6, <2>2, <3>1
  <2> QED BY <2>3, <2>4, <2>5
<1> QED BY <1>8, <1>9, FrontPosition

LEMMA InvNoReturnLost == IInv /\ NoAutoRsl => NoReturnLost
<1> SUFFICES ASSUME IInv, NoAutoRsl, NEW e \in Envs, ~Broken(e), NEW k \in ToSet(KeysOf(e)), NEW at \in Answered(e)
             PROVE  at \in Kept(k)
    BY DEF NoReturnLost
<1>1. PICK a, b : PipedFrom(e, a, b)
      BY DEF IInv, Piped
<1>2. PICK x \in BOOLEAN : x = inAutoReset
      BY DEF inAutoReset
<1>3. b \in Stances(x, e) /\ AtFront(e, b) /\ PastKept(e, b) /\ Typed
      BY <1>1, <1>2 DEF PipedFrom, IInv
<1>4. at \in Past(b)
      BY <1>2, <1>3, AnsweredPast
<1> QED BY <1>3, <1>4 DEF PastKept

LEMMA InvDeliveredOnce == IInv /\ NoAutoRsl => DeliveredOnce
<1> SUFFICES ASSUME IInv, NoAutoRsl, NEW s \in Shards
             PROVE  /\ (\E p \in ToSet(stored[s]) : p \in delivered) =>
                           spc = "clear" \/ \E c \in ToSet(mailbox[s]) : c.op = "clear"
                    /\ \A p \in dropped : HasRows(p) => p \notin counted[s]
    BY DEF DeliveredOnce
<1>1. SamplerInv(s)
      BY DEF IInv
<1>2. In_(mailbox[s], "clear") # {} => \E c \in ToSet(mailbox[s]) : c.op = "clear"
      BY DEF In_, ToSet
<1> QED BY <1>1, <1>2 DEF SamplerInv, Got

-----------------------------------------------------------------------------
(***************************************************************************)
(* The theorems.                                                           *)
(***************************************************************************)
LEMMA Invariant == Spec => []IInv
BY InitInv, NextInv, PTL DEF Spec

\* The rsl engine is not run with a buffer that truncates by itself
\* (examples/wbc_tracking/conf/buffer: auto_truncate_episode: false).
RslUntruncated == \A c \in Configs : c.loop = "rsl" => ~c.auto

LEMMA ConfiguredInv == ASSUME RslUntruncated PROVE IInv => NoAutoRsl
BY DEF RslUntruncated, IInv, Typed, NoAutoRsl

\* The types of the variables of the engine, the environments and the buffer.
THEOREM TypeCorrect == Spec => []TypeOK
BY Invariant, InvTypeOK, PTL

\* Every episode that reaches a container is a run of consecutive returns with the responses
\* to them, closed where it ends and not before; and no return that was answered is lost
\* between the front end, the queues, the open episodes and the containers.
THEOREM WholeEpisodes == ASSUME RslUntruncated PROVE Spec => []EpisodesWhole
<1>1. IInv => EpisodesWhole
      BY ConfiguredInv, InvPushedWhole, InvNoReturnLost DEF EpisodesWhole
<1> QED BY <1>1, Invariant, PTL

\* An episode that was delivered is gone before the next sample reads the shard, and what
\* the shard counted for a sample is not dropped by the clear that follows it.
THEOREM OneDelivery == ASSUME RslUntruncated PROVE Spec => []DeliveredOnce
<1>1. IInv => DeliveredOnce
      BY ConfiguredInv, InvDeliveredOnce
<1> QED BY <1>1, Invariant, PTL
=============================================================================
