----------------------- MODULE DataContainer_proofs -----------------------
(***************************************************************************)
(* Proofs about DataContainer, for a ring of any size, any items and       *)
(* either mode and unit.                                                   *)
(***************************************************************************)
EXTENDS DataContainer, SequenceTheorems, FiniteSetTheorems, TLAPS

\* The list being pushed is what is left of one or two items whose rows fit the bound.
Room ==
    \/ pending = <<>>
    \/ \E a \in Items : pending = <<a>> /\ rows + DataSize(a) <= MaxRows
    \/ \E a, b \in Items :
          pending = <<a, b>> /\ rows + DataSize(a) + DataSize(b) <= MaxRows

\* Episodes are registered in unit "episode" only.
Registered == unit = "transition" => registry = {}

Typed == TypeOK /\ Room /\ Registered

-----------------------------------------------------------------------------
(***************************************************************************)
(* Arithmetic of the sub-episodes of an item.                              *)
(***************************************************************************)
LEMMA Product == \A a, b \in Nat : a * b \in Nat
OBVIOUS

LEMMA Distribute == \A a, b \in Int : (a + 1) * b = a * b + b /\ (a - 1) * b = a * b - b
OBVIOUS

LEMMA Difference == \A a, b, c \in Int : (a - b) * c = a * c - b * c
OBVIOUS

LEMMA Monotone == \A a, b, c \in Nat : a <= b => a * c <= b * c
OBVIOUS

LEMMA Small == \A x \in 0..(Capacity - 1) : x % Capacity = x
BY CapacityAssumption

LEMMA Turn == \A x \in 0..(Capacity - 1) : (x + Capacity) % Capacity = x
BY CapacityAssumption

LEMMA WrapRange == \A x \in Nat : x % Capacity \in Positions
BY CapacityAssumption DEF Positions

\* Where the k-th sub-episode of an item lies among its rows.
LEMMA SubEpisodes ==
    ASSUME NEW item \in Items
    PROVE  /\ item.n \in Nat \ {0} /\ item.len \in Nat /\ DataSize(item) \in Nat
           /\ DataSize(item) > 0 => item.len > 0
           /\ \A k \in 0..(item.n - 1) :
                 /\ k * item.len \in Nat
                 /\ (k + 1) * item.len = k * item.len + item.len
                 /\ (k + 1) * item.len <= DataSize(item)
<1>1. item.n \in Nat \ {0} /\ item.len \in Nat
  BY ItemsAssumption
<1>2. DataSize(item) \in Nat
  BY <1>1, Product DEF DataSize
<1>3. DataSize(item) > 0 => item.len > 0
  BY <1>1 DEF DataSize
<1>4. ASSUME NEW k \in 0..(item.n - 1)
      PROVE  /\ k * item.len \in Nat
             /\ (k + 1) * item.len = k * item.len + item.len
             /\ (k + 1) * item.len <= DataSize(item)
  <2>1. k \in Nat /\ k + 1 \in Nat /\ k + 1 <= item.n
    BY <1>1
  <2>2. k * item.len \in Nat
    BY <1>1, <2>1, Product
  <2>3. (k + 1) * item.len = k * item.len + item.len
    BY <1>1, <2>1, Distribute
  <2>4. (k + 1) * item.len <= item.n * item.len
    BY <1>1, <2>1, Monotone
  <2> QED
    BY <2>2, <2>3, <2>4 DEF DataSize
<1> QED
  BY <1>1, <1>2, <1>3, <1>4

\* The item that is pushed, and what is left of the list behind it.
LEMMA PendingItem ==
    ASSUME Typed, pending # <<>>
    PROVE  /\ Item \in Items /\ N \in Nat /\ rows + N <= MaxRows
           /\ Tail(pending) \in Seq(Items)
           /\ pending' = Tail(pending) /\ rows' = rows + N => Room'
           /\ pending' = Tail(pending) /\ rows' = rows /\ N = 0 => Room'
<1>0. rows \in Nat /\ MaxRows \in Nat
  BY BoundsAssumption DEF Typed, TypeOK
<1>1. CASE \E a \in Items : pending = <<a>> /\ rows + DataSize(a) <= MaxRows
  <2>1. PICK a \in Items : pending = <<a>> /\ rows + DataSize(a) <= MaxRows
    BY <1>1
  <2>2. Item = a /\ Tail(pending) = <<>>
    BY <2>1 DEF Item
  <2> QED
    BY <2>1, <2>2, SubEpisodes, EmptySeq DEF N, Room
<1>2. CASE \E a, b \in Items :
              pending = <<a, b>> /\ rows + DataSize(a) + DataSize(b) <= MaxRows
  <2>1. PICK a \in Items, b \in Items :
              pending = <<a, b>> /\ rows + DataSize(a) + DataSize(b) <= MaxRows
    BY <1>2
  <2>2. Item = a /\ Tail(pending) = <<b>>
    BY <2>1 DEF Item
  <2>3. DataSize(a) \in Nat /\ DataSize(b) \in Nat
    BY SubEpisodes
  <2> QED
    BY <1>0, <2>1, <2>2, <2>3 DEF N, Room
<1> QED
  BY <1>1, <1>2 DEF Typed, Room

\* Accepting an item adds its episodes to the log.
LEMMA AcceptLog ==
    ASSUME Typed, pending # <<>>, Accept
    PROVE  /\ log' \in Seq(Episode)
           /\ Len(log) \in Nat /\ Len(log') = Len(log) + Item.n
           /\ DOMAIN log = 1..Len(log) /\ DOMAIN log' = 1..Len(log')
           /\ \A k \in DOMAIN log : log'[k] = log[k]
           /\ \A k \in 1..Item.n :
                 log'[Len(log) + k] = [first |-> rows + 1 + (k - 1) * Item.len,
                                       last |-> rows + k * Item.len]
<1> DEFINE e(k) == [first |-> rows + 1 + (k - 1) * Item.len, last |-> rows + k * Item.len]
           new == [k \in 1..Item.n |-> e(k)]
<1>1. /\ Item \in Items /\ rows \in Nat /\ log \in Seq(Episode)
      /\ Item.n \in Nat \ {0} /\ Item.len \in Nat
  BY PendingItem, SubEpisodes DEF Typed, TypeOK
<1>2. ASSUME NEW k \in 1..Item.n PROVE e(k) \in Episode
  <2>1. k - 1 \in Nat /\ k \in Nat
    BY <1>1
  <2>2. (k - 1) * Item.len \in Nat /\ k * Item.len \in Nat
    BY <1>1, <2>1, Product
  <2>3. rows + 1 + (k - 1) * Item.len \in Nat /\ rows + k * Item.len \in Nat
    <3> DEFINE before == (k - 1) * Item.len
               upTo == k * Item.len
    <3>1. before \in Nat /\ upTo \in Nat /\ rows \in Nat
      BY <1>1, <2>2
    <3> HIDE DEF before, upTo
    <3>2. rows + 1 + before \in Nat /\ rows + upTo \in Nat
      BY <3>1
    <3> QED
      BY <3>2 DEF before, upTo
  <2> QED
    BY <2>3 DEF Episode
<1>3. new \in Seq(Episode) /\ Len(new) = Item.n /\ \A k \in 1..Item.n : new[k] = e(k)
  <2> HIDE DEF e
  <2>1. new \in [1..Item.n -> Episode] /\ Item.n \in Nat
    BY <1>1, <1>2
  <2> HIDE DEF new
  <2>2. new \in Seq(Episode) /\ Len(new) = Item.n
    BY <2>1
  <2> QED
    BY <2>2 DEF new
<1>4. log' = log \o new
  BY DEF Accept
<1> HIDE DEF new
<1>5. /\ log' \in Seq(Episode) /\ Len(log') = Len(log) + Len(new) /\ Len(log) \in Nat
      /\ \A i \in 1..(Len(log) + Len(new)) :
            log'[i] = IF i <= Len(log) THEN log[i] ELSE new[i - Len(log)]
  <2>1. log \in Seq(Episode) /\ new \in Seq(Episode)
    BY <1>1, <1>3
  <2>2. /\ log \o new \in Seq(Episode) /\ Len(log \o new) = Len(log) + Len(new)
        /\ \A i \in 1..(Len(log) + Len(new)) :
              (log \o new)[i] = IF i <= Len(log) THEN log[i] ELSE new[i - Len(log)]
    BY <2>1, ConcatProperties
  <2>3. Len(log) \in Nat
    BY <2>1, LenProperties
  <2> QED
    BY <1>4, <2>2, <2>3
<1>6. ASSUME NEW k \in 1..Item.n PROVE log'[Len(log) + k] = new[k]
  <2> DEFINE i == Len(log) + k
  <2>1. i \in 1..(Len(log) + Len(new)) /\ ~(i <= Len(log)) /\ i - Len(log) = k
    BY <1>1, <1>3, <1>5
  <2> HIDE DEF i
  <2> QED
    BY <1>5, <2>1 DEF i
<1>7. DOMAIN log = 1..Len(log) /\ DOMAIN log' = 1..Len(log')
  BY <1>1, <1>5, LenProperties
<1>8. \A k \in 1..Len(log) : log'[k] = log[k]
  <2>1. Len(new) \in Nat /\ Len(log) \in Nat
    BY <1>1, <1>3, <1>5
  <2>2. ASSUME NEW k \in 1..Len(log) PROVE k \in 1..(Len(log) + Len(new)) /\ k <= Len(log)
    BY <2>1
  <2> QED
    BY <1>5, <2>2
<1> QED
  BY <1>1, <1>3, <1>5, <1>6, <1>7, <1>8
-----------------------------------------------------------------------------
(***************************************************************************)
(* What PutNext and WrapEpisode have in common: the item is laid from at   *)
(* on, within the ring, and the episodes it overlaps are evicted.          *)
(***************************************************************************)
Placed(at, old) ==
    /\ pending # <<>> /\ N > 0
    /\ at \in Nat /\ at + N <= Capacity
    /\ old \subseteq registry
    /\ unit = "episode" => Overlapping(at, at + N) \subseteq old
    /\ PutAt(at, old)

LEMMA PutNextPlaces ==
    ASSUME Typed, pending # <<>>, PutNext
    PROVE  Placed(pointer, Overlapping(pointer, pointer + N))
BY DEF PutNext, Placed, Fits, Overlapping, Typed, TypeOK, Positions

LEMMA WrapEpisodePlaces ==
    ASSUME Typed, pending # <<>>, WrapEpisode
    PROVE  Placed(0, Overlapping(pointer, Capacity) \cup Overlapping(0, N))
<1>1. N \in Nat /\ pointer \in 0..(Capacity - 1) /\ Capacity \in Nat
  BY PendingItem, CapacityAssumption DEF Typed, TypeOK, Positions
<1>2. N > 0 /\ N <= Capacity
  BY <1>1 DEF WrapEpisode, Fits
<1> QED
  BY <1>1, <1>2 DEF WrapEpisode, Placed, Overlapping

\* The intervals of the item's episodes lie within its rows, one after the other.
LEMMA IntervalsWithin ==
    ASSUME NEW item \in Items, DataSize(item) > 0, NEW at \in Nat
    PROVE  /\ \A k \in 0..(item.n - 1) :
                 [begin |-> at + k * item.len, end |-> at + (k + 1) * item.len]
                    \in IntervalsAt(at, item)
           /\ \A v \in IntervalsAt(at, item) :
                 /\ v \in Interval /\ at <= v.begin /\ v.end <= at + DataSize(item)
                 /\ v.end = v.begin + item.len /\ v.begin < v.end
                 /\ \E k \in 0..(item.n - 1) :
                       v = [begin |-> at + k * item.len, end |-> at + (k + 1) * item.len]
<1>1. /\ item.n \in Nat \ {0} /\ item.len \in Nat \ {0} /\ DataSize(item) \in Nat
      /\ \A k \in 0..(item.n - 1) :
            /\ k * item.len \in Nat
            /\ (k + 1) * item.len = k * item.len + item.len
            /\ (k + 1) * item.len <= DataSize(item)
  BY SubEpisodes
<1>2. ASSUME NEW v \in IntervalsAt(at, item)
      PROVE  /\ v \in Interval /\ at <= v.begin /\ v.end <= at + DataSize(item)
             /\ v.end = v.begin + item.len /\ v.begin < v.end
             /\ \E k \in 0..(item.n - 1) :
                   v = [begin |-> at + k * item.len, end |-> at + (k + 1) * item.len]
  <2>1. PICK k \in 0..(item.n - 1) :
               v = [begin |-> at + k * item.len, end |-> at + (k + 1) * item.len]
    BY DEF IntervalsAt
  <2>2. /\ k * item.len \in Nat
        /\ (k + 1) * item.len = k * item.len + item.len
        /\ (k + 1) * item.len <= DataSize(item)
    BY <1>1
  <2>3. (k + 1) * item.len \in Nat
    BY <1>1, <2>2
  <2>4. at + k * item.len \in Nat /\ at + (k + 1) * item.len \in Nat
    BY <2>2, <2>3
  <2>5. v \in Interval /\ v.begin = at + k * item.len /\ v.end = at + (k + 1) * item.len
    BY <2>1, <2>4 DEF Interval
  <2>6. at <= v.begin /\ v.end <= at + DataSize(item) /\ v.end = v.begin + item.len
    BY <1>1, <2>2, <2>3, <2>5
  <2>7. v.begin < v.end
    BY <1>1, <2>4, <2>5, <2>6
  <2> QED
    BY <2>1, <2>5, <2>6, <2>7
<1> QED
  BY <1>2 DEF IntervalsAt

LEMMA AdvanceTyped ==
    ASSUME Typed, NEW at \in Nat, NEW n \in Nat, Advance(at, n)
    PROVE  pointer' \in Positions /\ size' \in 0..Capacity
<1>1. at + n \in Nat
  OBVIOUS
<1>2. pointer' \in Positions
  BY <1>1, WrapRange DEF Advance
<1>3. size \in 0..Capacity /\ Capacity \in Nat /\ size' = MinOf(size + n, Capacity)
  BY CapacityAssumption DEF Advance, Typed, TypeOK
<1> QED
  BY <1>2, <1>3 DEF MinOf

LEMMA AcceptTyped ==
    ASSUME Typed, pending # <<>>, Accept
    PROVE  /\ mode' \in Modes /\ unit' \in Units /\ pending' \in Seq(Items)
           /\ log' \in Seq(Episode) /\ rows' \in 0..MaxRows /\ biggest' \in 0..MaxRows
           /\ reads' \in [1..MaxRows -> Nat]
           /\ rows' = rows + N /\ rows \in Nat /\ N \in Nat /\ Item \in Items
           /\ Room'
<1>1. /\ Item \in Items /\ N \in Nat /\ rows + N <= MaxRows
      /\ pending' \in Seq(Items) /\ rows' = rows + N /\ Room'
  BY PendingItem DEF Accept
<1>2. log' \in Seq(Episode)
  BY AcceptLog
<1>3. MaxRows \in Nat
  BY BoundsAssumption
<1> QED
  BY <1>1, <1>2, <1>3 DEF Accept, Typed, TypeOK, config, MaxOf

LEMMA PlacedTyped ==
    ASSUME Typed, NEW at, NEW old, Placed(at, old)
    PROVE  Typed'
<1>1. /\ pending # <<>> /\ N > 0 /\ at \in Nat /\ at + N <= Capacity /\ Capacity \in Nat
      /\ Accept /\ WriteAt(at) /\ Advance(at, N)
  BY CapacityAssumption DEF Placed, PutAt
<1>2. /\ mode' \in Modes /\ unit' \in Units /\ pending' \in Seq(Items)
      /\ log' \in Seq(Episode) /\ rows' \in 0..MaxRows /\ biggest' \in 0..MaxRows
      /\ reads' \in [1..MaxRows -> Nat]
      /\ rows' = rows + N /\ rows \in Nat /\ N \in Nat /\ Item \in Items
      /\ Room'
  BY <1>1, AcceptTyped
<1>3. pointer' \in Positions /\ size' \in 0..Capacity
  BY <1>1, <1>2, AdvanceTyped
<1>4. data' \in [Positions -> 0..MaxRows]
  <2>1. data \in [Positions -> 0..MaxRows] /\ MaxRows \in Nat /\ rows + N <= MaxRows
    <3>1. rows + N \in 0..MaxRows
      BY <1>2
    <3> QED
      BY <3>1, BoundsAssumption DEF Typed, TypeOK
  <2>2. \A i \in at..(at + N - 1) : rows + 1 + (i - at) \in 0..MaxRows
    BY <1>1, <1>2, <2>1
  <2> QED
    BY <1>1, <2>1, <2>2 DEF WriteAt
<1>5. counter' \in [Positions -> Int]
  BY <1>1 DEF Placed, PutAt, Recount, Typed, TypeOK
<1>6. registry' \in SUBSET {v \in Interval : v.begin < v.end /\ v.end <= Capacity}
  <2>1. \A v \in IntervalsAt(at, Item) : v \in Interval /\ v.begin < v.end /\ v.end <= Capacity
    BY <1>1, <1>2, IntervalsWithin, SubEpisodes DEF N, Interval
  <2> QED
    BY <2>1 DEF Placed, PutAt, Typed, TypeOK
<1>7. Registered'
  BY <1>1 DEF Placed, PutAt, Accept, config, Typed, Registered
<1> QED
  BY <1>2, <1>3, <1>4, <1>5, <1>6, <1>7 DEF Typed, TypeOK
\* The episodes kept of an item larger than the ring end at its end, one before the other.
LEMMA LastWithin ==
    ASSUME NEW item \in Items, DataSize(item) > Capacity, NEW v \in LastIntervals(item)
    PROVE  /\ v \in Interval /\ v.begin < v.end /\ v.end <= Capacity
           /\ \/ item.n = 1 /\ v.begin = 0 /\ v.end = Capacity
              \/ \E k \in 0..(item.n - 1) :
                    /\ v.end = Capacity - k * item.len /\ v.begin = v.end - item.len
                    /\ k * item.len \in Nat /\ item.len <= v.end
<1>1. /\ item.n \in Nat \ {0} /\ item.len \in Nat \ {0} /\ Capacity \in Nat \ {0}
      /\ \A k \in 0..(item.n - 1) :
            /\ k * item.len \in Nat
            /\ (k + 1) * item.len = k * item.len + item.len
  BY SubEpisodes, CapacityAssumption
<1>2. CASE item.n = 1
  <2>1. v = [begin |-> 0, end |-> Capacity]
    BY <1>2 DEF LastIntervals
  <2>2. v.begin = 0 /\ v.end = Capacity /\ v \in Interval
    BY <1>1, <2>1 DEF Interval
  <2> QED
    BY <1>1, <1>2, <2>2
<1>3. CASE item.n # 1
  <2>1. PICK k \in {j \in 0..(item.n - 1) : Capacity - j * item.len >= item.len} :
           v = [begin |-> Capacity - (k + 1) * item.len, end |-> Capacity - k * item.len]
    BY <1>3 DEF LastIntervals
  <2>2. /\ k \in 0..(item.n - 1) /\ Capacity - k * item.len >= item.len
        /\ k * item.len \in Nat
        /\ (k + 1) * item.len = k * item.len + item.len
    BY <1>1, <2>1
  <2>3. /\ v.begin = Capacity - (k + 1) * item.len /\ v.end = Capacity - k * item.len
        /\ Capacity - (k + 1) * item.len \in Nat /\ Capacity - k * item.len \in Nat
    BY <1>1, <2>1, <2>2
  <2>4. v \in Interval
    BY <2>1, <2>3 DEF Interval
  <2>5. v.begin = v.end - item.len /\ item.len <= v.end /\ v.begin < v.end /\ v.end <= Capacity
    BY <1>1, <2>2, <2>3
  <2> QED
    BY <2>2, <2>3, <2>4, <2>5
<1> QED
  BY <1>2, <1>3

LEMMA ReplaceTyped == ASSUME Typed, pending # <<>>, Replace PROVE Typed'
<1>1. /\ mode' \in Modes /\ unit' \in Units /\ pending' \in Seq(Items)
      /\ log' \in Seq(Episode) /\ rows' \in 0..MaxRows /\ biggest' \in 0..MaxRows
      /\ reads' \in [1..MaxRows -> Nat]
      /\ rows' = rows + N /\ rows \in Nat /\ N \in Nat /\ Item \in Items
      /\ Room'
  BY AcceptTyped DEF Replace
<1>2. Capacity \in Nat /\ N > Capacity /\ MaxRows \in Nat
  BY CapacityAssumption, BoundsAssumption DEF Replace
<1>3. pointer' \in Positions /\ size' \in 0..Capacity
  BY <1>2, AdvanceTyped DEF Replace
<1>4. data' \in [Positions -> 0..MaxRows]
  BY <1>1, <1>2 DEF Replace, Positions
<1>5. counter' \in [Positions -> Int]
  BY DEF Replace
<1>6. registry' \in SUBSET {v \in Interval : v.begin < v.end /\ v.end <= Capacity}
  BY <1>1, <1>2, LastWithin DEF Replace, N, Typed, TypeOK
<1>7. Registered'
  BY DEF Replace, Accept, config, Typed, Registered
<1> QED
  BY <1>1, <1>3, <1>4, <1>5, <1>6, <1>7 DEF Typed, TypeOK

\* The rows of transitions that are split go to the end of the ring, the rest to its start.
LEMMA SplitRows ==
    ASSUME Typed, pending # <<>>, WrapTransitions
    PROVE  /\ N \in Nat /\ N <= Capacity /\ pointer + N > Capacity
           /\ pointer' = pointer + N - Capacity /\ size' = MinOf(size + pointer', Capacity)
           /\ \A i \in pointer..(Capacity - 1) :
                 data'[i] = rows + 1 + i - pointer /\ counter'[i] = 0
           /\ \A i \in 0..(pointer' - 1) :
                 data'[i] = rows + 1 + i + Capacity - pointer /\ counter'[i] = 0
           /\ \A i \in pointer'..(pointer - 1) :
                 data'[i] = data[i] /\ counter'[i] = counter[i]
<1> DEFINE new == {(pointer + k) % Capacity : k \in 0..(N - 1)}
<1>1. /\ Capacity \in Nat \ {0} /\ pointer \in 0..(Capacity - 1) /\ rows \in Nat /\ N \in Nat
      /\ N <= Capacity /\ pointer + N > Capacity
  <2>1. N <= Capacity /\ ~(pointer + N <= Capacity)
    BY DEF WrapTransitions, Fits
  <2>2. pointer \in 0..(Capacity - 1) /\ rows \in Nat
    BY BoundsAssumption DEF Typed, TypeOK, Positions
  <2>3. N \in Nat
    BY PendingItem
  <2> QED
    BY <2>1, <2>2, <2>3, CapacityAssumption
<1>2. pointer' = pointer + N - Capacity
  <2>1. N - (Capacity - pointer) \in 0..(Capacity - 1)
    BY <1>1
  <2>2. (0 + (N - (Capacity - pointer))) % Capacity = 0 + (N - (Capacity - pointer))
    BY <1>1, <2>1, Small
  <2> QED
    BY <1>1, <2>1, <2>2 DEF WrapTransitions, Advance
<1>3. size' = MinOf(size + pointer', Capacity)
  BY <1>1, <1>2 DEF WrapTransitions, Advance
<1>4. ASSUME NEW i \in Positions
      PROVE  /\ data'[i] = IF i \in new THEN rows + 1 + ((i + Capacity - pointer) % Capacity)
                           ELSE data[i]
             /\ counter'[i] = IF i \in new THEN 0 ELSE counter[i]
  BY DEF WrapTransitions, Recount
<1>5. ASSUME NEW i \in pointer..(Capacity - 1)
      PROVE  i \in Positions /\ i \in new /\ (i + Capacity - pointer) % Capacity = i - pointer
  <2>1. i - pointer \in 0..(N - 1) /\ pointer + (i - pointer) = i /\ i \in 0..(Capacity - 1)
    BY <1>1
  <2>2. (pointer + (i - pointer)) % Capacity = i
    BY <2>1, Small
  <2>3. i - pointer \in 0..(Capacity - 1) /\ i + Capacity - pointer = (i - pointer) + Capacity
    BY <1>1
  <2> QED
    BY <2>1, <2>2, <2>3, Turn DEF Positions
<1>6. ASSUME NEW i \in 0..(pointer' - 1)
      PROVE  /\ i \in Positions /\ i \in new
             /\ (i + Capacity - pointer) % Capacity = i + Capacity - pointer
  <2>1. /\ i + Capacity - pointer \in 0..(N - 1)
        /\ pointer + (i + Capacity - pointer) = i + Capacity
        /\ i \in 0..(Capacity - 1) /\ i + Capacity - pointer \in 0..(Capacity - 1)
    BY <1>1, <1>2
  <2>2. (pointer + (i + Capacity - pointer)) % Capacity = i
    BY <2>1, Turn
  <2> QED
    BY <2>1, <2>2, Small DEF Positions
<1>7. ASSUME NEW i \in pointer'..(pointer - 1) PROVE i \in Positions /\ i \notin new
  <2>1. i \in Positions
    BY <1>1, <1>2 DEF Positions
  <2>2. ASSUME NEW k \in 0..(N - 1) PROVE (pointer + k) % Capacity # i
    <3>1. CASE pointer + k < Capacity
      <4>1. pointer + k \in 0..(Capacity - 1) /\ pointer + k # i
        BY <3>1, <1>1, <1>2
      <4> QED
        BY <4>1, Small
    <3>2. CASE pointer + k >= Capacity
      <4>1. /\ pointer + k - Capacity \in 0..(Capacity - 1) /\ pointer + k - Capacity # i
            /\ pointer + k = (pointer + k - Capacity) + Capacity
        BY <3>2, <1>1, <1>2
      <4>2. (pointer + k) % Capacity = pointer + k - Capacity
        BY <4>1, Turn
      <4> QED
        BY <4>1, <4>2
    <3>3. pointer + k < Capacity \/ pointer + k >= Capacity
      BY <1>1
    <3> QED
      BY <3>1, <3>2, <3>3
  <2> QED
    BY <2>1, <2>2
<1>8. /\ \A i \in pointer..(Capacity - 1) : rows + 1 + (i - pointer) = rows + 1 + i - pointer
      /\ \A i \in 0..(pointer' - 1) :
            rows + 1 + (i + Capacity - pointer) = rows + 1 + i + Capacity - pointer
  BY <1>1, <1>2
<1> HIDE DEF new
<1> QED
  BY <1>1, <1>2, <1>3, <1>4, <1>5, <1>6, <1>7, <1>8

LEMMA WrapTransitionsTyped == ASSUME Typed, pending # <<>>, WrapTransitions PROVE Typed'
<1>1. /\ mode' \in Modes /\ unit' \in Units /\ pending' \in Seq(Items)
      /\ log' \in Seq(Episode) /\ rows' \in 0..MaxRows /\ biggest' \in 0..MaxRows
      /\ reads' \in [1..MaxRows -> Nat]
      /\ rows' = rows + N /\ rows \in Nat /\ N \in Nat /\ Item \in Items
      /\ Room'
  BY AcceptTyped DEF WrapTransitions
<1>2. /\ Capacity \in Nat \ {0} /\ N <= Capacity /\ pointer + N > Capacity /\ MaxRows \in Nat
      /\ pointer \in 0..(Capacity - 1) /\ pointer' = pointer + N - Capacity
  BY <1>1, SplitRows, CapacityAssumption, BoundsAssumption DEF Typed, TypeOK, Positions
<1>3. pointer' \in Positions /\ size' \in 0..Capacity
  <2>1. N - (Capacity - pointer) \in Nat
    BY <1>1, <1>2
  <2> QED
    BY <2>1, AdvanceTyped DEF WrapTransitions
<1>4. data' \in [Positions -> 0..MaxRows]
  <2>1. ASSUME NEW i \in Positions PROVE data'[i] \in 0..MaxRows
    <3>1. CASE i \in pointer..(Capacity - 1)
      BY <3>1, <1>1, <1>2, SplitRows
    <3>2. CASE i \in 0..(pointer' - 1)
      BY <3>2, <1>1, <1>2, SplitRows
    <3>3. CASE i \in pointer'..(pointer - 1)
      BY <3>3, SplitRows DEF Typed, TypeOK
    <3> QED
      BY <3>1, <3>2, <3>3, <1>1, <1>2 DEF Positions
  <2>2. data' = [i \in Positions |-> data'[i]]
    BY DEF WrapTransitions
  <2> QED
    BY <2>1, <2>2
<1>5. counter' \in [Positions -> Int]
  BY DEF WrapTransitions, Recount, Typed, TypeOK
<1>6. registry' = registry /\ unit' = unit
  BY DEF WrapTransitions, Accept, config
<1> QED
  BY <1>1, <1>3, <1>4, <1>5, <1>6 DEF Typed, TypeOK, Registered

LEMMA TypedInit == Init => Typed
<1> SUFFICES ASSUME Init PROVE Typed
  OBVIOUS
<1>1. pointer \in Positions /\ size \in 0..Capacity
  BY CapacityAssumption DEF Init, Positions
<1>2. rows \in 0..MaxRows /\ biggest \in 0..MaxRows /\ data \in [Positions -> 0..MaxRows]
  BY BoundsAssumption DEF Init
<1> QED
  BY <1>1, <1>2, EmptySeq DEF Init, Typed, TypeOK, Room, Registered

LEMMA TypedStep == ASSUME Typed, [Next]_vars PROVE Typed'
<1>1. ASSUME NEW item \in Items, rows + DataSize(item) <= MaxRows, Push(<<item>>)
      PROVE  Typed'
  BY <1>1 DEF Push, config, content, history, Typed, TypeOK, Registered, Room
<1>2. ASSUME NEW item \in Items, NEW other \in Items,
             rows + DataSize(item) + DataSize(other) <= MaxRows, Push(<<item, other>>)
      PROVE  Typed'
  BY <1>2 DEF Push, config, content, history, Typed, TypeOK, Registered, Room
<1>3. CASE PushItem
  <2>1. pending # <<>>
    BY <1>3 DEF PushItem
  <2>2. CASE PutNext
    BY <2>1, <2>2, PutNextPlaces, PlacedTyped
  <2>3. CASE WrapEpisode
    BY <2>1, <2>3, WrapEpisodePlaces, PlacedTyped
  <2>4. CASE Refuse
    BY <2>4, EmptySeq DEF Refuse, config, content, history, Typed, TypeOK, Registered, Room
  <2>5. CASE PutEmpty
    <3>1. Item \in Items /\ Tail(pending) \in Seq(Items) /\ unit' = unit /\ registry' = registry
      BY <2>1, <2>5, PendingItem DEF PutEmpty, config, content
    <3>2. pending' \in Seq(Items) /\ Room'
      BY <2>1, <2>5, EmptySeq, PendingItem DEF PutEmpty, history, Room
    <3> QED
      BY <2>5, <3>1, <3>2 DEF PutEmpty, config, content, history, Typed, TypeOK, Registered
  <2> QED
    BY <1>3, <2>1, <2>2, <2>3, <2>4, <2>5, ReplaceTyped, WrapTransitionsTyped DEF PushItem
<1>4. ASSUME NEW selected, Read(selected) PROVE Typed'
  BY <1>4 DEF Read, config, Typed, TypeOK, Registered, Room
<1>5. CASE Clear
  <2>1. pointer' \in Positions /\ size' \in 0..Capacity
    BY <1>5, CapacityAssumption DEF Clear, Positions
  <2>2. rows' \in 0..MaxRows /\ biggest' \in 0..MaxRows /\ data' \in [Positions -> 0..MaxRows]
    BY <1>5, BoundsAssumption DEF Clear
  <2> QED
    BY <1>5, <2>1, <2>2, EmptySeq DEF Clear, config, Typed, TypeOK, Registered, Room
<1>6. CASE UNCHANGED vars
  BY <1>6 DEF vars, config, content, history, Typed, TypeOK, Registered, Room
<1> QED
  BY <1>1, <1>2, <1>3, <1>4, <1>5, <1>6 DEF Next, GetItem

\* Every variable keeps its type: in particular the pointer and the intervals stay within
\* the ring and the size never exceeds it, on every path through push.
THEOREM TypeCorrect == Spec => []TypeOK
<1>1. Typed => TypeOK
  BY DEF Typed
<1> QED
  BY <1>1, TypedInit, TypedStep, PTL DEF Spec
-----------------------------------------------------------------------------
(***************************************************************************)
(* The episodes in the ring.                                               *)
(***************************************************************************)
\* Holds, for any contents of the ring.
HeldIn(d, e, v) ==
    /\ v.end - v.begin = MinOf(e.last + 1 - e.first, Capacity)
    /\ \A i \in RowsOf(v) : d[i] = e.last + 1 + i - v.end

LEMMA HoldsIsHeldIn ==
    /\ EpisodesIntact <=> \A v \in registry : \E k \in DOMAIN log : HeldIn(data, log[k], v)
    /\ EpisodesIntact' <=>
          \A v \in registry' : \E k \in DOMAIN log' : HeldIn(data', log'[k], v)
BY DEF EpisodesIntact, Holds, HeldIn

LEMMA PlacedApart ==
    ASSUME Typed, NEW at, NEW old, Placed(at, old), unit = "episode", NEW v \in registry \ old
    PROVE  v.end <= at \/ at + N <= v.begin
<1>1. v \notin Overlapping(at, at + N)
  BY DEF Placed
<1>2. v.begin \in Nat /\ v.end \in Nat /\ at \in Nat /\ N \in Nat
  BY PendingItem DEF Placed, Typed, TypeOK, Interval
<1> QED
  BY <1>1, <1>2 DEF Overlapping

\* What a placed item changes of the rows, and what it leaves of the episodes.
LEMMA PlacedRows ==
    ASSUME Typed, NEW at, NEW old, Placed(at, old)
    PROVE  /\ Item \in Items /\ N \in Nat /\ N > 0 /\ rows \in Nat /\ rows' = rows + N
           /\ at \in Nat /\ at + N <= Capacity /\ Capacity \in Nat \ {0}
           /\ \A i \in at..(at + N - 1) : i \in Positions /\ data'[i] = rows + 1 + i - at
           /\ \A i \in Positions : i < at \/ at + N <= i => data'[i] = data[i]
           /\ unit = "episode" =>
                 \A v \in registry \ old : v.end <= at \/ at + N <= v.begin
<1>1. /\ Item \in Items /\ N \in Nat /\ N > 0 /\ rows \in Nat /\ rows' = rows + N
      /\ at \in Nat /\ at + N <= Capacity /\ Capacity \in Nat \ {0}
  BY AcceptTyped, CapacityAssumption DEF Placed, PutAt
<1>2. \A i \in at..(at + N - 1) : i \in Positions
  BY <1>1 DEF Positions
<1>3. \A i \in Positions :
         data'[i] = IF i \in at..(at + N - 1) THEN rows + 1 + (i - at) ELSE data[i]
  BY DEF Placed, PutAt, WriteAt
<1>4. \A i \in at..(at + N - 1) : data'[i] = rows + 1 + i - at
  BY <1>1, <1>2, <1>3
<1>5. \A i \in Positions : i < at \/ at + N <= i => data'[i] = data[i]
  BY <1>1, <1>3 DEF Positions
<1>6. unit = "episode" => \A v \in registry \ old : v.end <= at \/ at + N <= v.begin
  BY <1>1, PlacedApart
<1> QED
  BY <1>1, <1>2, <1>4, <1>5, <1>6

\* An interval whose rows are left alone still holds its episode.
LEMMA HeldStill ==
    ASSUME NEW v, NEW e, HeldIn(data, e, v), \A i \in RowsOf(v) : data'[i] = data[i]
    PROVE  HeldIn(data', e, v)
BY DEF HeldIn

\* A slice of rows written in order holds the episode numbered like it.
LEMMA SliceHeld ==
    ASSUME NEW d, NEW e, NEW v, NEW at \in Nat, NEW r \in Nat, NEW n \in Nat,
           NEW p \in Nat, NEW len \in Nat, p + len <= n, at + n <= Capacity,
           v.begin = at + p, v.end = at + p + len, e.first = r + 1 + p, e.last = r + p + len,
           \A i \in at..(at + n - 1) : d[i] = r + 1 + i - at
    PROVE  HeldIn(d, e, v)
<1>1. Capacity \in Nat
  BY CapacityAssumption
<1>2. v.end - v.begin = len /\ e.last + 1 - e.first = len /\ MinOf(len, Capacity) = len
  BY <1>1 DEF MinOf
<1>3. ASSUME NEW i \in RowsOf(v) PROVE d[i] = e.last + 1 + i - v.end
  <2>1. i \in at..(at + n - 1) /\ i \in Int
    BY DEF RowsOf
  <2> QED
    BY <2>1
<1> QED
  BY <1>2, <1>3 DEF HeldIn

\* The k-th sub-episode of a placed item is held by the k-th of its intervals.
LEMMA PlacedHeld ==
    ASSUME Typed, NEW at, NEW old, Placed(at, old), NEW k \in 0..(Item.n - 1),
           NEW v, v = [begin |-> at + k * Item.len, end |-> at + (k + 1) * Item.len]
    PROVE  HeldIn(data', log'[Len(log) + (k + 1)], v) /\ Len(log) + (k + 1) \in DOMAIN log'
<1>1. /\ Item \in Items /\ N \in Nat /\ N > 0 /\ rows \in Nat
      /\ at \in Nat /\ at + N <= Capacity /\ Capacity \in Nat \ {0}
      /\ \A i \in at..(at + N - 1) : data'[i] = rows + 1 + i - at
  BY PlacedRows
<1>2. /\ Item.n \in Nat \ {0} /\ Item.len \in Nat \ {0}
      /\ k * Item.len \in Nat /\ (k + 1) * Item.len = k * Item.len + Item.len
      /\ (k + 1) * Item.len <= N
  BY <1>1, SubEpisodes DEF N
<1>3. k + 1 \in 1..Item.n /\ (k + 1) - 1 = k
  BY <1>2
<1>4. /\ Len(log) + (k + 1) \in DOMAIN log'
      /\ log'[Len(log) + (k + 1)] = [first |-> rows + 1 + k * Item.len,
                                     last |-> rows + (k + 1) * Item.len]
  <2>1. /\ DOMAIN log' = 1..(Len(log) + Item.n) /\ Len(log) \in Nat
        /\ log'[Len(log) + (k + 1)] = [first |-> rows + 1 + ((k + 1) - 1) * Item.len,
                                       last |-> rows + (k + 1) * Item.len]
    BY <1>3, AcceptLog DEF Placed, PutAt
  <2> QED
    BY <1>2, <1>3, <2>1
<1> DEFINE e == log'[Len(log) + (k + 1)]
<1> DEFINE p == k * Item.len
<1>5. e.first = rows + 1 + p /\ e.last = rows + p + Item.len
  BY <1>1, <1>2, <1>4
<1>6. /\ v.begin = at + p /\ v.end = at + p + Item.len
      /\ p \in Nat /\ p + Item.len <= N /\ Item.len \in Nat
  BY <1>1, <1>2
<1> HIDE DEF e, p
<1> QED
  BY <1>1, <1>4, <1>5, <1>6, SliceHeld DEF e

\* The sub-episodes of an item larger than the ring, those that are kept.
LEMMA ReplaceHeld ==
    ASSUME Typed, pending # <<>>, Replace, NEW v \in LastIntervals(Item)
    PROVE  \E k \in 1..Item.n :
              /\ Len(log) + k \in DOMAIN log' /\ HeldIn(data', log'[Len(log) + k], v)
              /\ Item.n # 1 => v.end = Capacity - (Item.n - k) * Item.len
<1>1. /\ Item \in Items /\ N \in Nat /\ rows \in Nat /\ Capacity \in Nat \ {0}
      /\ N > Capacity /\ rows' = rows + N
      /\ \A i \in Positions : data'[i] = rows + N - Capacity + 1 + i
  BY AcceptTyped, CapacityAssumption DEF Replace
<1>2. Item.n \in Nat \ {0} /\ Item.len \in Nat /\ N = Item.n * Item.len
  BY <1>1, SubEpisodes DEF N, DataSize
<1>3. /\ v \in Interval /\ v.begin < v.end /\ v.end <= Capacity
      /\ \/ Item.n = 1 /\ v.begin = 0 /\ v.end = Capacity
         \/ \E k \in 0..(Item.n - 1) :
               /\ v.end = Capacity - k * Item.len /\ v.begin = v.end - Item.len
               /\ k * Item.len \in Nat /\ Item.len <= v.end
  BY <1>1, LastWithin DEF N
<1>4. RowsOf(v) \subseteq Positions /\ RowsOf(v) \subseteq Int
  BY <1>1, <1>3 DEF RowsOf, Positions, Interval
<1>5. CASE Item.n = 1 /\ v.begin = 0 /\ v.end = Capacity
  <2> DEFINE e == log'[Len(log) + 1]
  <2>1. /\ Len(log) + 1 \in DOMAIN log'
        /\ e = [first |-> rows + 1 + (1 - 1) * Item.len, last |-> rows + 1 * Item.len]
    BY <1>5, AcceptLog DEF Replace
  <2>2. (1 - 1) * Item.len = 0 /\ 1 * Item.len = N
    BY <1>2, <1>5
  <2>3. e.first = rows + 1 /\ e.last = rows + N
    BY <1>1, <2>1, <2>2
  <2> HIDE DEF e
  <2>4. v.end - v.begin = MinOf(e.last + 1 - e.first, Capacity)
    BY <1>1, <1>5, <2>3 DEF MinOf
  <2>5. \A i \in RowsOf(v) : data'[i] = e.last + 1 + i - v.end
    BY <1>1, <1>4, <1>5, <2>3
  <2>6. HeldIn(data', log'[Len(log) + 1], v)
    BY <2>4, <2>5 DEF HeldIn, e
  <2> QED
    BY <1>5, <2>1, <2>6
<1>6. CASE \E k \in 0..(Item.n - 1) :
              /\ v.end = Capacity - k * Item.len /\ v.begin = v.end - Item.len
              /\ k * Item.len \in Nat /\ Item.len <= v.end
  <2>1. PICK j \in 0..(Item.n - 1) :
              /\ v.end = Capacity - j * Item.len /\ v.begin = v.end - Item.len
              /\ j * Item.len \in Nat /\ Item.len <= v.end
    BY <1>6
  <2> DEFINE k == Item.n - j
             e == log'[Len(log) + k]
  <2>2. k \in 1..Item.n /\ Item.n - k = j /\ k \in Nat
    BY <1>2, <2>1
  <2>3. k * Item.len = N - j * Item.len /\ (k - 1) * Item.len = k * Item.len - Item.len
    <3>1. Item.n \in Int /\ Item.len \in Int /\ j \in Int /\ k \in Int
      BY <1>2, <2>1
    <3>2. (Item.n - j) * Item.len = Item.n * Item.len - j * Item.len
      BY <3>1, Difference
    <3> HIDE DEF k
    <3>3. (k - 1) * Item.len = k * Item.len - Item.len
      BY <3>1, Distribute
    <3> QED
      BY <1>2, <3>2, <3>3 DEF k
  <2>4. /\ Len(log) + k \in DOMAIN log'
        /\ e = [first |-> rows + 1 + (k - 1) * Item.len, last |-> rows + k * Item.len]
    <3>1. DOMAIN log' = 1..(Len(log) + Item.n) /\ Len(log) \in Nat
      BY AcceptLog DEF Replace
    <3>2. e = [first |-> rows + 1 + (k - 1) * Item.len, last |-> rows + k * Item.len]
      BY <2>2, AcceptLog DEF Replace
    <3>3. Item.n \in Nat
      BY <1>2
    <3> HIDE DEF e, k
    <3>4. Len(log) + k \in 1..(Len(log) + Item.n)
      BY <2>2, <3>1, <3>3
    <3> QED
      BY <3>1, <3>2, <3>4
  <2> DEFINE p == j * Item.len
  <2>5. e.first = rows + 1 + N - p - Item.len /\ e.last = rows + N - p
    BY <1>1, <1>2, <2>1, <2>3, <2>4
  <2>6. /\ Item.len \in Nat /\ Item.len <= Capacity /\ v.begin \in Nat /\ v.end \in Nat
        /\ p \in Nat /\ v.end = Capacity - p /\ v.begin = v.end - Item.len
    <3>1. v.begin \in Nat /\ v.end \in Nat
      BY <1>3 DEF Interval
    <3>2. p \in Nat /\ v.end = Capacity - p /\ v.begin = v.end - Item.len /\ Item.len <= v.end
      BY <2>1
    <3> QED
      BY <1>1, <1>2, <3>1, <3>2
  <2> HIDE DEF e, k, p
  <2>7. v.end - v.begin = MinOf(e.last + 1 - e.first, Capacity)
    <3>1. e.last + 1 - e.first = Item.len /\ v.end - v.begin = Item.len
      BY <1>1, <2>5, <2>6
    <3>2. MinOf(Item.len, Capacity) = Item.len
      BY <1>1, <2>6 DEF MinOf
    <3> QED
      BY <3>1, <3>2
  <2>8. \A i \in RowsOf(v) : data'[i] = e.last + 1 + i - v.end
    BY <1>1, <1>4, <2>5, <2>6
  <2>9. HeldIn(data', log'[Len(log) + k], v)
    BY <2>7, <2>8 DEF HeldIn, e
  <2> QED
    BY <2>1, <2>2, <2>4, <2>9 DEF k
<1> QED
  BY <1>3, <1>5, <1>6
LEMMA PlacedIntact ==
    ASSUME Typed, EpisodesIntact, NEW at, NEW old, Placed(at, old)
    PROVE  EpisodesIntact'
<1> SUFFICES ASSUME NEW v \in registry'
             PROVE  \E k \in DOMAIN log' : HeldIn(data', log'[k], v)
  BY HoldsIsHeldIn
<1>1. /\ registry' = IF unit = "episode" THEN (registry \ old) \cup IntervalsAt(at, Item)
                     ELSE registry
      /\ pending # <<>> /\ Accept
  BY DEF Placed, PutAt
<1>2. unit = "episode"
  BY <1>1, ConfigAssumption DEF Typed, TypeOK, Registered
<1>3. CASE v \in registry \ old
  <2>1. PICK k \in DOMAIN log : HeldIn(data, log[k], v)
    BY <1>3, HoldsIsHeldIn
  <2>2. k \in DOMAIN log' /\ log'[k] = log[k]
    BY <1>1, AcceptLog, PendingItem, SubEpisodes
  <2>3. \A i \in RowsOf(v) : data'[i] = data[i]
    <3>1. v.end <= at \/ at + N <= v.begin
      BY <1>2, <1>3, PlacedApart
    <3>2. v.begin \in Nat /\ v.end \in Nat /\ v.end <= Capacity
      BY <1>3 DEF Typed, TypeOK, Interval
    <3>3. \A i \in RowsOf(v) : i \in Positions /\ (i < at \/ at + N <= i)
      BY <3>1, <3>2, PlacedRows DEF RowsOf, Positions
    <3> QED
      BY <3>3, PlacedRows
  <2> QED
    BY <2>1, <2>2, <2>3, HeldStill
<1>4. CASE v \in IntervalsAt(at, Item)
  <2>1. PICK k \in 0..(Item.n - 1) :
             v = [begin |-> at + k * Item.len, end |-> at + (k + 1) * Item.len]
    BY <1>4 DEF IntervalsAt
  <2> QED
    BY <2>1, PlacedHeld
<1> QED
  BY <1>1, <1>2, <1>3, <1>4

LEMMA IntactInit == Init => EpisodesIntact
BY DEF Init, EpisodesIntact

LEMMA IntactStep == ASSUME Typed, EpisodesIntact, [Next]_vars PROVE EpisodesIntact'
<1>1. CASE UNCHANGED <<registry, data, log>>
  BY <1>1 DEF EpisodesIntact, Holds
<1>2. CASE PushItem
  <2>1. pending # <<>>
    BY <1>2 DEF PushItem
  <2>2. CASE PutNext
    BY <2>1, <2>2, PutNextPlaces, PlacedIntact
  <2>3. CASE WrapEpisode
    BY <2>1, <2>3, WrapEpisodePlaces, PlacedIntact
  <2>4. CASE WrapTransitions
    <3>1. unit = "transition" /\ registry' = registry
      BY <2>4 DEF WrapTransitions
    <3> QED
      BY <3>1 DEF Typed, Registered, EpisodesIntact
  <2>5. CASE Replace
    <3> SUFFICES ASSUME NEW v \in registry'
                 PROVE  \E k \in DOMAIN log' : HeldIn(data', log'[k], v)
      BY HoldsIsHeldIn
    <3>1. v \in LastIntervals(Item)
      BY <2>5, ConfigAssumption DEF Replace, Typed, TypeOK, Registered
    <3> QED
      BY <2>1, <2>5, <3>1, ReplaceHeld
  <2>6. CASE Refuse \/ PutEmpty
    BY <1>1, <2>6 DEF Refuse, PutEmpty, content, history
  <2> QED
    BY <1>2, <2>2, <2>3, <2>4, <2>5, <2>6 DEF PushItem
<1>3. CASE Clear
  BY <1>3 DEF Clear, EpisodesIntact
<1>4. CASE GetItem
  BY <1>1, <1>4 DEF GetItem, Read
<1>5. ASSUME NEW items, Push(items) PROVE EpisodesIntact'
  BY <1>1, <1>5 DEF Push, content, history
<1>6. CASE UNCHANGED vars
  BY <1>1, <1>6 DEF vars, content, history
<1> QED
  BY <1>2, <1>3, <1>4, <1>5, <1>6 DEF Next

\* Every registered interval holds one of the pushed episodes, whole and in order: no
\* wrap, eviction or oversized item leaves an interval over rows of another episode.
THEOREM EpisodesStayIntact == Spec => []EpisodesIntact
BY TypedInit, TypedStep, IntactInit, IntactStep, PTL DEF Spec
-----------------------------------------------------------------------------
(***************************************************************************)
(* The invariant: how rows and episodes are numbered, and how they lie in  *)
(* the ring.                                                               *)
(***************************************************************************)
\* Rows are numbered as they are written, read only once written, and kept by at most one
\* position.
Numbered ==
    /\ \A i \in Positions : data[i] <= rows
    /\ \A i, j \in Positions : data[i] = data[j] /\ data[i] > 0 => i = j
    /\ \A r \in 1..MaxRows : r > rows => reads[r] = 0

\* The log lists episodes without a row in common, in order.
Logged ==
    /\ \A k \in DOMAIN log : 1 <= log[k].first /\ log[k].first <= log[k].last /\ log[k].last <= rows
    /\ \A j, k \in DOMAIN log : j < k => log[j].last < log[k].last

\* A position that a read may select.
Live(i) == IF unit = "episode" THEN \E v \in registry : i \in RowsOf(v) ELSE data[i] > 0

Counted == \A i \in Positions : Live(i) => counter[i] = reads[data[i]]

\* In unit "transition" position i holds the row written as many rows ago as the pointer
\* has passed it.
Age(i) == IF i < pointer THEN pointer - 1 - i ELSE pointer - 1 - i + Capacity

Ring ==
    unit = "transition" =>
        /\ \A i \in Positions : data[i] = IF rows > Age(i) THEN rows - Age(i) ELSE 0
        /\ rows < Capacity => pointer = rows
        /\ size <= rows

\* In unit "episode" intervals are apart, none spans the pointer, none is longer than
\* the biggest item, and those behind the pointer are older than those in front of it.
Before(u, v) ==
    \/ u.begin >= pointer /\ v.begin < pointer
    \/ u.begin < v.begin /\ (u.begin >= pointer \/ v.begin < pointer)

Laid ==
    /\ \A u, v \in registry : u = v \/ u.end <= v.begin \/ v.end <= u.begin
    /\ \A v \in registry : v.end <= pointer \/ v.begin >= pointer
    /\ \A v \in registry : v.end - v.begin <= biggest
    /\ \A u, v \in registry : Before(u, v) => data[u.end - 1] < data[v.end - 1]

\* Until an item larger than the ring comes, the episodes cover the ring up to the pointer
\* and, once it has been filled, behind a first gap and up to a second.
Filled(q, t) ==
    /\ pointer <= q /\ q <= t /\ t <= Capacity
    /\ q - pointer < biggest /\ Capacity - t < biggest
    /\ \A i \in q..(t - 1) : Live(i)

Tiled ==
    unit = "episode" =>
        \/ biggest > Capacity
        \/ /\ \A i \in 0..(pointer - 1) : Live(i)
           /\ IF rows < Capacity THEN pointer = rows
              ELSE \E q, t \in 0..Capacity : Filled(q, t)

\* The actions that accept an item.
LEMMA AcceptingPaths ==
    ASSUME Typed, pending # <<>>
    PROVE  /\ WrapTransitions => N > 0 /\ Accept
           /\ Replace => N > 0 /\ Accept
<1>1. N \in Nat /\ Capacity \in Nat /\ pointer \in 0..(Capacity - 1)
  BY PendingItem, CapacityAssumption DEF Typed, TypeOK, Positions
<1>2. WrapTransitions => N > 0 /\ Accept
  BY <1>1 DEF WrapTransitions, Fits
<1>3. Replace => N > 0 /\ Accept
  BY <1>1 DEF Replace
<1> QED
  BY <1>2, <1>3

LEMMA Selected == Typed => Selections \subseteq SUBSET Positions
BY CapacityAssumption DEF Typed, TypeOK, Selections, Interval, RowsOf, Positions

LEMMA ReplaceRows ==
    ASSUME Typed, pending # <<>>, Replace
    PROVE  /\ N \in Nat /\ N > Capacity /\ Capacity \in Nat \ {0}
           /\ rows \in Nat /\ rows' = rows + N /\ unit' = unit
           /\ pointer' = 0 /\ size' = Capacity
           /\ \A i \in Positions : data'[i] = rows + N - Capacity + 1 + i /\ counter'[i] = 0
<1>1. /\ N \in Nat /\ N > Capacity /\ Capacity \in Nat \ {0}
      /\ rows \in Nat /\ rows' = rows + N /\ unit' = unit
  BY AcceptTyped, CapacityAssumption DEF Replace, Accept, config
<1>2. pointer' = 0
  <2>1. (0 + Capacity) % Capacity = 0 /\ 0 \in 0..(Capacity - 1)
    BY <1>1, Turn
  <2> QED
    BY <2>1 DEF Replace, Advance
<1>3. size' = Capacity
  <2>1. size \in 0..Capacity
    BY DEF Typed, TypeOK
  <2> QED
    BY <1>1, <2>1 DEF Replace, Advance, MinOf
<1> QED
  BY <1>1, <1>2, <1>3 DEF Replace

LEMMA NumberedStep == ASSUME Typed, Numbered, [Next]_vars PROVE Numbered'
<1>0. rows \in Nat /\ data \in [Positions -> Nat] /\ Positions = 0..(Capacity - 1)
  BY BoundsAssumption DEF Typed, TypeOK, Positions
<1>1. CASE UNCHANGED <<data, rows, reads>>
  BY <1>1 DEF Numbered
<1>2. ASSUME NEW at, NEW old, Placed(at, old) PROVE Numbered'
  <2>1. /\ N \in Nat /\ N > 0 /\ rows' = rows + N
        /\ at \in Nat /\ at + N <= Capacity /\ Capacity \in Nat \ {0}
        /\ \A i \in at..(at + N - 1) : i \in Positions /\ data'[i] = rows + 1 + i - at
        /\ \A i \in Positions : i < at \/ at + N <= i => data'[i] = data[i]
    BY <1>2, PlacedRows
  <2>2. reads' = reads
    BY <1>2 DEF Placed, PutAt, Accept
  <2>3. ASSUME NEW i \in Positions
        PROVE  \/ i \in at..(at + N - 1) /\ data'[i] = rows + 1 + i - at
               \/ data'[i] = data[i] /\ data[i] <= rows
    BY <1>0, <2>1 DEF Numbered
  <2>4. \A i \in Positions : data'[i] <= rows'
    BY <1>0, <2>1, <2>3
  <2>5. ASSUME NEW i \in Positions, NEW j \in Positions, data'[i] = data'[j], data'[i] > 0
        PROVE  i = j
    BY <1>0, <2>1, <2>3, <2>5 DEF Numbered
  <2>6. \A r \in 1..MaxRows : r > rows' => reads'[r] = 0
    BY <1>0, <2>1, <2>2, BoundsAssumption DEF Numbered
  <2> QED
    BY <2>4, <2>5, <2>6 DEF Numbered
<1>3. CASE pending # <<>> /\ WrapTransitions
  <2>1. /\ Capacity \in Nat \ {0} /\ N \in Nat /\ N <= Capacity /\ pointer + N > Capacity
        /\ pointer \in 0..(Capacity - 1) /\ pointer' = pointer + N - Capacity
        /\ \A i \in pointer..(Capacity - 1) : data'[i] = rows + 1 + i - pointer
        /\ \A i \in 0..(pointer' - 1) : data'[i] = rows + 1 + i + Capacity - pointer
        /\ \A i \in pointer'..(pointer - 1) : data'[i] = data[i]
    BY <1>3, SplitRows, CapacityAssumption DEF Typed, TypeOK, Positions
  <2>2. reads' = reads /\ rows' = rows + N
    BY <1>3 DEF WrapTransitions, Accept
  <2>3. ASSUME NEW i \in Positions
        PROVE  \/ i >= pointer /\ data'[i] = rows + 1 + i - pointer
               \/ i < pointer' /\ data'[i] = rows + 1 + i + Capacity - pointer
               \/ data'[i] = data[i] /\ data[i] <= rows
    BY <1>0, <2>1 DEF Numbered
  <2>4. ASSUME NEW i \in Positions PROVE data'[i] <= rows'
    <3>1. /\ i \in Nat /\ data[i] \in Nat /\ rows' = rows + N /\ N \in Nat
          /\ i < Capacity /\ Capacity - pointer < N /\ pointer' = pointer + N - Capacity
          /\ pointer \in Nat /\ Capacity \in Nat
      BY <1>0, <2>1, <2>2
    <3> QED
      BY <1>0, <2>3, <3>1
  <2>5. ASSUME NEW i \in Positions, NEW j \in Positions, data'[i] = data'[j], data'[i] > 0
        PROVE  i = j
    <3>1. /\ i \in Nat /\ j \in Nat /\ rows \in Nat /\ i < Capacity /\ j < Capacity
          /\ Capacity \in Nat /\ pointer \in Nat /\ N \in Nat /\ N <= Capacity
          /\ pointer' = pointer + N - Capacity /\ data[i] \in Nat /\ data[j] \in Nat
          /\ (data[i] = data[j] /\ data[i] > 0 => i = j)
      BY <1>0, <2>1 DEF Numbered
    <3> DEFINE next == pointer'
               new == data'[i]
               old1 == data[i]
               old2 == data[j]
    <3>2. /\ \/ i >= pointer /\ new = rows + 1 + i - pointer
             \/ i < next /\ new = rows + 1 + i + Capacity - pointer
             \/ new = old1 /\ old1 <= rows
          /\ \/ j >= pointer /\ new = rows + 1 + j - pointer
             \/ j < next /\ new = rows + 1 + j + Capacity - pointer
             \/ new = old2 /\ old2 <= rows
      BY <2>3, <2>5
    <3>3. /\ i \in Nat /\ j \in Nat /\ rows \in Nat /\ i < Capacity /\ j < Capacity
          /\ Capacity \in Nat /\ pointer \in Nat /\ pointer <= Capacity
          /\ next \in Nat /\ next <= pointer
          /\ new > 0 /\ old1 \in Nat /\ old2 \in Nat /\ (old1 = old2 /\ old1 > 0 => i = j)
      BY <2>1, <2>5, <3>1
    <3> HIDE DEF next, new, old1, old2
    <3>4. CASE i >= pointer /\ new = rows + 1 + i - pointer
      BY <3>2, <3>3, <3>4
    <3>5. CASE i < next /\ new = rows + 1 + i + Capacity - pointer
      BY <3>2, <3>3, <3>5
    <3>6. CASE new = old1 /\ old1 <= rows
      BY <3>2, <3>3, <3>6
    <3> QED
      BY <3>2, <3>4, <3>5, <3>6
  <2>6. \A r \in 1..MaxRows : r > rows' => reads'[r] = 0
    BY <1>0, <2>1, <2>2, BoundsAssumption DEF Numbered
  <2> QED
    BY <2>4, <2>5, <2>6 DEF Numbered
<1>4. CASE pending # <<>> /\ Replace
  <2>1. /\ N \in Nat /\ N > Capacity /\ Capacity \in Nat \ {0} /\ rows' = rows + N
        /\ \A i \in Positions : data'[i] = rows + N - Capacity + 1 + i
    BY <1>4, ReplaceRows
  <2>2. reads' = reads
    BY <1>4 DEF Replace, Accept
  <2>3. \A i \in Positions : data'[i] <= rows'
    BY <1>0, <2>1
  <2>4. \A i, j \in Positions : data'[i] = data'[j] => i = j
    BY <1>0, <2>1
  <2>5. \A r \in 1..MaxRows : r > rows' => reads'[r] = 0
    BY <1>0, <2>1, <2>2, BoundsAssumption DEF Numbered
  <2> QED
    BY <2>3, <2>4, <2>5 DEF Numbered
<1>5. CASE PushItem
  <2>1. CASE Refuse \/ PutEmpty
    BY <1>1, <2>1 DEF Refuse, PutEmpty, content, history
  <2> QED
    BY <1>2, <1>3, <1>4, <1>5, <2>1, PutNextPlaces, WrapEpisodePlaces DEF PushItem
<1>6. CASE Clear
  BY <1>6 DEF Clear, Numbered
<1>7. ASSUME NEW selected \in SUBSET Positions, Read(selected) PROVE Numbered'
  <2>1. /\ data' = data /\ rows' = rows
        /\ reads' = [r \in 1..MaxRows |->
                       IF \E i \in selected : data[i] = r THEN reads[r] + 1 ELSE reads[r]]
    BY <1>7 DEF Read
  <2> QED
    BY <2>1, <1>0 DEF Numbered
<1>8. ASSUME NEW items, Push(items) PROVE Numbered'
  BY <1>1, <1>8 DEF Push, content, history
<1>9. CASE UNCHANGED vars
  BY <1>1, <1>9 DEF vars, content, history
<1> QED
  BY <1>5, <1>6, <1>7, <1>8, <1>9, Selected DEF Next, GetItem
LEMMA Strict == \A a, b, c \in Nat : a < b /\ c > 0 => a * c < b * c
OBVIOUS

LEMMA AcceptLogged ==
    ASSUME Typed, Logged, pending # <<>>, N > 0, Accept
    PROVE  Logged'
<1>1. /\ Item \in Items /\ N \in Nat /\ rows \in Nat /\ rows' = rows + N
  BY AcceptTyped
<1>2. /\ Item.n \in Nat \ {0} /\ Item.len \in Nat \ {0} /\ N = Item.n * Item.len
  BY <1>1, SubEpisodes DEF N, DataSize
<1>3. /\ Len(log) \in Nat /\ DOMAIN log' = 1..(Len(log) + Item.n) /\ DOMAIN log = 1..Len(log)
      /\ \A k \in DOMAIN log : log'[k] = log[k]
      /\ \A k \in 1..Item.n :
            log'[Len(log) + k] = [first |-> rows + 1 + (k - 1) * Item.len,
                                  last |-> rows + k * Item.len]
  BY AcceptLog
<1>4. ASSUME NEW k \in 1..Item.n
      PROVE  /\ k * Item.len \in Nat /\ k * Item.len <= N
             /\ log'[Len(log) + k].last = rows + k * Item.len
             /\ log'[Len(log) + k].first = rows + 1 + k * Item.len - Item.len
             /\ k * Item.len >= Item.len
  <2>1. k * Item.len \in Nat /\ k * Item.len <= N
    BY <1>2, Product, Monotone
  <2>2. (k - 1) * Item.len = k * Item.len - Item.len /\ (k - 1) * Item.len \in Nat
    BY <1>2, Product, Distribute
  <2> DEFINE p == k * Item.len
             q == (k - 1) * Item.len
  <2>3. log'[Len(log) + k].last = rows + p /\ log'[Len(log) + k].first = rows + 1 + q
    <3>1. log'[Len(log) + k] = [first |-> rows + 1 + q, last |-> rows + p]
      BY <1>3
    <3> HIDE DEF p, q
    <3> QED
      BY <3>1
  <2>4. p \in Nat /\ p <= N /\ q = p - Item.len /\ q \in Nat
    BY <2>1, <2>2
  <2> HIDE DEF p, q
  <2>5. log'[Len(log) + k].first = rows + 1 + p - Item.len /\ p >= Item.len
    BY <1>1, <1>2, <2>3, <2>4
  <2> QED
    BY <2>3, <2>4, <2>5 DEF p
<1>5. ASSUME NEW k \in DOMAIN log'
      PROVE  \/ k \in DOMAIN log /\ log'[k] = log[k]
             \/ \E j \in 1..Item.n : k = Len(log) + j
  <2>1. CASE k <= Len(log)
    BY <1>3, <2>1
  <2>2. CASE k > Len(log)
    <3>1. k - Len(log) \in 1..Item.n /\ k = Len(log) + (k - Len(log))
      BY <1>2, <1>3, <2>2
    <3> QED
      BY <3>1
  <2> QED
    BY <1>2, <1>3, <2>1, <2>2
<1>6. \A k \in DOMAIN log : /\ log[k] \in Episode /\ 1 <= log[k].first
                            /\ log[k].first <= log[k].last /\ log[k].last <= rows
  BY <1>3, ElementOfSeq DEF Logged, Typed, TypeOK
<1>7. ASSUME NEW k \in DOMAIN log'
      PROVE  /\ 1 <= log'[k].first /\ log'[k].first <= log'[k].last
             /\ log'[k].last <= rows'
  <2>1. CASE k \in DOMAIN log /\ log'[k] = log[k]
    BY <1>1, <1>6, <2>1 DEF Episode
  <2>2. ASSUME NEW j \in 1..Item.n, k = Len(log) + j
        PROVE  /\ 1 <= log'[k].first /\ log'[k].first <= log'[k].last
               /\ log'[k].last <= rows'
    <3> DEFINE p == j * Item.len
    <3>1. /\ p \in Nat /\ p <= N /\ p >= Item.len
          /\ log'[k].last = rows + p /\ log'[k].first = rows + 1 + p - Item.len
      BY <1>4, <2>2
    <3> HIDE DEF p
    <3> QED
      BY <1>1, <1>2, <3>1
  <2> QED
    BY <1>5, <2>1, <2>2
<1>8. ASSUME NEW j \in DOMAIN log', NEW k \in DOMAIN log', j < k
      PROVE  log'[j].last < log'[k].last
  <2>1. CASE k \in DOMAIN log
    BY <1>3, <1>8, <2>1 DEF Logged
  <2>2. CASE k \notin DOMAIN log
    <3>1. PICK b \in 1..Item.n : k = Len(log) + b
      BY <1>5, <2>2
    <3> DEFINE q == b * Item.len
    <3>2. q \in Nat /\ q >= Item.len /\ log'[k].last = rows + q
      BY <1>4, <3>1
    <3>3. CASE j \in DOMAIN log
      <4>1. log'[j].last <= rows /\ log'[j].last \in Nat
        BY <1>3, <1>6, <3>3 DEF Episode
      <4> HIDE DEF q
      <4> QED
        BY <1>1, <1>2, <3>2, <4>1
    <3>4. CASE j \notin DOMAIN log
      <4>1. PICK a \in 1..Item.n : j = Len(log) + a
        BY <1>5, <3>4
      <4> DEFINE p == a * Item.len
      <4>2. p \in Nat /\ log'[j].last = rows + p
        BY <1>4, <4>1
      <4>3. a < b /\ a \in Nat /\ b \in Nat
        BY <1>3, <1>8, <3>1, <4>1
      <4>4. p < q
        BY <1>2, <4>3, Strict
      <4> HIDE DEF p, q
      <4> QED
        BY <1>1, <3>2, <4>2, <4>4
    <3> QED
      BY <3>3, <3>4
  <2> QED
    BY <2>1, <2>2
<1> QED
  BY <1>7, <1>8 DEF Logged

LEMMA LoggedStep == ASSUME Typed, Logged, [Next]_vars PROVE Logged'
<1>1. CASE UNCHANGED <<log, rows>>
  BY <1>1 DEF Logged
<1>2. CASE PushItem
  <2>1. CASE Refuse \/ PutEmpty
    BY <1>1, <2>1 DEF Refuse, PutEmpty, history
  <2> QED
    BY <1>2, <2>1, AcceptLogged, AcceptingPaths, PutNextPlaces, WrapEpisodePlaces
       DEF PushItem, Placed, PutAt
<1>3. CASE Clear
  BY <1>3 DEF Clear, Logged
<1>4. CASE GetItem
  BY <1>1, <1>4 DEF GetItem, Read
<1>5. ASSUME NEW items, Push(items) PROVE Logged'
  BY <1>1, <1>5 DEF Push, history
<1>6. CASE UNCHANGED vars
  BY <1>1, <1>6 DEF vars, history
<1> QED
  BY <1>2, <1>3, <1>4, <1>5, <1>6 DEF Next
-----------------------------------------------------------------------------
(***************************************************************************)
(* How the intervals lie.                                                  *)
(***************************************************************************)

\* Sub-episodes of one length, counted from either end, are apart and ordered.
LEMMA Steps ==
    ASSUME NEW a \in Nat, NEW b \in Nat, NEW c \in Nat
    PROVE  \/ a = b
           \/ a < b /\ a * c + c <= b * c
           \/ b < a /\ b * c + c <= a * c
<1>1. CASE a < b
  BY <1>1, Monotone, Distribute
<1>2. CASE b < a
  BY <1>2, Monotone, Distribute
<1> QED
  BY <1>1, <1>2

LEMMA IntervalsApart ==
    ASSUME NEW item \in Items, DataSize(item) > 0, NEW at \in Nat,
           NEW u \in IntervalsAt(at, item), NEW v \in IntervalsAt(at, item)
    PROVE  u = v \/ u.end <= v.begin \/ v.end <= u.begin
<1>1. PICK j \in 0..(item.n - 1) :
             u = [begin |-> at + j * item.len, end |-> at + (j + 1) * item.len]
  BY DEF IntervalsAt
<1>2. PICK k \in 0..(item.n - 1) :
             v = [begin |-> at + k * item.len, end |-> at + (k + 1) * item.len]
  BY DEF IntervalsAt
<1>3. /\ item.len \in Nat /\ j \in Nat /\ k \in Nat
      /\ j * item.len \in Nat /\ (j + 1) * item.len = j * item.len + item.len
      /\ k * item.len \in Nat /\ (k + 1) * item.len = k * item.len + item.len
  BY SubEpisodes
<1> DEFINE p == j * item.len
           q == k * item.len
<1>4. /\ u.begin = at + p /\ u.end = at + (p + item.len)
      /\ v.begin = at + q /\ v.end = at + (q + item.len)
      /\ p \in Nat /\ q \in Nat
  BY <1>1, <1>2, <1>3
<1>5. j = k \/ p + item.len <= q \/ q + item.len <= p
  BY <1>3, Steps
<1>6. j = k => u = v
  BY <1>1, <1>2
<1> HIDE DEF p, q
<1> QED
  BY <1>3, <1>4, <1>5, <1>6

LEMMA LastApart ==
    ASSUME NEW item \in Items, DataSize(item) > Capacity,
           NEW u \in LastIntervals(item), NEW v \in LastIntervals(item)
    PROVE  /\ u = v \/ u.end <= v.begin \/ v.end <= u.begin
           /\ u.begin < v.begin => u.end < v.end
<1>1. /\ u \in Interval /\ u.begin < u.end /\ u.end <= Capacity
      /\ v \in Interval /\ v.begin < v.end /\ v.end <= Capacity
  BY LastWithin
<1>2. /\ u.begin \in Nat /\ u.end \in Nat /\ v.begin \in Nat /\ v.end \in Nat
      /\ u = [begin |-> u.begin, end |-> u.end] /\ v = [begin |-> v.begin, end |-> v.end]
      /\ Capacity \in Nat /\ item.len \in Nat /\ item.n \in Nat
  BY <1>1, CapacityAssumption, SubEpisodes DEF Interval
<1>3. CASE item.n = 1
  BY <1>3 DEF LastIntervals
<1>4. CASE item.n # 1
  <2>1. PICK j \in 0..(item.n - 1) : /\ u.end = Capacity - j * item.len
                                     /\ u.begin = u.end - item.len /\ j * item.len \in Nat
    BY <1>4, LastWithin
  <2>2. PICK k \in 0..(item.n - 1) : /\ v.end = Capacity - k * item.len
                                     /\ v.begin = v.end - item.len /\ k * item.len \in Nat
    BY <1>4, LastWithin
  <2>3. \/ j = k \/ j * item.len + item.len <= k * item.len
        \/ k * item.len + item.len <= j * item.len
    BY <1>2, Steps
  <2> DEFINE p == j * item.len
             q == k * item.len
  <2>4. /\ u.end = Capacity - p /\ u.begin = u.end - item.len /\ p \in Nat
        /\ v.end = Capacity - q /\ v.begin = v.end - item.len /\ q \in Nat
        /\ p = q \/ p + item.len <= q \/ q + item.len <= p
    BY <2>1, <2>2, <2>3
  <2> HIDE DEF p, q
  <2>5. u.begin < v.begin => u.end < v.end
    BY <1>2, <2>4
  <2>6. CASE p = q
    BY <1>2, <2>4, <2>6
  <2>7. CASE p + item.len <= q \/ q + item.len <= p
    BY <1>2, <2>4, <2>7
  <2> QED
    BY <2>4, <2>5, <2>6, <2>7
<1> QED
  BY <1>3, <1>4

LEMMA PlacedPointer ==
    ASSUME Typed, NEW at, NEW old, Placed(at, old)
    PROVE  pointer' = IF at + N = Capacity THEN 0 ELSE at + N
<1>1. N \in Nat /\ at \in Nat /\ at + N <= Capacity /\ Capacity \in Nat \ {0}
  BY PlacedRows
<1>2. pointer' = (at + N) % Capacity
  BY DEF Placed, PutAt, Advance
<1>3. CASE at + N = Capacity
  <2>1. (0 + Capacity) % Capacity = 0
    BY <1>1, Turn
  <2> QED
    BY <1>1, <1>2, <1>3, <2>1
<1>4. CASE at + N # Capacity
  <2>1. at + N \in 0..(Capacity - 1)
    BY <1>1, <1>4
  <2> QED
    BY <1>2, <1>4, <2>1, Small
<1> QED
  BY <1>3, <1>4

\* The episodes that are kept when an item is placed lie as this says: on either side of
\* it, or all behind it and in front of where the pointer was.
Spared(at, old) ==
    \/ at = pointer
    \/ at = 0 /\ \A w \in registry \ old : N <= w.begin /\ w.end <= pointer

\* Old intervals keep their order, and the new ones come last.
LEMMA PlacedOrder ==
    ASSUME Typed, Laid, NEW at, NEW old, Placed(at, old), Spared(at, old), unit = "episode",
           NEW u \in registry', NEW v \in registry', Before(u, v)'
    PROVE  /\ u \in registry \ old /\ v \in registry \ old => Before(u, v)
           /\ u \in IntervalsAt(at, Item) => v \in IntervalsAt(at, Item) /\ u.begin < v.begin
<1>1. /\ N \in Nat /\ N > 0 /\ at \in Nat /\ at + N <= Capacity /\ Capacity \in Nat \ {0}
      /\ pointer \in 0..(Capacity - 1) /\ Item \in Items
  BY PlacedRows DEF Typed, TypeOK, Positions
<1>2. pointer' = IF at + N = Capacity THEN 0 ELSE at + N
  BY PlacedPointer
<1>3. registry' = (registry \ old) \cup IntervalsAt(at, Item)
  BY DEF Placed, PutAt
<1>4. \A w \in registry : /\ w.begin \in Nat /\ w.end \in Nat /\ w.begin < w.end
                          /\ w.end <= Capacity /\ (w.end <= pointer \/ pointer <= w.begin)
  BY DEF Laid, Typed, TypeOK, Interval
<1>5. \A w \in registry \ old : w.end <= at \/ at + N <= w.begin
  BY PlacedApart
<1>6. \A w \in IntervalsAt(at, Item) : /\ w.begin \in Nat /\ w.end \in Nat
                                       /\ at <= w.begin /\ w.begin < w.end /\ w.end <= at + N
  BY <1>1, IntervalsWithin DEF N, Interval
<1>7. \/ u.begin >= pointer' /\ v.begin < pointer'
      \/ u.begin < v.begin /\ (u.begin >= pointer' \/ v.begin < pointer')
  BY DEF Before
<1>8. ASSUME u \in registry \ old, v \in registry \ old PROVE Before(u, v)
  <2>1. /\ u.begin \in Nat /\ u.end \in Nat /\ u.begin < u.end /\ u.end <= Capacity
        /\ v.begin \in Nat /\ v.end \in Nat /\ v.begin < v.end /\ v.end <= Capacity
        /\ u.end <= at \/ at + N <= u.begin
        /\ v.end <= at \/ at + N <= v.begin
    BY <1>4, <1>5, <1>8
  <2>2. CASE at = pointer
    BY <1>1, <1>2, <1>7, <2>1, <2>2 DEF Before
  <2>3. CASE at = 0 /\ N <= u.begin /\ u.end <= pointer /\ N <= v.begin /\ v.end <= pointer
    BY <1>1, <1>2, <1>7, <2>1, <2>3 DEF Before
  <2> QED
    BY <1>8, <2>2, <2>3 DEF Spared
<1>9. ASSUME u \in IntervalsAt(at, Item), v \in registry \ old PROVE FALSE
  <2>1. /\ u.begin \in Nat /\ at <= u.begin /\ u.begin < at + N
        /\ v.begin \in Nat /\ v.end \in Nat /\ v.begin < v.end /\ v.end <= Capacity
        /\ v.end <= at \/ at + N <= v.begin
    BY <1>1, <1>4, <1>5, <1>6, <1>9
  <2>2. CASE at = pointer
    BY <1>1, <1>2, <1>7, <2>1, <2>2
  <2>3. CASE at = 0 /\ N <= v.begin /\ v.end <= pointer
    BY <1>1, <1>2, <1>7, <2>1, <2>3
  <2> QED
    BY <1>9, <2>2, <2>3 DEF Spared
<1>10. ASSUME u \in IntervalsAt(at, Item), v \in IntervalsAt(at, Item) PROVE u.begin < v.begin
  <2>1. /\ u.begin \in Nat /\ at <= u.begin /\ u.begin < at + N
        /\ v.begin \in Nat /\ at <= v.begin /\ v.begin < at + N
    BY <1>1, <1>6, <1>10
  <2> QED
    BY <1>1, <1>2, <1>7, <2>1
<1> QED
  BY <1>3, <1>8, <1>9, <1>10
LEMMA PlacedLaid ==
    ASSUME Typed, Numbered, Laid, NEW at, NEW old, Placed(at, old), Spared(at, old),
           unit = "episode"
    PROVE  Laid'
<1>1. /\ N \in Nat /\ N > 0 /\ at \in Nat /\ at + N <= Capacity /\ Capacity \in Nat \ {0}
      /\ Item \in Items /\ rows \in Nat
      /\ \A i \in at..(at + N - 1) : i \in Positions /\ data'[i] = rows + 1 + i - at
      /\ \A i \in Positions : i < at \/ at + N <= i => data'[i] = data[i]
  BY PlacedRows
<1>2. pointer' = IF at + N = Capacity THEN 0 ELSE at + N
  BY PlacedPointer
<1>3. /\ registry' = (registry \ old) \cup IntervalsAt(at, Item)
      /\ biggest' = MaxOf(biggest, N) /\ biggest \in Nat
  BY BoundsAssumption DEF Placed, PutAt, Accept, Typed, TypeOK
<1>4. \A w \in registry \ old : /\ w.begin \in Nat /\ w.end \in Nat /\ w.begin < w.end
                                /\ w.end <= Capacity /\ w.end - w.begin <= biggest
                                /\ w.end <= at \/ at + N <= w.begin
  BY PlacedApart DEF Laid, Typed, TypeOK, Interval
<1>5. \A w \in IntervalsAt(at, Item) : /\ w.begin \in Nat /\ w.end \in Nat
                                       /\ w.end = w.begin + Item.len /\ Item.len \in Nat
                                       /\ at <= w.begin /\ w.begin < w.end /\ w.end <= at + N
  BY <1>1, IntervalsWithin, SubEpisodes DEF N, Interval
<1>6. ASSUME NEW u \in registry', NEW v \in registry'
      PROVE  u = v \/ u.end <= v.begin \/ v.end <= u.begin
  <2>1. CASE u \in registry \ old /\ v \in registry \ old
    BY <2>1 DEF Laid
  <2>2. CASE u \in IntervalsAt(at, Item) /\ v \in IntervalsAt(at, Item)
    BY <1>1, <2>2, IntervalsApart DEF N
  <2>3. CASE u \in registry \ old /\ v \in IntervalsAt(at, Item)
    BY <1>1, <1>4, <1>5, <2>3
  <2>4. CASE u \in IntervalsAt(at, Item) /\ v \in registry \ old
    BY <1>1, <1>4, <1>5, <2>4
  <2> QED
    BY <1>3, <2>1, <2>2, <2>3, <2>4
<1>7. ASSUME NEW v \in registry'
      PROVE  (v.end <= pointer' \/ v.begin >= pointer') /\ v.end - v.begin <= biggest'
  <2>1. CASE v \in registry \ old
    BY <1>1, <1>2, <1>3, <1>4, <2>1 DEF MaxOf
  <2>2. CASE v \in IntervalsAt(at, Item)
    BY <1>1, <1>2, <1>3, <1>5, <2>2 DEF MaxOf
  <2> QED
    BY <1>3, <2>1, <2>2
<1>8. ASSUME NEW u \in registry', NEW v \in registry', Before(u, v)'
      PROVE  data'[u.end - 1] < data'[v.end - 1]
  <2>1. \A w \in registry \ old : /\ w.end - 1 \in Positions
                                  /\ data'[w.end - 1] = data[w.end - 1]
                                  /\ data[w.end - 1] <= rows /\ data[w.end - 1] \in Nat
    <3> SUFFICES ASSUME NEW w \in registry \ old
                 PROVE  /\ w.end - 1 \in Positions /\ data'[w.end - 1] = data[w.end - 1]
                        /\ data[w.end - 1] <= rows /\ data[w.end - 1] \in Nat
      OBVIOUS
    <3>1. w.end - 1 \in Positions /\ (w.end - 1 < at \/ at + N <= w.end - 1)
      BY <1>1, <1>4 DEF Positions
    <3> QED
      BY <1>1, <3>1, BoundsAssumption DEF Numbered, Typed, TypeOK
  <2>2. \A w \in IntervalsAt(at, Item) : data'[w.end - 1] = rows + 1 + (w.end - 1) - at
    BY <1>1, <1>5
  <2>3. CASE u \in registry \ old /\ v \in registry \ old
    <3>1. Before(u, v)
      BY <1>8, <2>3, PlacedOrder
    <3> QED
      BY <2>1, <2>3, <3>1 DEF Laid
  <2>4. CASE u \in registry \ old /\ v \in IntervalsAt(at, Item)
    BY <1>1, <1>5, <2>1, <2>2, <2>4
  <2>5. CASE u \in IntervalsAt(at, Item)
    <3>1. v \in IntervalsAt(at, Item) /\ u.begin < v.begin
      BY <1>8, <2>5, PlacedOrder
    <3> QED
      BY <1>1, <1>5, <2>2, <2>5, <3>1
  <2> QED
    BY <1>3, <2>3, <2>4, <2>5
<1> QED
  BY <1>6, <1>7, <1>8 DEF Laid

LEMMA ReplaceLaid ==
    ASSUME Typed, Laid, pending # <<>>, Replace, unit = "episode"
    PROVE  Laid'
<1>1. /\ N \in Nat /\ N > Capacity /\ Capacity \in Nat \ {0} /\ rows \in Nat /\ pointer' = 0
      /\ \A i \in Positions : data'[i] = rows + N - Capacity + 1 + i
      /\ registry' = LastIntervals(Item) /\ Item \in Items
      /\ biggest' = MaxOf(biggest, N) /\ biggest \in Nat
  <2>1. registry' = LastIntervals(Item) /\ biggest' = MaxOf(biggest, N)
    BY DEF Replace, Accept
  <2>2. Item \in Items
    BY PendingItem
  <2>3. biggest \in Nat
    BY BoundsAssumption DEF Typed, TypeOK
  <2> QED
    BY <2>1, <2>2, <2>3, ReplaceRows
<1>2. \A w \in registry' : /\ w.begin \in Nat /\ w.end \in Nat
                           /\ w.begin < w.end /\ w.end <= Capacity
                           /\ w.end - 1 \in Positions
  BY <1>1, LastWithin DEF N, Interval, Positions
<1>3. \A u, v \in registry' : u = v \/ u.end <= v.begin \/ v.end <= u.begin
  BY <1>1, LastApart DEF N
<1>4. \A v \in registry' : v.begin >= pointer' /\ v.end - v.begin <= biggest'
  BY <1>1, <1>2 DEF MaxOf
<1>5. ASSUME NEW u \in registry', NEW v \in registry', Before(u, v)'
      PROVE  data'[u.end - 1] < data'[v.end - 1]
  <2>1. u.begin < v.begin
    BY <1>1, <1>2, <1>5 DEF Before
  <2>2. u.end < v.end
    BY <1>1, <2>1, LastApart DEF N
  <2> QED
    BY <1>1, <1>2, <2>2
<1> QED
  BY <1>3, <1>4, <1>5 DEF Laid

\* What PutNext and WrapEpisode keep.
LEMMA PutNextSpares == ASSUME PutNext PROVE Spared(pointer, Overlapping(pointer, pointer + N))
BY DEF Spared

LEMMA WrapEpisodeSpares ==
    ASSUME Typed, Laid, pending # <<>>, WrapEpisode
    PROVE  Spared(0, Overlapping(pointer, Capacity) \cup Overlapping(0, N))
<1>1. \A w \in registry : /\ w.begin \in Nat /\ w.end \in Nat /\ w.begin < w.end
                          /\ w.end <= Capacity
  BY DEF Typed, TypeOK, Interval
<1>2. pointer \in Nat /\ Capacity \in Nat /\ N \in Nat
  BY PendingItem, CapacityAssumption DEF Typed, TypeOK, Positions
<1> QED
  BY <1>1, <1>2 DEF Spared, Overlapping

LEMMA LaidStep == ASSUME Typed, Numbered, Laid, [Next]_vars PROVE Laid'
<1>1. CASE UNCHANGED <<registry, pointer, data, biggest>>
  BY <1>1 DEF Laid, Before
<1>2. CASE registry' = {}
  BY <1>2 DEF Laid
<1>3. CASE PushItem
  <2>1. CASE Refuse \/ PutEmpty
    BY <1>1, <2>1 DEF Refuse, PutEmpty, content, history
  <2>2. CASE unit = "transition"
    <3>1. unit' = "transition"
      BY <1>3, <2>2 DEF PushItem, PutNext, PutAt, WrapEpisode, WrapTransitions, Replace,
                        Refuse, PutEmpty, Accept, config
    <3>2. Typed'
      BY TypedStep, <1>3 DEF Next
    <3> QED
      BY <1>2, <3>1, <3>2 DEF Typed, Registered
  <2>3. CASE unit = "episode"
    <3>1. pending # <<>>
      BY <1>3 DEF PushItem
    <3>2. CASE PutNext
      BY <2>3, <3>1, <3>2, PutNextPlaces, PutNextSpares, PlacedLaid
    <3>3. CASE WrapEpisode
      BY <2>3, <3>1, <3>3, WrapEpisodePlaces, WrapEpisodeSpares, PlacedLaid
    <3>4. CASE Replace
      BY <2>3, <3>1, <3>4, ReplaceLaid
    <3> QED
      BY <1>3, <2>1, <2>3, <3>2, <3>3, <3>4 DEF PushItem, WrapTransitions
  <2> QED
    BY <2>2, <2>3, ConfigAssumption DEF Typed, TypeOK
<1>4. CASE Clear
  BY <1>2, <1>4 DEF Clear
<1>5. CASE GetItem
  BY <1>1, <1>5 DEF GetItem, Read
<1>6. ASSUME NEW items, Push(items) PROVE Laid'
  BY <1>1, <1>6 DEF Push, content, history
<1>7. CASE UNCHANGED vars
  BY <1>1, <1>7 DEF vars, content, history
<1> QED
  BY <1>3, <1>4, <1>5, <1>6, <1>7 DEF Next
-----------------------------------------------------------------------------
(***************************************************************************)
(* What a read selects, and how often.                                     *)
(***************************************************************************)
LEMMA LiveWritten ==
    ASSUME Typed, EpisodesIntact, Logged, NEW i \in Positions, Live(i)
    PROVE  data[i] > 0
<1>1. CASE unit = "episode"
  <2>1. PICK v \in registry : i \in RowsOf(v)
    BY <1>1 DEF Live
  <2>2. PICK k \in DOMAIN log : HeldIn(data, log[k], v)
    BY HoldsIsHeldIn
  <2>3. /\ log[k].first \in Nat /\ log[k].last \in Nat
        /\ 1 <= log[k].first /\ log[k].first <= log[k].last
    <3>1. log[k] \in Episode
      BY DEF Typed, TypeOK
    <3> QED
      BY <3>1 DEF Logged, Episode
  <2>4. v.begin \in Nat /\ v.end \in Nat /\ i \in Int /\ v.begin <= i
    BY <2>1 DEF RowsOf, Typed, TypeOK, Interval
  <2>5. v.end - v.begin <= log[k].last + 1 - log[k].first
    <3>1. \A a, b \in Int : MinOf(a, b) <= a
      BY DEF MinOf
    <3>2. log[k].last + 1 - log[k].first \in Int /\ Capacity \in Int
      BY <2>3, CapacityAssumption
    <3>3. v.end - v.begin = MinOf(log[k].last + 1 - log[k].first, Capacity)
      BY <2>2 DEF HeldIn
    <3> QED
      BY <3>1, <3>2, <3>3
  <2>6. data[i] = log[k].last + 1 + i - v.end
    BY <2>1, <2>2 DEF HeldIn
  <2> QED
    BY <2>3, <2>4, <2>5, <2>6
<1>2. CASE unit # "episode"
  BY <1>2 DEF Live
<1> QED
  BY <1>1, <1>2

\* A row that was just written has not been read.
LEMMA NewUnread ==
    ASSUME Typed, Numbered, NEW r \in 1..MaxRows, r > rows
    PROVE  reads[r] = 0
BY DEF Numbered

LEMMA PlacedCounted ==
    ASSUME Typed, Numbered, Laid, Counted, NEW at, NEW old, Placed(at, old)
    PROVE  Counted'
<1> SUFFICES ASSUME NEW i \in Positions, Live(i)' PROVE counter'[i] = reads'[data'[i]]
  BY DEF Counted
<1>1. /\ N \in Nat /\ N > 0 /\ at \in Nat /\ at + N <= Capacity /\ Capacity \in Nat \ {0}
      /\ Item \in Items /\ rows \in Nat
      /\ \A j \in at..(at + N - 1) : j \in Positions /\ data'[j] = rows + 1 + j - at
      /\ \A j \in Positions : j < at \/ at + N <= j => data'[j] = data[j]
  BY PlacedRows
<1>2. reads' = reads /\ unit' = unit /\ old \subseteq registry
  BY DEF Placed, PutAt, Accept, config
<1>3. data'[i] \in 0..MaxRows
  BY PlacedTyped DEF Typed, TypeOK
<1>4. CASE i \in at..(at + N - 1)
  <2>1. counter'[i] = 0
    BY <1>4 DEF Placed, PutAt, Recount
  <2>2. data'[i] > rows
    BY <1>1, <1>4
  <2> QED
    BY <1>1, <1>2, <1>3, <2>1, <2>2, NewUnread
<1>5. CASE i \notin at..(at + N - 1)
  <2>1. data'[i] = data[i]
    BY <1>1, <1>5 DEF Positions
  <2>2. CASE unit = "episode"
    <3>1. /\ registry' = (registry \ old) \cup IntervalsAt(at, Item)
          /\ counter' = Recount(old, at..(at + N - 1))
      BY <2>2 DEF Placed, PutAt
    <3>2. PICK v \in registry' : i \in RowsOf(v)
      BY <1>2, <2>2 DEF Live
    <3>3. v \in registry \ old
      <4>1. \A w \in IntervalsAt(at, Item) : RowsOf(w) \subseteq at..(at + N - 1)
        BY <1>1, IntervalsWithin DEF RowsOf, N, Interval
      <4> QED
        BY <1>5, <3>1, <3>2, <4>1
    <3>4. \A u \in old : i \notin RowsOf(u)
      <4>1. \A u \in registry : u.begin \in Nat /\ u.end \in Nat
        BY DEF Typed, TypeOK, Interval
      <4>2. \A u \in old : u # v /\ (u.end <= v.begin \/ v.end <= u.begin)
        BY <1>2, <3>3 DEF Laid
      <4> QED
        BY <1>2, <3>2, <3>3, <4>1, <4>2 DEF RowsOf
    <3>5. counter'[i] = counter[i]
      BY <1>5, <3>1, <3>4 DEF Recount
    <3>6. Live(i)
      BY <2>2, <3>2, <3>3 DEF Live
    <3> QED
      BY <1>2, <2>1, <3>5, <3>6 DEF Counted
  <2>3. CASE unit # "episode"
    <3>1. counter'[i] = counter[i]
      BY <1>5, <2>3 DEF Placed, PutAt, Recount
    <3>2. Live(i)
      BY <1>2, <2>1, <2>3 DEF Live
    <3> QED
      BY <1>2, <2>1, <3>1, <3>2 DEF Counted
  <2> QED
    BY <2>2, <2>3
<1> QED
  BY <1>4, <1>5

LEMMA CountedStep ==
    ASSUME Typed, EpisodesIntact, Numbered, Logged, Laid, Counted, [Next]_vars
    PROVE  Counted'
<1>0. rows \in Nat /\ Capacity \in Nat \ {0} /\ Positions = 0..(Capacity - 1)
  BY CapacityAssumption DEF Typed, TypeOK, Positions
<1>1. CASE UNCHANGED <<unit, registry, data, counter, reads>>
  BY <1>1 DEF Counted, Live
<1>2. CASE pending # <<>> /\ WrapTransitions
  <2> SUFFICES ASSUME NEW i \in Positions, Live(i)' PROVE counter'[i] = reads'[data'[i]]
    BY DEF Counted
  <2>1. /\ N \in Nat /\ N <= Capacity /\ pointer + N > Capacity
        /\ pointer \in 0..(Capacity - 1) /\ pointer' = pointer + N - Capacity
    BY <1>2, SplitRows DEF Typed, TypeOK, Positions
  <2>2. reads' = reads /\ unit' = unit /\ unit = "transition"
    BY <1>2 DEF WrapTransitions, Accept, config
  <2>3. data'[i] \in 0..MaxRows
    BY <1>2, WrapTransitionsTyped DEF Typed, TypeOK
  <2>4. CASE i \in pointer..(Capacity - 1) \/ i \in 0..(pointer' - 1)
    <3>1. counter'[i] = 0
      BY <1>2, <2>4, SplitRows
    <3>2. data'[i] > rows
      <4>1. \/ data'[i] = rows + 1 + i - pointer /\ i >= pointer
            \/ data'[i] = rows + 1 + i + Capacity - pointer
        BY <1>2, <2>4, SplitRows
      <4> QED
        BY <1>0, <2>1, <4>1
    <3> QED
      BY <1>0, <2>2, <2>3, <3>1, <3>2, NewUnread
  <2>5. CASE i \in pointer'..(pointer - 1)
    <3>1. data'[i] = data[i] /\ counter'[i] = counter[i]
      BY <1>2, <2>5, SplitRows
    <3>2. Live(i)
      BY <2>2, <3>1 DEF Live
    <3> QED
      BY <2>2, <3>1, <3>2 DEF Counted
  <2> QED
    BY <1>0, <2>1, <2>4, <2>5
<1>3. CASE pending # <<>> /\ Replace
  <2> SUFFICES ASSUME NEW i \in Positions PROVE counter'[i] = reads'[data'[i]]
    BY DEF Counted
  <2>1. /\ N \in Nat /\ N > Capacity /\ counter'[i] = 0
        /\ data'[i] = rows + N - Capacity + 1 + i
    BY <1>3, ReplaceRows
  <2>2. reads' = reads /\ data'[i] \in 0..MaxRows
    BY <1>3, ReplaceTyped DEF Replace, Accept, Typed, TypeOK
  <2>3. data'[i] > rows
    BY <1>0, <2>1
  <2> QED
    BY <1>0, <2>1, <2>2, <2>3, NewUnread
<1>4. CASE PushItem
  <2>1. CASE Refuse \/ PutEmpty
    BY <1>1, <2>1 DEF Refuse, PutEmpty, config, content, history
  <2> QED
    BY <1>2, <1>3, <1>4, <2>1, PlacedCounted, PutNextPlaces, WrapEpisodePlaces DEF PushItem
<1>5. CASE Clear
  <2>1. \A i \in Positions : ~Live(i)'
    BY <1>5 DEF Clear, Live
  <2> QED
    BY <2>1 DEF Counted
<1>6. ASSUME NEW selected \in SUBSET Positions, Read(selected) PROVE Counted'
  <2> SUFFICES ASSUME NEW i \in Positions, Live(i)' PROVE counter'[i] = reads'[data'[i]]
    BY DEF Counted
  <2>1. /\ data' = data /\ registry' = registry /\ unit' = unit
        /\ counter'[i] = IF i \in selected THEN counter[i] + 1 ELSE counter[i]
        /\ \A r \in 1..MaxRows :
              reads'[r] = IF \E j \in selected : data[j] = r THEN reads[r] + 1 ELSE reads[r]
    BY <1>6 DEF Read, config
  <2>2. Live(i)
    BY <2>1 DEF Live
  <2>3. data[i] \in 1..MaxRows /\ counter[i] = reads[data[i]]
    BY <2>2, LiveWritten DEF Counted, Typed, TypeOK
  <2>4. (\E j \in selected : data[j] = data[i]) <=> i \in selected
    BY <2>3 DEF Numbered
  <2> QED
    BY <2>1, <2>3, <2>4
<1>7. ASSUME NEW items, Push(items) PROVE Counted'
  BY <1>1, <1>7 DEF Push, config, content, history
<1>8. CASE UNCHANGED vars
  BY <1>1, <1>8 DEF vars, config, content, history
<1> QED
  BY <1>4, <1>5, <1>6, <1>7, <1>8, Selected DEF Next, GetItem

-----------------------------------------------------------------------------
(***************************************************************************)
(* Where the rows of transitions are.                                      *)
(***************************************************************************)
LEMMA RingStep == ASSUME Typed, Ring, [Next]_vars PROVE Ring'
<1>0. /\ rows \in Nat /\ Capacity \in Nat \ {0} /\ Positions = 0..(Capacity - 1)
      /\ pointer \in 0..(Capacity - 1) /\ size \in 0..Capacity
  BY CapacityAssumption DEF Typed, TypeOK, Positions
<1>1. CASE UNCHANGED <<unit, data, size, pointer, rows>>
  BY <1>1 DEF Ring, Age
<1>2. CASE unit # "transition" /\ UNCHANGED unit
  BY <1>2 DEF Ring
<1>3. CASE pending # <<>> /\ PutNext /\ unit = "transition"
  <2>1. Placed(pointer, Overlapping(pointer, pointer + N))
    BY <1>3, PutNextPlaces
  <2>2. /\ N \in Nat /\ N > 0 /\ pointer + N <= Capacity /\ rows' = rows + N
        /\ \A i \in pointer..(pointer + N - 1) : data'[i] = rows + 1 + i - pointer
        /\ \A i \in Positions : i < pointer \/ pointer + N <= i => data'[i] = data[i]
        /\ pointer' = IF pointer + N = Capacity THEN 0 ELSE pointer + N
    BY <2>1, PlacedRows, PlacedPointer
  <2>3. /\ \A i \in Positions : data[i] = IF rows > Age(i) THEN rows - Age(i) ELSE 0
        /\ rows < Capacity => pointer = rows
        /\ size <= rows
    BY <1>3 DEF Ring
  <2>4. size' = MinOf(size + N, Capacity)
    BY <2>1 DEF Placed, PutAt, Advance
  <2>5. ASSUME NEW i \in Positions
        PROVE  data'[i] = (IF rows > Age(i) THEN rows - Age(i) ELSE 0)'
    <3>1. Age(i)' = IF i < pointer' THEN pointer' - 1 - i ELSE pointer' - 1 - i + Capacity
      BY DEF Age
    <3>2. CASE i \in pointer..(pointer + N - 1)
      <4>1. data'[i] = rows + 1 + i - pointer
        BY <2>2, <3>2
      <4> QED
        BY <1>0, <2>2, <3>1, <3>2, <4>1
    <3>3. CASE i < pointer \/ pointer + N <= i
      <4>1. data'[i] = IF rows > Age(i) THEN rows - Age(i) ELSE 0
        BY <2>2, <2>3, <3>3
      <4> QED
        BY <1>0, <2>2, <3>1, <3>3, <4>1 DEF Age
    <3> QED
      BY <1>0, <2>2, <3>2, <3>3
  <2>6. (rows < Capacity => pointer = rows)'
    BY <1>0, <2>2, <2>3
  <2>7. size' <= rows'
    BY <1>0, <2>2, <2>3, <2>4 DEF MinOf
  <2> QED
    BY <2>5, <2>6, <2>7 DEF Ring
<1>4. CASE pending # <<>> /\ WrapTransitions
  <2>1. /\ N \in Nat /\ N <= Capacity /\ pointer + N > Capacity /\ unit = "transition"
        /\ pointer' = pointer + N - Capacity /\ size' = MinOf(size + pointer', Capacity)
        /\ rows' = rows + N
    BY <1>4, SplitRows DEF WrapTransitions, Accept
  <2>2. /\ \A i \in Positions : data[i] = IF rows > Age(i) THEN rows - Age(i) ELSE 0
        /\ rows < Capacity => pointer = rows
        /\ size <= rows
    BY <2>1 DEF Ring
  <2>3. ASSUME NEW i \in Positions
        PROVE  data'[i] = (IF rows > Age(i) THEN rows - Age(i) ELSE 0)'
    <3>1. Age(i)' = IF i < pointer' THEN pointer' - 1 - i ELSE pointer' - 1 - i + Capacity
      BY DEF Age
    <3>2. CASE i \in pointer..(Capacity - 1)
      <4>1. data'[i] = rows + 1 + i - pointer
        BY <1>4, <3>2, SplitRows
      <4> QED
        BY <1>0, <2>1, <3>1, <3>2, <4>1
    <3>3. CASE i \in 0..(pointer' - 1)
      <4>1. data'[i] = rows + 1 + i + Capacity - pointer
        BY <1>4, <3>3, SplitRows
      <4> QED
        BY <1>0, <2>1, <3>1, <3>3, <4>1
    <3>4. CASE i \in pointer'..(pointer - 1)
      <4>1. data'[i] = IF rows > Age(i) THEN rows - Age(i) ELSE 0
        BY <1>4, <2>2, <3>4, SplitRows
      <4>2. rows > Age(i) \/ rows < Capacity
        BY <1>0, <3>4 DEF Age
      <4> QED
        BY <1>0, <2>1, <2>2, <3>1, <3>4, <4>1, <4>2 DEF Age
    <3> QED
      BY <1>0, <2>1, <3>2, <3>3, <3>4
  <2>4. (rows < Capacity => pointer = rows)'
    BY <1>0, <2>1, <2>2
  <2>5. size' <= rows'
    BY <1>0, <2>1, <2>2 DEF MinOf
  <2> QED
    BY <2>3, <2>4, <2>5 DEF Ring
<1>5. CASE pending # <<>> /\ Replace
  <2>1. /\ N \in Nat /\ N > Capacity /\ rows' = rows + N /\ pointer' = 0 /\ size' = Capacity
        /\ \A i \in Positions : data'[i] = rows + N - Capacity + 1 + i
    BY <1>5, ReplaceRows
  <2>2. \A i \in Positions : Age(i)' = Capacity - 1 - i
    BY <1>0, <2>1 DEF Age
  <2>3. \A i \in Positions : rows' > Age(i)' /\ data'[i] = rows' - Age(i)'
    BY <1>0, <2>1, <2>2
  <2> QED
    BY <1>0, <2>1, <2>3 DEF Ring
<1>6. CASE PushItem
  <2>1. CASE Refuse \/ PutEmpty
    BY <1>1, <2>1 DEF Refuse, PutEmpty, config, content, history
  <2>2. unit' = unit
    BY <1>6 DEF PushItem, PutNext, PutAt, WrapEpisode, WrapTransitions, Replace,
                Refuse, PutEmpty, Accept, config
  <2> QED
    BY <1>2, <1>3, <1>4, <1>5, <1>6, <2>1, <2>2 DEF PushItem, WrapEpisode
<1>7. CASE Clear
  <2>1. \A i \in Positions : data'[i] = 0 /\ ~(rows' > Age(i)')
    BY <1>0, <1>7 DEF Clear, Age
  <2> QED
    BY <1>7, <2>1 DEF Clear, Ring
<1>8. CASE GetItem
  BY <1>1, <1>8 DEF GetItem, Read, config
<1>9. ASSUME NEW items, Push(items) PROVE Ring'
  BY <1>1, <1>9 DEF Push, config, content, history
<1>10. CASE UNCHANGED vars
  BY <1>1, <1>10 DEF vars, config, content, history
<1> QED
  BY <1>6, <1>7, <1>8, <1>9, <1>10 DEF Next
-----------------------------------------------------------------------------
(***************************************************************************)
(* How much of the ring the episodes fill.                                 *)
(***************************************************************************)
LEMMA Quotient ==
    ASSUME NEW n \in Nat, NEW len \in Nat \ {0}, NEW x \in 0..(n * len - 1)
    PROVE  \E k \in 0..(n - 1) : k * len <= x /\ x < k * len + len
<1> DEFINE k == x \div len
<1>1. x \in Nat /\ x < n * len
  OBVIOUS
<1>2. k \in Nat /\ x = len * k + (x % len) /\ x % len \in 0..(len - 1)
  BY <1>1
<1>3. len * k = k * len /\ k * len \in Nat
  BY <1>2
<1> HIDE DEF k
<1>4. k * len <= x /\ x < k * len + len
  BY <1>1, <1>2, <1>3
<1>5. k < n
  <2> SUFFICES ASSUME n <= k PROVE FALSE
    BY <1>2
  <2>1. n * len <= k * len
    BY <1>2, Monotone
  <2> QED
    BY <1>1, <1>3, <1>4, <2>1
<1>6. k \in 0..(n - 1)
  BY <1>2, <1>5
<1> QED
  BY <1>4, <1>6

\* Every row of a placed item is in one of its intervals.
LEMMA PlacedLive ==
    ASSUME Typed, NEW at, NEW old, Placed(at, old), unit = "episode",
           NEW i \in at..(at + N - 1)
    PROVE  Live(i)'
<1>1. /\ Item \in Items /\ N \in Nat /\ N > 0 /\ at \in Nat
      /\ registry' = (registry \ old) \cup IntervalsAt(at, Item) /\ unit' = unit
  BY PlacedRows DEF Placed, PutAt, Accept, config
<1>2. Item.n \in Nat /\ Item.len \in Nat \ {0} /\ N = Item.n * Item.len
  BY <1>1, SubEpisodes DEF N, DataSize
<1>3. i - at \in 0..(Item.n * Item.len - 1) /\ i \in Int
  BY <1>1, <1>2
<1>4. PICK k \in 0..(Item.n - 1) : k * Item.len <= i - at /\ i - at < k * Item.len + Item.len
  BY <1>2, <1>3, Quotient
<1> DEFINE v == [begin |-> at + k * Item.len, end |-> at + (k + 1) * Item.len]
<1>5. v \in IntervalsAt(at, Item)
  BY DEF IntervalsAt
<1>6. k * Item.len \in Nat /\ (k + 1) * Item.len = k * Item.len + Item.len
  BY <1>1, SubEpisodes
<1> DEFINE p == k * Item.len
<1>7. /\ v.begin = at + p /\ v.end = at + (p + Item.len) /\ p \in Nat
      /\ p <= i - at /\ i - at < p + Item.len
  BY <1>4, <1>6
<1> HIDE DEF v, p
<1>8. i \in RowsOf(v)
  BY <1>1, <1>2, <1>3, <1>7 DEF RowsOf
<1> QED
  BY <1>1, <1>5, <1>8 DEF Live

LEMMA KeptLive ==
    ASSUME NEW at, NEW old, Placed(at, old), unit = "episode",
           NEW w \in registry \ old, NEW i \in RowsOf(w)
    PROVE  Live(i)'
BY DEF Placed, PutAt, Accept, config, Live

\* Evicting up to a position takes less than an episode too much.
LEMMA Cut ==
    ASSUME Typed, Laid, NEW c \in 0..Capacity
    PROVE  \E q \in c..Capacity :
              /\ q = c \/ q - c < biggest
              /\ \A w \in registry : w.begin < c => w.end <= q
<1>1. \A w \in registry : /\ w.begin \in Nat /\ w.end \in Nat /\ w.begin < w.end
                          /\ w.end <= Capacity /\ w.end - w.begin <= biggest
  BY DEF Laid, Typed, TypeOK, Interval
<1>2. Capacity \in Nat /\ c \in Nat /\ biggest \in Nat
  BY CapacityAssumption, BoundsAssumption DEF Typed, TypeOK
<1>3. CASE \E u \in registry : u.begin < c /\ c < u.end
  <2>1. PICK u \in registry : u.begin < c /\ c < u.end
    BY <1>3
  <2>2. u.end \in c..Capacity /\ u.end - c < biggest
    BY <1>1, <1>2, <2>1
  <2>3. ASSUME NEW w \in registry, w.begin < c PROVE w.end <= u.end
    <3>1. w = u \/ w.end <= u.begin \/ u.end <= w.begin
      BY DEF Laid
    <3> QED
      BY <1>1, <1>2, <2>1, <2>3, <3>1
  <2> QED
    BY <2>2, <2>3
<1>4. CASE ~\E u \in registry : u.begin < c /\ c < u.end
  BY <1>1, <1>2, <1>4
<1> QED
  BY <1>3, <1>4

LEMMA PutNextTiled ==
    ASSUME Typed, Laid, Tiled, pending # <<>>, PutNext, unit = "episode", biggest <= Capacity
    PROVE  Tiled'
<1> DEFINE old == Overlapping(pointer, pointer + N)
<1>1. Placed(pointer, old)
  BY PutNextPlaces
<1>2. /\ N \in Nat /\ N > 0 /\ pointer \in Nat /\ pointer + N <= Capacity
      /\ Capacity \in Nat \ {0} /\ rows \in Nat /\ rows' = rows + N
      /\ pointer' = IF pointer + N = Capacity THEN 0 ELSE pointer + N
  BY <1>1, PlacedRows, PlacedPointer
<1>3. biggest \in Nat /\ biggest' = MaxOf(biggest, N) /\ unit' = unit
  BY <1>1, BoundsAssumption DEF Placed, PutAt, Accept, config, Typed, TypeOK
<1>4. biggest' >= biggest /\ biggest' >= N /\ biggest' \in Nat
  BY <1>2, <1>3 DEF MaxOf
<1>5. \A w \in registry : /\ w.begin \in Nat /\ w.end \in Nat /\ w.begin < w.end
                          /\ w.end <= Capacity /\ (w.end <= pointer \/ pointer <= w.begin)
                          /\ w \notin old <=> ~(w.begin < pointer + N /\ w.end > pointer)
  BY DEF Laid, Typed, TypeOK, Interval, Overlapping
<1>6. /\ \A i \in 0..(pointer - 1) : Live(i)
      /\ IF rows < Capacity THEN pointer = rows
         ELSE \E q, t \in 0..Capacity : Filled(q, t)
  BY <1>2, <1>3 DEF Tiled
<1> HIDE DEF old
<1>7. ASSUME NEW i \in 0..(pointer + N - 1) PROVE Live(i)'
  <2>1. CASE i < pointer
    <3>1. PICK w \in registry : i \in RowsOf(w)
      BY <1>2, <1>6, <2>1 DEF Live
    <3>2. w \notin old
      BY <1>2, <1>5, <2>1, <3>1 DEF RowsOf
    <3> QED
      BY <1>1, <3>1, <3>2, KeptLive
  <2>2. CASE i >= pointer
    <3>1. i \in pointer..(pointer + N - 1)
      BY <1>2, <2>2
    <3> QED
      BY <1>1, <3>1, PlacedLive
  <2> QED
    BY <1>2, <2>1, <2>2
<1>8. \A i \in 0..(pointer' - 1) : Live(i)'
  BY <1>2, <1>7
<1>9. CASE rows' < Capacity
  <2>1. pointer' = rows'
    BY <1>2, <1>6, <1>9
  <2> QED
    BY <1>8, <1>9, <2>1 DEF Tiled
<1>10. CASE rows' >= Capacity /\ pointer + N = Capacity
  <2>1. Filled(0, Capacity)'
    BY <1>2, <1>4, <1>7, <1>10 DEF Filled
  <2> QED
    BY <1>2, <1>8, <1>10, <2>1 DEF Tiled
<1>11. CASE rows' >= Capacity /\ pointer + N < Capacity
  <2>1. PICK q \in 0..Capacity, t \in 0..Capacity : Filled(q, t)
    BY <1>2, <1>6, <1>11
  <2>2. PICK c \in (pointer + N)..Capacity :
              /\ c = pointer + N \/ c - (pointer + N) < biggest
              /\ \A w \in registry : w.begin < pointer + N => w.end <= c
    <3>1. pointer + N \in 0..Capacity
      BY <1>2
    <3> QED
      BY <3>1, Cut
  <2> DEFINE q1 == MaxOf(q, c)
             t1 == MaxOf(t, q1)
  <2>3. /\ q <= q1 /\ c <= q1 /\ q1 <= t1 /\ t1 <= Capacity /\ t <= t1
        /\ q1 = q \/ q1 = c
        /\ t1 = t \/ t1 = q1
        /\ q1 \in Nat /\ t1 \in Nat
    BY <1>2, <2>1, <2>2 DEF MaxOf
  <2> HIDE DEF q1, t1
  <2>4. q - pointer < biggest /\ Capacity - t < biggest /\ pointer <= q
    BY <2>1 DEF Filled
  <2>5. /\ pointer' <= q1 /\ q1 <= t1 /\ t1 <= Capacity
        /\ q1 - pointer' < biggest' /\ Capacity - t1 < biggest'
    BY <1>2, <1>3, <1>4, <1>11, <2>1, <2>2, <2>3, <2>4
  <2>6. ASSUME NEW i \in q1..(t1 - 1) PROVE Live(i)'
    <3>1. i \in q..(t - 1) /\ i >= c
      BY <2>1, <2>2, <2>3
    <3>2. PICK w \in registry : i \in RowsOf(w)
      BY <2>1, <3>1 DEF Filled, Live
    <3>3. w \notin old
      BY <1>2, <1>5, <2>2, <3>1, <3>2 DEF RowsOf
    <3> QED
      BY <1>1, <3>2, <3>3, KeptLive
  <2>7. Filled(q1, t1)'
    BY <2>5, <2>6 DEF Filled
  <2>8. q1 \in 0..Capacity /\ t1 \in 0..Capacity
    BY <1>2, <2>3
  <2> QED
    BY <1>2, <1>8, <1>11, <2>7, <2>8 DEF Tiled
<1> QED
  BY <1>2, <1>9, <1>10, <1>11
LEMMA WrapEpisodeTiled ==
    ASSUME Typed, Laid, Tiled, pending # <<>>, WrapEpisode, biggest <= Capacity
    PROVE  Tiled'
<1> DEFINE old == Overlapping(pointer, Capacity) \cup Overlapping(0, N)
<1>1. Placed(0, old) /\ unit = "episode"
  BY WrapEpisodePlaces DEF WrapEpisode
<1>2. /\ N \in Nat /\ N > 0 /\ pointer \in 0..(Capacity - 1) /\ pointer + N > Capacity
      /\ N <= Capacity /\ Capacity \in Nat \ {0} /\ rows \in Nat /\ rows' = rows + N
      /\ pointer' = IF N = Capacity THEN 0 ELSE N
  <2>1. N \in Nat /\ pointer \in 0..(Capacity - 1) /\ Capacity \in Nat \ {0}
    BY PendingItem, CapacityAssumption DEF Typed, TypeOK, Positions
  <2>2. pointer' = IF 0 + N = Capacity THEN 0 ELSE 0 + N
    BY <1>1, PlacedPointer
  <2>3. N > 0 /\ 0 + N <= Capacity /\ rows \in Nat /\ rows' = rows + N
    BY <1>1, PlacedRows
  <2> QED
    BY <2>1, <2>2, <2>3 DEF WrapEpisode, Fits
<1>3. biggest \in Nat /\ biggest' = MaxOf(biggest, N) /\ unit' = unit
  BY <1>1, BoundsAssumption DEF Placed, PutAt, Accept, config, Typed, TypeOK
<1>4. biggest' >= biggest /\ biggest' >= N /\ biggest' \in Nat
  BY <1>2, <1>3 DEF MaxOf
<1>5. \A w \in registry : /\ w.begin \in Nat /\ w.end \in Nat /\ w.begin < w.end
                          /\ w.end <= Capacity /\ (w.end <= pointer \/ pointer <= w.begin)
                          /\ w.end <= pointer /\ N <= w.begin => w \notin old
  BY <1>2 DEF Laid, Typed, TypeOK, Interval, Overlapping
<1>6. /\ \A i \in 0..(pointer - 1) : Live(i)
      /\ rows < Capacity => pointer = rows
  BY <1>1, <1>2, <1>3 DEF Tiled
<1> HIDE DEF old
<1>7. \A i \in 0..(N - 1) : Live(i)'
  <2>1. \A i \in 0..(0 + N - 1) : Live(i)'
    BY <1>1, PlacedLive
  <2> QED
    BY <1>2, <2>1
<1>8. \A i \in 0..(pointer' - 1) : Live(i)'
  BY <1>2, <1>7
<1>9. rows' >= Capacity
  BY <1>2, <1>6
<1>10. CASE N = Capacity
  <2>1. Filled(0, Capacity)'
    BY <1>2, <1>4, <1>7, <1>10 DEF Filled
  <2> QED
    BY <1>2, <1>8, <1>9, <2>1 DEF Tiled
<1>11. CASE N < Capacity
  <2>1. PICK c \in N..Capacity :
              /\ c = N \/ c - N < biggest
              /\ \A w \in registry : w.begin < N => w.end <= c
    <3>1. N \in 0..Capacity
      BY <1>2
    <3> QED
      BY <3>1, Cut
  <2>2. PICK t1 \in Nat : /\ c <= t1 /\ pointer <= t1 /\ t1 <= Capacity
                          /\ t1 = pointer \/ t1 = c
    <3>1. c \in Nat /\ c <= Capacity /\ pointer \in Nat /\ pointer <= Capacity
      BY <1>2, <2>1
    <3>2. CASE pointer <= c
      BY <3>1, <3>2
    <3>3. CASE c <= pointer
      BY <3>1, <3>3
    <3> QED
      BY <3>1, <3>2, <3>3
  <2>3. /\ pointer' <= c /\ c <= t1 /\ t1 <= Capacity
        /\ c - pointer' < biggest' /\ Capacity - t1 < biggest'
    <3>1. /\ pointer' = N /\ N > 0 /\ N \in Nat /\ c \in Nat /\ N <= c /\ Capacity \in Nat
          /\ pointer \in Nat /\ pointer + N > Capacity
      BY <1>2, <1>11, <2>1
    <3>2. c - N < biggest'
      BY <1>3, <1>4, <2>1, <3>1
    <3>3. Capacity - t1 < biggest'
      <4>1. t1 \in Nat /\ pointer <= t1
        BY <2>2
      <4>2. biggest' \in Nat /\ N <= biggest'
        BY <1>4
      <4>3. Capacity < t1 + N
        BY <3>1, <4>1
      <4> QED
        BY <3>1, <4>1, <4>2, <4>3
    <3>4. pointer' <= c /\ c - pointer' < biggest'
      BY <3>1, <3>2
    <3>5. c <= t1 /\ t1 <= Capacity
      BY <2>2
    <3> QED
      BY <3>3, <3>4, <3>5
  <2>4. ASSUME NEW i \in c..(t1 - 1) PROVE Live(i)'
    <3>1. i \in 0..(pointer - 1) /\ i >= c
      BY <1>2, <2>1, <2>2
    <3>2. PICK w \in registry : i \in RowsOf(w)
      BY <1>1, <1>6, <3>1 DEF Live
    <3>3. w \notin old
      BY <1>2, <1>5, <2>1, <3>1, <3>2 DEF RowsOf
    <3> QED
      BY <1>1, <3>2, <3>3, KeptLive
  <2>5. Filled(c, t1)'
    BY <2>3, <2>4 DEF Filled
  <2>6. c \in 0..Capacity /\ t1 \in 0..Capacity
    BY <1>2, <2>1, <2>2
  <2> QED
    BY <1>2, <1>8, <1>9, <2>5, <2>6 DEF Tiled
<1> QED
  BY <1>2, <1>10, <1>11

LEMMA TiledStep == ASSUME Typed, Laid, Tiled, [Next]_vars PROVE Tiled'
<1>0. Capacity \in Nat /\ biggest \in Nat
  BY CapacityAssumption, BoundsAssumption DEF Typed, TypeOK
<1>1. CASE UNCHANGED <<unit, registry, data, pointer, rows, biggest>>
  BY <1>1 DEF Tiled, Filled, Live
<1>2. CASE unit # "episode" /\ UNCHANGED unit
  BY <1>2 DEF Tiled
<1>3. CASE PushItem
  <2>1. pending # <<>>
    BY <1>3 DEF PushItem
  <2>2. unit' = unit
    BY <1>3 DEF PushItem, PutNext, PutAt, WrapEpisode, WrapTransitions, Replace,
                Refuse, PutEmpty, Accept, config
  <2>3. CASE Refuse \/ PutEmpty
    BY <1>1, <2>3 DEF Refuse, PutEmpty, config, content, history
  <2>4. CASE Accept /\ (biggest > Capacity \/ N > Capacity)
    <3>1. N \in Nat /\ biggest' = MaxOf(biggest, N)
      BY <2>1, <2>4, PendingItem DEF Accept
    <3>2. biggest' > Capacity
      BY <1>0, <2>4, <3>1 DEF MaxOf
    <3> QED
      BY <3>2 DEF Tiled
  <2>5. CASE Replace
    BY <2>4, <2>5 DEF Replace
  <2>6. CASE biggest <= Capacity
    BY <1>2, <1>3, <2>1, <2>2, <2>3, <2>5, <2>6, PutNextTiled, WrapEpisodeTiled
       DEF PushItem, WrapTransitions
  <2> QED
    BY <1>0, <1>2, <1>3, <2>2, <2>3, <2>4, <2>5, <2>6
       DEF PushItem, PutNext, WrapEpisode, WrapTransitions, PutAt
<1>4. CASE Clear
  <2>1. pointer' = 0 /\ rows' = 0 /\ Capacity > 0
    BY <1>4, CapacityAssumption DEF Clear
  <2> QED
    BY <1>0, <2>1 DEF Tiled
<1>5. CASE GetItem
  BY <1>1, <1>5 DEF GetItem, Read, config
<1>6. ASSUME NEW items, Push(items) PROVE Tiled'
  BY <1>1, <1>6 DEF Push, config, content, history
<1>7. CASE UNCHANGED vars
  BY <1>1, <1>7 DEF vars, config, content, history
<1> QED
  BY <1>3, <1>4, <1>5, <1>6, <1>7 DEF Next

-----------------------------------------------------------------------------
(***************************************************************************)
(* The invariant as a whole and what follows from it.                      *)
(***************************************************************************)
IInv ==
    /\ Typed /\ EpisodesIntact
    /\ Numbered /\ Logged /\ Counted
    /\ Ring /\ Laid /\ Tiled

LEMMA IInvInit == Init => IInv
<1> SUFFICES ASSUME Init PROVE IInv
  OBVIOUS
<1>0. Capacity \in Nat \ {0} /\ Positions = 0..(Capacity - 1)
  BY CapacityAssumption DEF Positions
<1>1. Typed /\ EpisodesIntact
  BY TypedInit, IntactInit
<1>2. Numbered /\ Logged
  BY DEF Init, Numbered, Logged
<1>3. Counted
  BY DEF Init, Counted, Live
<1>4. Ring
  BY <1>0 DEF Init, Ring, Age
<1>5. Laid
  BY DEF Init, Laid
<1>6. Tiled
  <2>1. pointer = 0 /\ rows = 0 /\ rows < Capacity
    BY <1>0 DEF Init
  <2> QED
    BY <2>1 DEF Tiled
<1> QED
  BY <1>1, <1>2, <1>3, <1>4, <1>5, <1>6 DEF IInv

LEMMA IInvStep == IInv /\ [Next]_vars => IInv'
BY TypedStep, IntactStep, NumberedStep, LoggedStep, CountedStep, RingStep, LaidStep, TiledStep
   DEF IInv

LEMMA FreshReads == IInv => ReadsAreFresh
<1> SUFFICES ASSUME IInv, NEW selected \in Selections, NEW i \in selected
             PROVE  /\ data[i] > 0
                    /\ unit = "transition" => data[i] + Capacity > rows
                    /\ counter[i] = reads[data[i]]
  BY DEF ReadsAreFresh
<1>0. /\ rows \in Nat /\ Capacity \in Nat \ {0} /\ Positions = 0..(Capacity - 1)
      /\ pointer \in 0..(Capacity - 1) /\ size \in 0..Capacity
  BY CapacityAssumption DEF IInv, Typed, TypeOK, Positions
<1>1. i \in Positions
  BY Selected DEF IInv
<1>2. CASE unit = "episode"
  <2>1. Live(i)
    BY <1>2 DEF Selections, Live
  <2> QED
    BY <1>1, <1>2, <2>1, LiveWritten DEF IInv, Counted
<1>3. CASE unit # "episode"
  <2>1. unit = "transition"
    BY <1>3, ConfigAssumption DEF IInv, Typed, TypeOK
  <2>2. i < size
    BY <1>3 DEF Selections
  <2>3. /\ data[i] = IF rows > Age(i) THEN rows - Age(i) ELSE 0
        /\ rows < Capacity => pointer = rows
        /\ size <= rows
    BY <1>1, <2>1 DEF IInv, Ring
  <2>4. rows > Age(i) /\ Age(i) \in 0..(Capacity - 1)
    BY <1>0, <1>1, <2>2, <2>3 DEF Age
  <2>5. data[i] > 0 /\ data[i] + Capacity > rows
    BY <1>0, <2>3, <2>4
  <2>6. Live(i)
    BY <1>3, <2>5 DEF Live
  <2> QED
    BY <1>1, <2>5, <2>6 DEF IInv, Counted
<1> QED
  BY <1>2, <1>3

LEMMA NothingLost == IInv => NothingLostEarly
<1> SUFFICES ASSUME IInv PROVE NothingLostEarly
  OBVIOUS
<1>0. /\ rows \in Nat /\ Capacity \in Nat \ {0} /\ Positions = 0..(Capacity - 1)
      /\ pointer \in 0..(Capacity - 1) /\ biggest \in Nat
  BY CapacityAssumption, BoundsAssumption DEF IInv, Typed, TypeOK, Positions
<1>1. ASSUME unit = "episode", rows >= Capacity
      PROVE  Cardinality(UNION {RowsOf(v) : v \in registry}) >= Capacity - 2 * (biggest - 1)
  <2> DEFINE U == UNION {RowsOf(v) : v \in registry}
  <2>1. U \subseteq 0..(Capacity - 1)
    <3>1. \A v \in registry : v.begin \in Nat /\ v.end \in Nat /\ v.end <= Capacity
      BY DEF IInv, Typed, TypeOK, Interval
    <3>2. \A v \in registry : RowsOf(v) \subseteq 0..(Capacity - 1)
      BY <1>0, <3>1 DEF RowsOf
    <3> QED
      BY <3>2
  <2>2. IsFiniteSet(U) /\ Cardinality(U) \in Nat
    <3> HIDE DEF U
    <3>1. IsFiniteSet(0..(Capacity - 1))
      BY <1>0, FS_Interval
    <3>2. IsFiniteSet(U)
      BY <2>1, <3>1, FS_Subset
    <3> QED
      BY <3>2, FS_CardinalityType
  <2>3. CASE biggest > Capacity
    <3> HIDE DEF U
    <3>1. Capacity - 2 * (biggest - 1) <= 0
      BY <1>0, <2>3
    <3> QED
      BY <1>0, <2>2, <3>1 DEF U
  <2>4. CASE biggest <= Capacity
    <3>1. PICK q \in 0..Capacity, t \in 0..Capacity : Filled(q, t)
      BY <1>0, <1>1, <2>4 DEF IInv, Tiled
    <3>2. /\ pointer <= q /\ q <= t /\ t <= Capacity
          /\ q - pointer < biggest /\ Capacity - t < biggest
      BY <3>1 DEF Filled
    <3> DEFINE A == 0..(pointer - 1)
               B == q..(t - 1)
    <3>3. A \subseteq U /\ B \subseteq U
      <4>1. \A i \in A : Live(i)
        BY <1>0, <1>1, <2>4 DEF IInv, Tiled
      <4>2. \A i \in B : Live(i)
        BY <3>1 DEF Filled
      <4> QED
        BY <1>1, <4>1, <4>2 DEF Live
    <3>4. /\ IsFiniteSet(A) /\ Cardinality(A) = pointer
          /\ IsFiniteSet(B) /\ Cardinality(B) = t - q
      <4>1. IsFiniteSet(A) /\ Cardinality(A) = IF 0 > pointer - 1 THEN 0 ELSE (pointer - 1) - 0 + 1
        BY <1>0, FS_Interval
      <4>2. IsFiniteSet(B) /\ Cardinality(B) = IF q > t - 1 THEN 0 ELSE (t - 1) - q + 1
        BY <3>1, FS_Interval
      <4> QED
        BY <1>0, <3>1, <3>2, <4>1, <4>2
    <3>5. A \cap B = {}
      BY <1>0, <3>2
    <3>6. Cardinality(A \cup B) = pointer + (t - q)
      <4> HIDE DEF A, B
      <4>1. Cardinality(A \cup B) = Cardinality(A) + Cardinality(B) - Cardinality(A \cap B)
        BY <3>4, FS_Union
      <4>2. Cardinality(A \cap B) = 0
        BY <3>5, FS_EmptySet
      <4> QED
        BY <1>0, <3>1, <3>4, <4>1, <4>2
    <3>7. Cardinality(A \cup B) <= Cardinality(U)
      <4>1. A \cup B \in SUBSET U
        BY <3>3
      <4> HIDE DEF A, B, U
      <4> QED
        BY <2>2, <4>1, FS_Subset
    <3> HIDE DEF A, B, U
    <3>8. pointer + (t - q) >= Capacity - 2 * (biggest - 1)
      BY <1>0, <3>1, <3>2
    <3> QED
      BY <1>0, <2>2, <3>1, <3>6, <3>7, <3>8 DEF U
  <2> QED
    BY <1>0, <2>3, <2>4
<1>2. ASSUME unit # "episode", NEW r \in 1..rows, r + Capacity > rows
      PROVE  \E i \in Positions : data[i] = r
  <2>1. unit = "transition"
    BY <1>2, ConfigAssumption DEF IInv, Typed, TypeOK
  <2> DEFINE a == rows - r
             i == IF a < pointer THEN pointer - 1 - a ELSE pointer - 1 - a + Capacity
  <2>2. a \in 0..(Capacity - 1) /\ rows > a /\ r = rows - a
    BY <1>0, <1>2
  <2> HIDE DEF a
  <2>3. i \in Positions /\ Age(i) = a
    BY <1>0, <2>2 DEF Age
  <2> HIDE DEF i
  <2>4. data[i] = r
    BY <2>1, <2>2, <2>3 DEF IInv, Ring
  <2> QED
    BY <2>3, <2>4
<1> QED
  BY <1>1, <1>2 DEF NothingLostEarly

\* Nothing leaves the ring early, and what a read selects was written since the last
\* clear, is among the newest, and has been counted as often as it was read.
THEOREM NewestStayAndAreRead == Spec => []NewestKeptAndRead
<1>1. IInv => NewestKeptAndRead
  BY FreshReads, NothingLost DEF NewestKeptAndRead
<1> QED
  BY <1>1, IInvInit, IInvStep, PTL DEF Spec
-----------------------------------------------------------------------------
(***************************************************************************)
(* The refinement: the episodes held are the youngest.                     *)
(***************************************************************************)
LEMMA Least ==
    ASSUME NEW T \in SUBSET Nat, T # {}
    PROVE  \E m \in T : \A x \in T : m <= x
<1> DEFINE segments == {0..x : x \in T}
<1>1. segments \subseteq FiniteSubsetsOf(Nat) /\ segments # {}
  <2>1. \A x \in T : IsFiniteSet(0..x) /\ 0..x \in SUBSET Nat
    BY FS_Interval
  <2> QED
    BY <2>1 DEF FiniteSubsetsOf
<1>2. IsWellFoundedOn(StrictSubsetOrdering(Nat), FiniteSubsetsOf(Nat))
  BY FS_StrictSubsetOrderingWellFounded
<1> HIDE DEF segments
<1>3. PICK X \in segments : \A Y \in segments : <<Y, X>> \notin StrictSubsetOrdering(Nat)
  BY <1>1, <1>2, WFMin, Zenon
<1>4. PICK m \in T : X = 0..m
  BY DEF segments
<1>5. ASSUME NEW x \in T, x < m PROVE FALSE
  <2>1. 0..x \in segments
    BY DEF segments
  <2>2. m \in Nat /\ x \in Nat
    OBVIOUS
  <2>3. 0..x \in SUBSET Nat /\ 0..m \in SUBSET Nat /\ 0..x \subseteq 0..m
    BY <1>5, <2>2
  <2>4. m \in 0..m /\ m \notin 0..x
    BY <1>5, <2>2
  <2>5. <<0..x, 0..m>> \in StrictSubsetOrdering(Nat)
    BY <2>3, <2>4 DEF StrictSubsetOrdering
  <2> QED
    BY <1>3, <1>4, <2>1, <2>5
<1>6. \A x \in T : x \in Nat
  OBVIOUS
<1> QED
  BY <1>5, <1>6

\* What is kept of the old and the new if everything younger than anything kept is.
LEMMA Youngest ==
    ASSUME NEW b \in Nat, NEW c \in Nat, b <= c, NEW S \in SUBSET (1..b), NEW T,
           T \subseteq S \cup (b + 1)..c,
           \A e \in T : \A f \in S \cup (b + 1)..c : e <= f => f \in T
    PROVE  \E evicted \in 0..c : \A e : e \in T <=> e \in S \cup (b + 1)..c /\ e > evicted
<1> DEFINE U == S \cup (b + 1)..c
<1>1. \A e \in U : e \in Nat /\ e > 0 /\ e <= c
  <2>1. \A e \in S : e \in 1..b
    OBVIOUS
  <2> QED
    BY <2>1
<1>2. T \subseteq U /\ \A e \in T : \A f \in U : e <= f => f \in T
  OBVIOUS
<1>3. \E evicted \in 0..c : \A e : e \in T <=> e \in U /\ e > evicted
  <2> HIDE DEF U
  <2>1. CASE T = {}
    <3>1. c \in 0..c /\ \A e \in U : ~(e > c)
      BY <1>1
    <3> QED
      BY <2>1, <3>1
  <2>2. CASE T # {}
    <3>1. T \in SUBSET Nat
      BY <1>1, <1>2
    <3>2. PICK m \in T : \A x \in T : m <= x
      BY <2>2, <3>1, Least
    <3>3. m \in Nat /\ m > 0 /\ m <= c
      BY <1>1, <1>2
    <3>4. m - 1 \in 0..c /\ \A e \in Nat : e > m - 1 <=> m <= e
      BY <3>3
    <3>5. \A e : e \in T <=> e \in U /\ e > m - 1
      BY <1>1, <1>2, <3>2, <3>4
    <3> QED
      BY <3>4, <3>5
  <2> QED
    BY <2>1, <2>2
<1> QED
  BY <1>3

\* The last row of an interval is that of its episode, and tells the episodes apart.
LEMMA LastRow ==
    ASSUME NEW d, NEW e \in Episode, NEW v \in Interval, v.begin < v.end, HeldIn(d, e, v)
    PROVE  d[v.end - 1] = e.last
<1>1. v.begin \in Nat /\ v.end \in Nat /\ e.last \in Nat
  BY DEF Interval, Episode
<1>2. v.end - 1 \in RowsOf(v)
  BY <1>1 DEF RowsOf
<1>3. d[v.end - 1] = e.last + 1 + (v.end - 1) - v.end
  BY <1>2 DEF HeldIn
<1> QED
  BY <1>1, <1>3

LEMMA InOrder ==
    ASSUME NEW l \in Seq(Episode), \A j, k \in DOMAIN l : j < k => l[j].last < l[k].last,
           NEW j \in DOMAIN l, NEW k \in DOMAIN l
    PROVE  /\ l[j].last < l[k].last => j < k
           /\ l[j].last = l[k].last => j = k
<1>1. j \in Nat /\ k \in Nat
  OBVIOUS
<1>2. l[j].last \in Nat /\ l[k].last \in Nat
  <2>1. l[j] \in Episode /\ l[k] \in Episode
    OBVIOUS
  <2> QED
    BY <2>1 DEF Episode
<1>3. CASE j < k
  BY <1>1, <1>2, <1>3
<1>4. CASE k < j
  BY <1>1, <1>2, <1>4
<1> QED
  BY <1>1, <1>2, <1>3, <1>4

LEMMA StoredIs ==
    /\ StoredEpisodes = {k \in DOMAIN log : \E v \in registry : HeldIn(data, log[k], v)}
    /\ StoredEpisodes' = {k \in DOMAIN log' : \E v \in registry' : HeldIn(data', log'[k], v)}
BY DEF StoredEpisodes, Holds, HeldIn

\* Whatever is evicted is older than whatever is kept.
OldestFirst(old) == \A u \in old, v \in registry \ old : Before(u, v)

LEMMA PutNextOldest ==
    ASSUME Typed, Laid, pending # <<>>, PutNext
    PROVE  OldestFirst(Overlapping(pointer, pointer + N))
<1>1. \A w \in registry : /\ w.begin \in Nat /\ w.end \in Nat /\ w.begin < w.end
                          /\ w.end <= pointer \/ w.begin >= pointer
  BY DEF Laid, Typed, TypeOK, Interval
<1>2. pointer \in Nat /\ N \in Nat /\ N > 0
  BY PendingItem DEF Typed, TypeOK, Positions, PutNext
<1> QED
  BY <1>1, <1>2 DEF OldestFirst, Overlapping, Before

LEMMA WrapEpisodeOldest ==
    ASSUME Typed, Laid, pending # <<>>, WrapEpisode
    PROVE  OldestFirst(Overlapping(pointer, Capacity) \cup Overlapping(0, N))
<1>1. \A w \in registry : /\ w.begin \in Nat /\ w.end \in Nat /\ w.begin < w.end
                          /\ w.end <= Capacity
                          /\ w.end <= pointer \/ w.begin >= pointer
  BY DEF Laid, Typed, TypeOK, Interval
<1>2. pointer \in Nat /\ N \in Nat /\ Capacity \in Nat
  BY PendingItem, CapacityAssumption DEF Typed, TypeOK, Positions
<1> QED
  BY <1>1, <1>2 DEF OldestFirst, Overlapping, Before

\* Placing an item keeps the youngest episodes and all of its own.
LEMMA PlacedStored ==
    ASSUME IInv, IInv', NEW at, NEW old, Placed(at, old), OldestFirst(old), unit = "episode"
    PROVE  /\ StoredEpisodes' \subseteq StoredEpisodes \cup (Len(log) + 1)..Len(log')
           /\ \A e \in StoredEpisodes' : \A f \in StoredEpisodes \cup (Len(log) + 1)..Len(log') :
                 e <= f => f \in StoredEpisodes'
<1> DEFINE HoldsNow(v, k) == HeldIn(data, log[k], v)
           HoldsThen(v, k) == HeldIn(data', log'[k], v)
<1>1. /\ Typed /\ Typed' /\ Logged /\ Logged' /\ EpisodesIntact /\ Laid /\ pending # <<>> /\ Accept
      /\ registry' = (registry \ old) \cup IntervalsAt(at, Item)
      /\ old \subseteq registry
  BY DEF IInv, Placed, PutAt
<1>2. /\ log \in Seq(Episode) /\ log' \in Seq(Episode)
      /\ \A j, k \in DOMAIN log : j < k => log[j].last < log[k].last
      /\ \A j, k \in DOMAIN log' : j < k => log'[j].last < log'[k].last
      /\ \A v \in registry : v \in Interval /\ v.begin < v.end
      /\ \A v \in registry' : v \in Interval /\ v.begin < v.end
  BY <1>1 DEF Typed, TypeOK, Logged
<1>3. /\ Item \in Items /\ Item.n \in Nat \ {0}
      /\ Len(log) \in Nat /\ Len(log') = Len(log) + Item.n
      /\ DOMAIN log = 1..Len(log) /\ DOMAIN log' = 1..Len(log')
      /\ \A k \in DOMAIN log : log'[k] = log[k] /\ k \in DOMAIN log'
  <2>1. Item \in Items /\ Item.n \in Nat \ {0}
    BY <1>1, PendingItem, SubEpisodes
  <2>2. /\ Len(log) \in Nat /\ Len(log') = Len(log) + Item.n
        /\ DOMAIN log = 1..Len(log) /\ DOMAIN log' = 1..Len(log')
        /\ \A k \in DOMAIN log : log'[k] = log[k]
    BY <1>1, AcceptLog
  <2> QED
    BY <2>1, <2>2
<1>4. StoredEpisodes = {k \in DOMAIN log : \E v \in registry : HoldsNow(v, k)}
      /\ StoredEpisodes' = {k \in DOMAIN log' : \E v \in registry' : HoldsThen(v, k)}
  BY StoredIs
<1>5. ASSUME NEW v \in registry', NEW j \in DOMAIN log', NEW k \in DOMAIN log',
             HoldsThen(v, j), HoldsThen(v, k)
      PROVE  j = k
  <2>1. log'[j] \in Episode /\ log'[k] \in Episode
    BY <1>2
  <2>2. log'[j].last = data'[v.end - 1] /\ log'[k].last = data'[v.end - 1]
    BY <1>2, <1>5, <2>1, LastRow
  <2> QED
    BY <1>2, <2>2, InOrder
<1>6. ASSUME NEW v \in registry \ old, NEW k \in DOMAIN log, HoldsNow(v, k)
      PROVE  HoldsThen(v, k)
  <2>1. v.end <= at \/ at + N <= v.begin
    BY <1>1, PlacedApart
  <2>2. v.begin \in Nat /\ v.end \in Nat /\ v.end <= Capacity
    BY <1>1 DEF Typed, TypeOK, Interval
  <2>3. \A i \in RowsOf(v) : i \in Positions /\ (i < at \/ at + N <= i)
    BY <1>1, <2>1, <2>2, PlacedRows DEF RowsOf, Positions
  <2>4. \A i \in RowsOf(v) : data'[i] = data[i]
    BY <1>1, <2>3, PlacedRows
  <2> QED
    BY <1>3, <1>6, <2>4, HeldStill
<1>7. ASSUME NEW v \in registry \ old, NEW k \in DOMAIN log', HoldsThen(v, k)
      PROVE  k \in DOMAIN log /\ HoldsNow(v, k)
  <2>1. PICK j \in DOMAIN log : HoldsNow(v, j)
    BY <1>1, HoldsIsHeldIn
  <2>2. HoldsThen(v, j) /\ j \in DOMAIN log' /\ v \in registry'
    BY <1>1, <1>3, <1>6, <2>1
  <2>3. j = k
    BY <1>5, <1>7, <2>2
  <2> QED
    BY <2>1, <2>3
<1>8. ASSUME NEW v \in IntervalsAt(at, Item), NEW k \in DOMAIN log', HoldsThen(v, k)
      PROVE  k > Len(log)
  <2>1. PICK i \in 0..(Item.n - 1) :
             v = [begin |-> at + i * Item.len, end |-> at + (i + 1) * Item.len]
    BY DEF IntervalsAt
  <2>2. HoldsThen(v, Len(log) + (i + 1)) /\ Len(log) + (i + 1) \in DOMAIN log'
    BY <1>1, <2>1, PlacedHeld
  <2>3. k = Len(log) + (i + 1)
    BY <1>1, <1>5, <1>8, <2>2
  <2> QED
    BY <1>3, <2>3
<1>9. ASSUME NEW f \in (Len(log) + 1)..Len(log') PROVE f \in StoredEpisodes'
  <2> DEFINE i == f - Len(log) - 1
             v == [begin |-> at + i * Item.len, end |-> at + (i + 1) * Item.len]
  <2>1. i \in 0..(Item.n - 1) /\ Len(log) + (i + 1) = f
    BY <1>3
  <2>2. v \in IntervalsAt(at, Item)
    BY <2>1 DEF IntervalsAt
  <2> HIDE DEF i
  <2>3. HeldIn(data', log'[Len(log) + (i + 1)], v) /\ Len(log) + (i + 1) \in DOMAIN log'
    BY <1>1, <2>1, PlacedHeld
  <2> HIDE DEF v
  <2> QED
    BY <1>1, <1>4, <2>1, <2>2, <2>3
<1> HIDE DEF HoldsNow, HoldsThen
<1>10. ASSUME NEW k \in StoredEpisodes', k \notin (Len(log) + 1)..Len(log')
       PROVE  /\ k \in StoredEpisodes
              /\ \E v \in registry \ old : HoldsNow(v, k)
  <2>1. PICK v \in registry' : k \in DOMAIN log' /\ HoldsThen(v, k)
    BY <1>4
  <2>2. ~(k > Len(log))
    BY <1>3, <1>10, <2>1
  <2>3. v \in registry \ old
    BY <1>1, <1>8, <2>1, <2>2
  <2> QED
    BY <1>4, <1>7, <2>1, <2>3
<1>11. ASSUME NEW e \in StoredEpisodes', NEW f \in StoredEpisodes, f \notin StoredEpisodes'
       PROVE  ~(e <= f)
  <2>1. f \in DOMAIN log /\ f \in Nat /\ e \in Nat
    BY <1>3, <1>4
  <2>2. CASE e \in (Len(log) + 1)..Len(log')
    BY <1>3, <2>1, <2>2
  <2>3. CASE e \notin (Len(log) + 1)..Len(log')
    <3>1. PICK v \in registry \ old : HoldsNow(v, e)
      BY <1>10, <2>3
    <3>2. PICK u \in registry : HoldsNow(u, f)
      BY <1>4
    <3>3. u \in old
      BY <1>1, <1>3, <1>4, <1>6, <1>11, <2>1, <3>2
    <3>4. data[u.end - 1] < data[v.end - 1]
      BY <1>1, <3>1, <3>3 DEF OldestFirst, Laid
    <3>5. e \in DOMAIN log
      BY <1>4, <1>10, <2>3
    <3>6. log[f] \in Episode /\ log[e] \in Episode
      BY <1>2, <2>1, <3>5
    <3>7. log[f].last = data[u.end - 1] /\ log[e].last = data[v.end - 1]
      BY <1>2, <3>1, <3>2, <3>6, LastRow DEF HoldsNow
    <3>8. f < e
      BY <1>2, <2>1, <3>4, <3>5, <3>7, InOrder
    <3> QED
      BY <2>1, <3>8
  <2> QED
    BY <2>2, <2>3
<1> QED
  BY <1>9, <1>10, <1>11

\* Of an item larger than the ring the last episodes are kept, and nothing else.
LEMMA ReplaceStored ==
    ASSUME IInv, IInv', pending # <<>>, Replace, unit = "episode"
    PROVE  /\ StoredEpisodes' \subseteq StoredEpisodes \cup (Len(log) + 1)..Len(log')
           /\ \A e \in StoredEpisodes' : \A f \in StoredEpisodes \cup (Len(log) + 1)..Len(log') :
                 e <= f => f \in StoredEpisodes'
<1> DEFINE HoldsThen(v, k) == HeldIn(data', log'[k], v)
<1>1. /\ Typed /\ Typed' /\ Logged' /\ Accept /\ registry' = LastIntervals(Item)
      /\ Item \in Items /\ N \in Nat /\ N > Capacity /\ DataSize(Item) > Capacity
      /\ Capacity \in Nat
  <2>1. Typed /\ Typed' /\ Logged' /\ Accept /\ registry' = LastIntervals(Item)
    BY DEF IInv, Replace
  <2>2. N \in Nat /\ N > Capacity /\ Capacity \in Nat
    BY <2>1, ReplaceRows
  <2> QED
    BY <2>1, <2>2, PendingItem DEF N
<1>2. /\ log' \in Seq(Episode)
      /\ \A j, k \in DOMAIN log' : j < k => log'[j].last < log'[k].last
      /\ \A v \in registry' : v \in Interval /\ v.begin < v.end
  BY <1>1 DEF Typed, TypeOK, Logged
<1>3. /\ Item.n \in Nat \ {0} /\ Item.len \in Nat \ {0}
      /\ Len(log) \in Nat /\ Len(log') = Len(log) + Item.n
      /\ DOMAIN log = 1..Len(log) /\ DOMAIN log' = 1..Len(log')
  <2>1. /\ Len(log) \in Nat /\ Len(log') = Len(log) + Item.n
        /\ DOMAIN log = 1..Len(log) /\ DOMAIN log' = 1..Len(log')
    BY <1>1, AcceptLog
  <2>2. Item.n \in Nat \ {0} /\ Item.len \in Nat
    BY <1>1, SubEpisodes
  <2>3. Item.len # 0
    BY <1>1, SubEpisodes
  <2> QED
    BY <2>1, <2>2, <2>3
<1>4. /\ StoredEpisodes \subseteq DOMAIN log
      /\ StoredEpisodes' = {k \in DOMAIN log' : \E v \in registry' : HoldsThen(v, k)}
  BY StoredIs
<1>5. ASSUME NEW v \in registry', NEW j \in DOMAIN log', NEW k \in DOMAIN log',
             HoldsThen(v, j), HoldsThen(v, k)
      PROVE  j = k
  <2>1. log'[j] \in Episode /\ log'[k] \in Episode
    BY <1>2
  <2>2. log'[j].last = data'[v.end - 1] /\ log'[k].last = data'[v.end - 1]
    BY <1>2, <1>5, <2>1, LastRow
  <2> QED
    BY <1>2, <2>2, InOrder
<1>6. ASSUME NEW v \in registry'
      PROVE  \E k \in 1..Item.n :
                /\ Len(log) + k \in DOMAIN log' /\ HoldsThen(v, Len(log) + k)
                /\ Item.n # 1 => v.end = Capacity - (Item.n - k) * Item.len
  BY <1>1, <1>6, ReplaceHeld
<1> HIDE DEF HoldsThen
<1>7. StoredEpisodes' \subseteq (Len(log) + 1)..Len(log')
  <2> SUFFICES ASSUME NEW e \in StoredEpisodes' PROVE e \in (Len(log) + 1)..Len(log')
    OBVIOUS
  <2>1. PICK v \in registry' : e \in DOMAIN log' /\ HoldsThen(v, e)
    BY <1>4
  <2>2. PICK k \in 1..Item.n : Len(log) + k \in DOMAIN log' /\ HoldsThen(v, Len(log) + k)
    BY <1>6
  <2>3. e = Len(log) + k
    BY <1>5, <2>1, <2>2
  <2> QED
    BY <1>3, <2>2, <2>3
<1>8. ASSUME NEW e \in StoredEpisodes', NEW f \in (Len(log) + 1)..Len(log'), e <= f
      PROVE  f \in StoredEpisodes'
  <2>1. PICK v \in registry' : e \in DOMAIN log' /\ HoldsThen(v, e)
    BY <1>4
  <2>2. PICK k \in 1..Item.n :
             /\ Len(log) + k \in DOMAIN log' /\ HoldsThen(v, Len(log) + k)
             /\ Item.n # 1 => v.end = Capacity - (Item.n - k) * Item.len
    BY <1>6
  <2>3. e = Len(log) + k
    BY <1>5, <2>1, <2>2
  <2>4. CASE Item.n = 1
    <3>1. f = e
      BY <1>3, <1>8, <2>3, <2>4
    <3> QED
      BY <3>1
  <2>5. CASE Item.n # 1
    <3> DEFINE j == Item.n - (f - Len(log))
    <3>1. /\ j \in 0..(Item.n - 1) /\ f = Len(log) + (Item.n - j)
          /\ Item.n - k \in 0..(Item.n - 1) /\ j <= Item.n - k
      <4>1. /\ f \in (Len(log) + 1)..(Len(log) + Item.n) /\ Len(log) + k <= f
            /\ k \in 1..Item.n /\ Len(log) \in Nat /\ Item.n \in Nat
        BY <1>3, <1>8, <2>2, <2>3
      <4> QED
        BY <4>1
    <3> HIDE DEF j
    <3>2. j \in Nat /\ Item.n - k \in Nat /\ Item.len \in Nat
      BY <1>3, <3>1
    <3>3. j * Item.len <= (Item.n - k) * Item.len
      BY <3>2, <3>1, Monotone
    <3>4. j * Item.len \in Nat /\ (Item.n - k) * Item.len \in Nat
      BY <3>2, Product
    <3>5. v.end >= Item.len
      <4>1. v.end = Capacity - (Item.n - k) * Item.len /\ v.end \in Nat /\ v.begin \in Nat
        BY <1>2, <2>2, <2>5 DEF Interval
      <4>2. PICK i \in 0..(Item.n - 1) :
                 /\ v.begin = v.end - Item.len
        BY <1>1, <2>5, LastWithin
      <4> QED
        BY <1>3, <4>1, <4>2
    <3>6. Capacity - j * Item.len >= Item.len
      <4> DEFINE p == j * Item.len
                 q == (Item.n - k) * Item.len
      <4>1. p \in Nat /\ p <= q /\ q \in Nat /\ v.end = Capacity - q
        BY <2>2, <2>5, <3>3, <3>4
      <4> HIDE DEF p, q
      <4>2. Capacity - p >= Item.len
        BY <1>1, <1>3, <3>5, <4>1
      <4> QED
        BY <4>2 DEF p
    <3> DEFINE u == [begin |-> Capacity - (j + 1) * Item.len, end |-> Capacity - j * Item.len]
    <3>7. u \in registry'
      BY <1>1, <2>5, <3>1, <3>6 DEF LastIntervals
    <3>8. u.end = Capacity - j * Item.len
      OBVIOUS
    <3> HIDE DEF u
    <3>9. PICK i \in 1..Item.n :
               /\ Len(log) + i \in DOMAIN log' /\ HoldsThen(u, Len(log) + i)
               /\ u.end = Capacity - (Item.n - i) * Item.len
      BY <1>6, <2>5, <3>7
    <3>10. Item.n - i \in Nat
      BY <1>3
    <3>11. (Item.n - i) * Item.len = j * Item.len
      <4> DEFINE p == j * Item.len
                 q == (Item.n - i) * Item.len
      <4>1. p \in Nat /\ q \in Nat /\ Capacity - p = Capacity - q
        BY <3>8, <3>9, <3>4, <3>10, Product, <3>2
      <4> HIDE DEF p, q
      <4>2. p = q
        BY <1>1, <4>1
      <4> QED
        BY <4>2 DEF p, q
    <3>12. Item.n - i = j
      <4>1. Item.n - i \in Nat /\ j \in Nat /\ Item.len \in Nat
        BY <3>2, <3>10
      <4> DEFINE p == j * Item.len
                 q == (Item.n - i) * Item.len
      <4>2. p = q /\ p \in Nat /\ Item.len > 0
        BY <1>3, <3>11, <3>4
      <4>3. (Item.n - i < j => q < p) /\ (j < Item.n - i => p < q)
        BY <4>1, <4>2, Strict
      <4> HIDE DEF p, q
      <4> QED
        BY <4>1, <4>2, <4>3
    <3>13. f = Len(log) + i
      <4>1. i \in Int /\ Item.n \in Int /\ Len(log) \in Int /\ f = Len(log) + (Item.n - j)
        BY <1>3, <3>1, <3>9
      <4> QED
        BY <3>12, <4>1
    <3> QED
      BY <1>4, <3>7, <3>9, <3>13
  <2> QED
    BY <2>4, <2>5
<1>9. ASSUME NEW e \in StoredEpisodes', NEW f \in StoredEpisodes PROVE ~(e <= f)
  BY <1>3, <1>4, <1>7, <1>9
<1> QED
  BY <1>7, <1>8, <1>9

LEMMA WindowInit == Init => Window!Init
BY ConfigAssumption DEF Init, Window!Init, StoredEpisodes

\* Accepting an item is a push of the window, or takes no notice of eviction.
LEMMA AcceptWindow ==
    ASSUME IInv, IInv', PushItem, Accept, N > 0
    PROVE  Window!Push
<1>1. pending # <<>> /\ Typed /\ unit' = unit
  BY DEF PushItem, Accept, config, IInv
<1>2. /\ Len(log) \in Nat /\ Len(log') \in Nat /\ Len(log) <= Len(log')
      /\ DOMAIN log = 1..Len(log) /\ DOMAIN log' = 1..Len(log')
  <2>1. /\ Len(log) \in Nat /\ Len(log') = Len(log) + Item.n
        /\ DOMAIN log = 1..Len(log) /\ DOMAIN log' = 1..Len(log')
    BY <1>1, AcceptLog
  <2>2. Item.n \in Nat
    BY <1>1, PendingItem, SubEpisodes
  <2> QED
    BY <2>1, <2>2
<1>3. CASE unit = "episode"
  <2>1. StoredEpisodes \subseteq 1..Len(log)
    BY <1>2 DEF StoredEpisodes
  <2>2. /\ StoredEpisodes' \subseteq StoredEpisodes \cup (Len(log) + 1)..Len(log')
        /\ \A e \in StoredEpisodes' : \A f \in StoredEpisodes \cup (Len(log) + 1)..Len(log') :
              e <= f => f \in StoredEpisodes'
    <3>1. CASE PutNext
      BY <1>1, <1>3, <3>1, PutNextPlaces, PutNextOldest, PlacedStored DEF IInv
    <3>2. CASE WrapEpisode
      BY <1>1, <1>3, <3>2, WrapEpisodePlaces, WrapEpisodeOldest, PlacedStored DEF IInv
    <3>3. CASE Replace
      BY <1>1, <1>3, <3>3, ReplaceStored
    <3>4. CASE Refuse \/ PutEmpty
      <4>1. rows' = rows /\ rows' = rows + N /\ rows \in Nat /\ N \in Nat
        BY <1>1, <3>4, PendingItem, BoundsAssumption
           DEF Refuse, PutEmpty, Accept, history, Typed, TypeOK
      <4> QED
        BY <4>1
    <3> QED
      BY <1>3, <3>1, <3>2, <3>3, <3>4 DEF PushItem, WrapTransitions
  <2>3. \E evicted \in 0..Len(log') :
           StoredEpisodes' = {e \in StoredEpisodes \cup (Len(log) + 1)..Len(log') : e > evicted}
    <3>1. PICK b, c, S, T :
               b = Len(log) /\ c = Len(log') /\ S = StoredEpisodes /\ T = StoredEpisodes'
      OBVIOUS
    <3>2. /\ b \in Nat /\ c \in Nat /\ b <= c /\ S \in SUBSET (1..b)
          /\ T \subseteq S \cup (b + 1)..c
          /\ \A e \in T : \A f \in S \cup (b + 1)..c : e <= f => f \in T
      BY <1>2, <2>1, <2>2, <3>1
    <3>3. PICK evicted \in 0..c : \A e : e \in T <=> e \in S \cup (b + 1)..c /\ e > evicted
      BY <3>2, Youngest
    <3>4. T = {e \in S \cup (b + 1)..c : e > evicted}
      BY <3>3
    <3> QED
      BY <3>1, <3>4
  <2> QED
    BY <1>1, <1>2, <1>3, <2>3 DEF Window!Push
<1>4. CASE unit # "episode"
  <2>1. 0 \in 0..Len(log')
    BY <1>2
  <2>2. DOMAIN log' = {e \in DOMAIN log \cup (Len(log) + 1)..Len(log') : e > 0}
    BY <1>2
  <2> QED
    BY <1>1, <1>2, <1>4, <2>1, <2>2 DEF Window!Push
<1> QED
  BY <1>3, <1>4

LEMMA WindowStep == IInv /\ [Next]_vars => [Window!Next]_(Window!vars)
<1> SUFFICES ASSUME IInv, [Next]_vars PROVE Window!Next \/ UNCHANGED Window!vars
  OBVIOUS
<1>1. IInv'
  BY IInvStep
<1>2. CASE UNCHANGED <<unit, registry, data, log>>
  BY <1>2 DEF Window!vars, StoredEpisodes, Holds
<1>3. CASE PushItem
  <2>1. CASE Refuse \/ PutEmpty
    BY <1>2, <2>1 DEF Refuse, PutEmpty, config, content, history
  <2>2. CASE Accept /\ N > 0
    BY <1>1, <1>3, <2>2, AcceptWindow DEF Window!Next
  <2> QED
    BY <1>3, <2>1, <2>2, AcceptingPaths, PutNextPlaces, WrapEpisodePlaces
       DEF PushItem, Placed, PutAt, IInv
<1>4. CASE Clear
  <2>1. Len(log') = 0 /\ DOMAIN log' = {} /\ StoredEpisodes' = {}
    BY <1>4 DEF Clear, StoredEpisodes
  <2> QED
    BY <2>1 DEF Window!Next, Window!Clear
<1>5. CASE GetItem
  BY <1>2, <1>5 DEF GetItem, Read, config
<1>6. ASSUME NEW items, Push(items) PROVE UNCHANGED Window!vars
  <2>1. UNCHANGED <<unit, registry, data, log>>
    BY <1>6 DEF Push, config, content, history
  <2> QED
    BY <2>1 DEF Window!vars, StoredEpisodes, Holds
<1>7. CASE UNCHANGED vars
  BY <1>2, <1>7 DEF vars, config, content, history
<1> QED
  BY <1>3, <1>4, <1>5, <1>6, <1>7 DEF Next

\* A container of episodes implements EpisodeWindow: it holds the youngest of the episodes
\* pushed since the last clear, whatever the lists, sub-episodes and sizes that were pushed.
THEOREM KeepsYoungest == Spec => ImplementsEpisodeWindow
<1>1. IInv /\ IInv' /\ [Next]_vars => [Window!Next]_(Window!vars)
  BY WindowStep
<1> QED
  BY <1>1, IInvInit, IInvStep, WindowInit, PTL DEF Spec, ImplementsEpisodeWindow, Window!Spec
=============================================================================
