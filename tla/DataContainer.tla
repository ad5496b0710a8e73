--------------------------- MODULE DataContainer ---------------------------
(***************************************************************************)
(* DataContainer of buffer/utils/storage.py: the ring of rows behind a     *)
(* replay or rollout buffer, with the registry of the episodes it holds    *)
(* and a use counter per row.  push, __getitem__ and clear are calls to    *)
(* one Storage actor, so each runs to its end before the next; a list is   *)
(* pushed one item at a time and nothing is read before its end.           *)
(*                                                                         *)
(* A row is its number in the order in which rows were accepted since the  *)
(* last clear, 0 one that was never written.  An item is either a single   *)
(* episode or several sub-episodes of one length laid end to end           *)
(* (metadata _num_episodes and _episode_length).                           *)
(***************************************************************************)
EXTENDS Integers, Sequences, FiniteSets

CONSTANTS
    Capacity,      \* rows of the ring
    Modes,         \* modes a container is built with, in {"circular", "fixed"}
    Units,         \* units a container is built with, in {"transition", "episode"}
    Items,         \* items that may be pushed: [n |-> sub-episodes, len |-> rows of each]
    MaxRows,       \* bound: rows accepted between two clears
    MaxReads       \* bound: reads between two clears

ASSUME CapacityAssumption == Capacity \in Nat \ {0}
ASSUME ConfigAssumption ==
    Modes \subseteq {"circular", "fixed"} /\ Units \subseteq {"transition", "episode"}
ASSUME ItemsAssumption == Items \subseteq [n : Nat \ {0}, len : Nat]
ASSUME BoundsAssumption == MaxRows \in Nat /\ MaxReads \in Nat

VARIABLES
    mode, unit,    \* the configuration of the container
    size,          \* self.size
    pointer,       \* self.pointer, the next row to write
    registry,      \* self.episode_registry: intervals [begin, end) of rows
    data,          \* self.data: the row written last at each position
    counter,       \* self.data_use_counter
    pending,       \* items of the list being pushed that are still to do
    \* History, for the properties only, all since the last clear:
    log,           \* the episodes accepted, as the rows [first, last] of each
    rows,          \* number of rows accepted
    reads,         \* how often each row was read
    biggest        \* size of the biggest item accepted

config == <<mode, unit>>
content == <<size, pointer, registry, data, counter>>
history == <<log, rows, reads, biggest>>
vars == <<config, content, pending, history>>

Positions == 0..(Capacity - 1)
Interval == [begin : Nat, end : Nat]
RowsOf(v) == v.begin..(v.end - 1)
DataSize(item) == item.n * item.len

MaxOf(a, b) == IF a > b THEN a ELSE b
MinOf(a, b) == IF a < b THEN a ELSE b

----------------------------------------------------------------------------
Init ==
    /\ mode \in Modes /\ unit \in Units
    /\ size = 0 /\ pointer = 0
    /\ registry = {}
    /\ data = [i \in Positions |-> 0]
    /\ counter = [i \in Positions |-> -1]
    /\ pending = <<>>
    /\ log = <<>> /\ rows = 0 /\ biggest = 0
    /\ reads = [r \in 1..MaxRows |-> 0]

\* push: a list arrives, the episodes that one step of the environments ended.
Push(items) ==
    /\ pending = <<>>
    /\ pending' = items
    /\ UNCHANGED <<config, content, history>>

----------------------------------------------------------------------------
\* One item of the list.  Each action below is one path through push.

Item == Head(pending)
N == DataSize(Item)
Fits == pointer + N <= Capacity

\* The intervals of the item's episodes when its first row goes to position at.
IntervalsAt(at, item) ==
    {[begin |-> at + k * item.len, end |-> at + (k + 1) * item.len] : k \in 0..(item.n - 1)}

Overlapping(a, b) == {v \in registry : v.begin < b /\ v.end > a}

\* Mutant: a use counter is reset only if the position was free.
RecountKeepsOld(old, new) ==
    [i \in Positions |-> IF i \in new /\ counter[i] = -1 THEN 0
                         ELSE IF \E v \in old : i \in RowsOf(v) THEN -1 ELSE counter[i]]

\* The counters once the intervals of old are dropped and the rows of new are stored.
Recount(old, new) ==
    [i \in Positions |-> IF i \in new THEN 0
                         ELSE IF \E v \in old : i \in RowsOf(v) THEN -1 ELSE counter[i]]

\* _write_data of the item's rows from position at on.
WriteAt(at) ==
    data' = [i \in Positions |-> IF i \in at..(at + N - 1) THEN rows + 1 + (i - at) ELSE data[i]]

\* Mutant: the pointer is not wrapped at the end of the ring.
AdvanceUnwrapped(at, n) ==
    /\ pointer' = at + n
    /\ size' = MinOf(size + n, Capacity)

\* self.pointer and self.size after n rows were written from position at on.
Advance(at, n) ==
    /\ pointer' = (at + n) % Capacity
    /\ size' = MinOf(size + n, Capacity)

Accept ==
    /\ pending' = Tail(pending)
    /\ rows' = rows + N
    /\ log' = log \o [k \in 1..Item.n |-> [first |-> rows + 1 + (k - 1) * Item.len,
                                           last |-> rows + k * Item.len]]
    /\ biggest' = MaxOf(biggest, N)
    /\ UNCHANGED <<config, reads>>

\* The item replaces what lies between at and at + N, and in unit "episode" the
\* episodes in old.
PutAt(at, old) ==
    /\ WriteAt(at)
    /\ Advance(at, N)
    /\ Accept
    /\ IF unit = "episode"
       THEN /\ registry' = (registry \ old) \cup IntervalsAt(at, Item)
            /\ counter' = Recount(old, at..(at + N - 1))
       ELSE /\ counter' = Recount({}, at..(at + N - 1))
            /\ UNCHANGED registry

\* Mutant: the episodes that are overwritten stay registered.
PutNextUnevicted == N > 0 /\ Fits /\ PutAt(pointer, {})

PutNext ==
    /\ N > 0
    /\ Fits
    /\ PutAt(pointer, Overlapping(pointer, pointer + N))

\* Mutant: the episodes left between the pointer and the end are kept.
WrapEpisodeHalfEvicted ==
    /\ ~Fits /\ N <= Capacity
    /\ mode = "circular" /\ unit = "episode"
    /\ PutAt(0, Overlapping(0, N))

\* Mutant: an early wrap evicts everything.
WrapEpisodeOverEvicted ==
    /\ ~Fits /\ N <= Capacity
    /\ mode = "circular" /\ unit = "episode"
    /\ PutAt(0, registry)

\* An episode is never split: it goes to the start of the ring, and what was left
\* between the pointer and the end is evicted with what it overwrites.
WrapEpisode ==
    /\ ~Fits /\ N <= Capacity
    /\ mode = "circular" /\ unit = "episode"
    /\ PutAt(0, Overlapping(pointer, Capacity) \cup Overlapping(0, N))

\* Transitions are split between the end and the start of the ring; size grows by
\* the second part only.
WrapTransitions ==
    /\ ~Fits /\ N <= Capacity
    /\ mode = "circular" /\ unit = "transition"
    /\ LET slot(k) == (pointer + k) % Capacity
           new == {slot(k) : k \in 0..(N - 1)}
       IN  /\ data' = [i \in Positions |->
                         IF i \in new THEN rows + 1 + ((i + Capacity - pointer) % Capacity)
                         ELSE data[i]]
           /\ counter' = Recount({}, new)
    /\ Advance(0, N - (Capacity - pointer))
    /\ Accept
    /\ UNCHANGED registry

\* The episodes of an item that is larger than the ring: those of equal length that
\* fit, counted back from the end, or the single one cut to its end.
LastIntervals(item) ==
    IF item.n = 1 THEN {[begin |-> 0, end |-> Capacity]}
    ELSE {[begin |-> Capacity - (k + 1) * item.len, end |-> Capacity - k * item.len] :
            k \in {j \in 0..(item.n - 1) : Capacity - j * item.len >= item.len}}

Replace ==
    /\ ~Fits /\ N > Capacity
    /\ mode = "circular"
    /\ registry' = IF unit = "episode" THEN LastIntervals(Item) ELSE registry
    /\ data' = [i \in Positions |-> rows + N - Capacity + 1 + i]
    /\ counter' = [i \in Positions |-> 0]
    /\ Advance(0, Capacity)
    /\ Accept

\* RuntimeError: the rest of the list is lost with the item.
Refuse ==
    /\ ~Fits
    /\ mode = "fixed"
    /\ pending' = <<>>
    /\ UNCHANGED <<config, content, history>>

\* An episode of one transition is postprocessed to no rows at all: the interval
\* tree refuses the empty interval (ValueError) and the rest of the list is lost.
PutEmpty ==
    /\ N = 0
    /\ pending' = IF unit = "episode" THEN <<>> ELSE Tail(pending)
    /\ UNCHANGED <<config, content, history>>

PushItem ==
    /\ pending # <<>>
    /\ \/ PutNext \/ WrapEpisode \/ WrapTransitions
       \/ Replace \/ Refuse \/ PutEmpty

----------------------------------------------------------------------------
\* __getitem__: the rows that a set of indices below the length selects.  The
\* order in which the registry lists the intervals is that of a hash set.
Selections ==
    IF unit = "episode"
    THEN {UNION {RowsOf(v) : v \in chosen} : chosen \in SUBSET registry}
    ELSE SUBSET {i \in Positions : i < size}

Read(selected) ==
    /\ selected # {}
    /\ \A r \in 1..MaxRows : reads[r] < MaxReads
    /\ counter' = [i \in Positions |-> IF i \in selected THEN counter[i] + 1 ELSE counter[i]]
    /\ reads' = [r \in 1..MaxRows |->
                   IF \E i \in selected : data[i] = r THEN reads[r] + 1 ELSE reads[r]]
    /\ UNCHANGED <<config, size, pointer, registry, data, pending, log, rows, biggest>>

GetItem == pending = <<>> /\ \E selected \in Selections : Read(selected)

Clear ==
    /\ pending = <<>>
    /\ size' = 0 /\ pointer' = 0
    /\ registry' = {}
    /\ data' = [i \in Positions |-> 0]
    /\ counter' = [i \in Positions |-> -1]
    /\ log' = <<>> /\ rows' = 0 /\ biggest' = 0
    /\ reads' = [r \in 1..MaxRows |-> 0]
    /\ UNCHANGED <<config, pending>>

Next ==
    \/ \E item \in Items :
         rows + DataSize(item) <= MaxRows /\ Push(<<item>>)
    \/ \E item, other \in Items :
         rows + DataSize(item) + DataSize(other) <= MaxRows /\ Push(<<item, other>>)
    \/ PushItem
    \/ GetItem
    \/ Clear

Spec == Init /\ [][Next]_vars

----------------------------------------------------------------------------
\* Properties

Episode == [first : Nat, last : Nat]

\* The types of the variables.
TypeOK ==
    /\ mode \in Modes /\ unit \in Units
    /\ size \in 0..Capacity
    /\ pointer \in Positions
    /\ registry \in SUBSET {v \in Interval : v.begin < v.end /\ v.end <= Capacity}
    /\ data \in [Positions -> 0..MaxRows]
    /\ counter \in [Positions -> Int]
    /\ pending \in Seq(Items)
    /\ log \in Seq(Episode)
    /\ rows \in 0..MaxRows /\ biggest \in 0..MaxRows
    /\ reads \in [1..MaxRows -> Nat]

\* The interval v holds the episode e: every row of it in order or, if e is longer
\* than the ring, its last rows.
Holds(v, e) ==
    /\ v.end - v.begin = MinOf(e.last + 1 - e.first, Capacity)
    /\ \A i \in RowsOf(v) : data[i] = e.last + 1 + i - v.end

\* Every registered interval holds exactly one of the pushed episodes: no wrap, no
\* eviction and no oversized item ever leaves an interval whose rows were written
\* by another episode or by none (push registers and writes separately).
EpisodesIntact ==
    \A v \in registry : \E k \in DOMAIN log : Holds(v, log[k])

StoredEpisodes == {k \in DOMAIN log : \E v \in registry : Holds(v, log[k])}

Window ==
    INSTANCE EpisodeWindow WITH
        born <- Len(log),
        stored <- IF unit = "episode" THEN StoredEpisodes ELSE DOMAIN log

\* In unit "episode" the container implements EpisodeWindow: what it holds is
\* always the youngest episodes, however pushes fit, wrap early or replace it all,
\* and a read changes nothing.
ImplementsEpisodeWindow == Window!Spec

\* Nothing is lost early.  In unit "episode" eviction takes no more than it must: once
\* as many rows were accepted as the ring has, the episodes held fill it except for a
\* gap at its end and a gap in front of the pointer, each smaller than the biggest
\* item.  In unit "transition" the ring physically holds the newest rows, as many as
\* it has room for, across every wrap and every batch that is split in two.
NothingLostEarly ==
    IF unit = "episode"
    THEN rows >= Capacity =>
            Cardinality(UNION {RowsOf(v) : v \in registry}) >= Capacity - 2 * (biggest - 1)
    ELSE \A r \in 1..rows : r + Capacity > rows => \E i \in Positions : data[i] = r

\* Whatever index below the length is read, it selects a row that was written since
\* the last clear (the tensors start uninitialised), among the newest ones, and its
\* use counter counts the reads of that very row: it never carries over the uses of
\* the row it replaced, nor loses any.
ReadsAreFresh ==
    \A selected \in Selections : \A i \in selected :
        /\ data[i] > 0
        /\ unit = "transition" => data[i] + Capacity > rows
        /\ counter[i] = reads[data[i]]

\* What was accepted stays as long as there is room for it, and what is read is that.
NewestKeptAndRead == NothingLostEarly /\ ReadsAreFresh

\* A container of transitions is as long as the rows it stores: all that were
\* accepted until the ring is full (docstring of __len__).
LenCountsStored ==
    unit = "transition" => size = MinOf(rows, Capacity)

=============================================================================
