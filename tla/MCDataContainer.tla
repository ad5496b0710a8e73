------------------------- MODULE MCDataContainer -------------------------
(* Items for checking DataContainer: single episodes, pairs of sub-episodes, *)
(* one without rows and ones larger than the ring.                           *)
EXTENDS DataContainer

Single(len) == [n |-> 1, len |-> len]
Pair(len) == [n |-> 2, len |-> len]

SmallItems == {Single(0), Single(1), Single(2), Single(6), Pair(2), Pair(4)}
===========================================================================
