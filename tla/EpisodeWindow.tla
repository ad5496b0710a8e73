--------------------------- MODULE EpisodeWindow ---------------------------
(***************************************************************************)
(* What a container of episodes promises (buffer/utils/storage.py): the    *)
(* episodes it holds are the youngest of those pushed since the last       *)
(* clear.  A push may evict old episodes to make room, the oldest first;   *)
(* nothing but a push or a clear changes what is held.  Episodes are       *)
(* numbered in the order in which they are pushed.                         *)
(***************************************************************************)
EXTENDS Naturals

VARIABLES born,        \* number of episodes pushed since the last clear
          stored       \* the episodes held

vars == <<born, stored>>

Init == born = 0 /\ stored = {}

Push ==
    /\ born' \in Nat /\ born' >= born
    /\ \E evicted \in 0..born' :
         stored' = {e \in stored \cup (born + 1)..born' : e > evicted}

Clear == born' = 0 /\ stored' = {}

Next == Push \/ Clear

Spec == Init /\ [][Next]_vars
=============================================================================
