------------------------- MODULE MCWeightTransfer -------------------------
(* WeightTransfer on up to three nodes. *)
EXTENDS WeightTransfer

\* Bound on the policies of a cluster.
MaxPolicies == 6

Node == [train : 0..2, eval : 0..2] \ {[train |-> 0, eval |-> 0]}
Size(c) == FoldSeq(LAMBDA n, sum : sum + n.train + n.eval, 0, c)
Clusters == {c \in UNION {[1..n -> Node] : n \in 1..3} :
                /\ Size(c) <= MaxPolicies
                /\ c[1].train > 0
                /\ \E n \in DOMAIN c : c[n].eval > 0
                /\ \A n \in 2..Len(c) : c[n].train > 0 => c[n - 1].train > 0}
AllStrategies == {"None", "Double", "Shared"}
===========================================================================
