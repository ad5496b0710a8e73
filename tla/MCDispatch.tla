---------------------------- MODULE MCDispatch -----------------------------
(* Two policies on one node and one on another; a request has no node. *)
EXTENDS Dispatch

CONSTANTS n1, n2

ThreePolicies == 1..3
OnTwoNodes == [n \in {n1, n2} |-> IF n = n1 THEN <<1, 2>> ELSE <<3>>]
FourRequests == <<n1, n2, n1, Elsewhere>>
AllModes == {"affinity", "simple", "async"}
=============================================================================
