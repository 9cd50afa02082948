------------------------- MODULE MC_ActionProcessor -------------------------
(* Instances of ActionProcessor for TLC: two volumes, whose source claims *)
(* lie in the namespaces n1 and n2, one of which the snapshots may target. *)
EXTENDS ActionProcessor

CONSTANTS v1, v2

MCVols == {v1, v2}
MCOneVol == {v1}
MCNamespaces == {"n1", "n2"}
MCPVCOf == [v \in Vols |-> IF v = v1 THEN <<"n1">> ELSE <<"n2">>]
=============================================================================
