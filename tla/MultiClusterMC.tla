--------------------------- MODULE MultiClusterMC ---------------------------
(* Two clusters: the first is deployed alone or with the second, and grows *)
(* to two nodes before, while or after the second one joins.               *)
EXTENDS MultiCluster

MCPlan == {<<1, 0>>, <<1, 1>>, <<2, 1>>}
=============================================================================
