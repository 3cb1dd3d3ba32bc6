-------------------------- MODULE CassandraDeployMC --------------------------
(***************************************************************************)
(* CassandraDeploy for TLC. Name, Plan and Removed are computed by module  *)
(* Topology from two data centres of one cluster:                          *)
(*   "two"     2 + 1 replicas                                              *)
(*   "image"   the same with another image                                 *)
(*   "grown"   3 + 1 replicas: the node of the second one changes its name *)
(*   "shrunk"  "grown" without node 1 of the first one                     *)
(***************************************************************************)
EXTENDS CassandraDeploy, TLC

CONSTANTS NoSeedList, DefaultClusterDomain

T == INSTANCE Topology

DC(n, removed) ==
  [deploy |-> TRUE, domain |-> DefaultClusterDomain, replicas |-> n, seeds |-> 1,
   seedList |-> NoSeedList,
   removeNodes |-> {[index |-> r, canonical |-> TRUE] : r \in removed}]

Schema == [two    |-> <<DC(2, {}), DC(1, {})>>,
           image  |-> <<DC(2, {}), DC(1, {})>>,
           grown  |-> <<DC(3, {}), DC(1, {})>>,
           shrunk |-> <<DC(3, {1}), DC(1, {})>>]

MCSpecs == DOMAIN Schema
MCPVCs == ({1} \X (0..2)) \cup ({2} \X (0..0))
MCNames == 0..3

(***************************************************************************)
(* TLC evaluates a definition that a configuration gives to a constant at  *)
(* every use of the constant, but one that this definition only refers to  *)
(* once: hence the tables. Tabulated(f) is f, with its values computed.    *)
(***************************************************************************)
Tabulated(f) == f @@ <<>>

\* A node the schema does not have yet is never looked up: any low index will do.
NameTable ==
  Tabulated([s \in MCSpecs |-> Tabulated([p \in MCPVCs |->
     IF p[2] < Schema[s][p[1]].replicas
       THEN T!CalcReplicaIndex(T!FilterDC(Schema[s]), p[1], p[2])
       ELSE 0])])

PlanTable ==
  Tabulated([s \in MCSpecs |-> Tabulated(
     [i \in DOMAIN T!RolloutPlan(Schema[s]) |-> T!RolloutPlan(Schema[s])[i].pvc])])

RemovedTable ==
  Tabulated([s \in MCSpecs |->
     {p \in MCPVCs : /\ p[2] < Schema[s][p[1]].replicas
                     /\ \E k \in Schema[s][p[1]].removeNodes : k.index = p[2]}])

MCName == NameTable
MCPlan == PlanTable
MCRemoved == RemovedTable

\* Topology agrees with the constants on every stateful set it names.
ASSUME
  \A s \in MCSpecs :
    /\ T!InitialValidations(Schema[s])
    /\ \A i \in DOMAIN T!RolloutPlan(Schema[s]) :
         T!RolloutPlan(Schema[s])[i].ss = MCName[s][MCPlan[s][i]]
    /\ T!RemoveNodesTargets(Schema[s]) = {MCName[s][p] : p \in MCRemoved[s]}
=============================================================================
