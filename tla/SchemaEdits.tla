----------------------------- MODULE SchemaEdits -----------------------------
(***************************************************************************)
(* The life of a deployment schema shared by the operators of one or more  *)
(* Kubernetes clusters: an administrator adds data centres, scales them    *)
(* out and lists nodes under removeNodes. Every operator sees the same     *)
(* schema with "deploy" set for its own data centres and derives names     *)
(* from it by itself; the properties say that the names fit together.      *)
(***************************************************************************)
EXTENDS Topology, FiniteSets

CONSTANTS
  Clusters,     \* Kubernetes clusters, each with its own operator
  MaxDCs,       \* bound on data centres
  MaxReplicas,  \* bound on replicas of a data centre
  MaxSeeds,     \* bound on seeds of a data centre
  SeededDCs,    \* bound on data centres that are given other seeds than one computed
  MaxKeys,      \* bound on the keys of removeNodes of a data centre
  Address       \* an address of an explicit seed list

(***************************************************************************)
(* The default domain is the one every cluster gives its own services:     *)
(* GetClusterDomain tells the others by the domain the schema names.       *)
(***************************************************************************)
ASSUME SchemaAssumption ==
  MaxReplicas \in Nat /\ DefaultClusterDomain \notin Clusters

VARIABLE dcs    \* the shared schema: one to MaxDCs data centres, which name their
                \* "cluster" where Topology's have "deploy" and "domain"

Keys == [index : 0..MaxReplicas, canonical : BOOLEAN]

\* The schema as the operator of cluster c is given it.
View(c) ==
  [d \in DOMAIN dcs |->
     [deploy |-> dcs[d].cluster = c, domain |-> dcs[d].cluster,
      replicas |-> dcs[d].replicas, seeds |-> dcs[d].seeds,
      seedList |-> dcs[d].seedList, removeNodes |-> dcs[d].removeNodes]]

Valid(c) == InitialValidations(View(c))
PlannedSS(c) == {x.ss : x \in ToSet(RolloutPlan(View(c)))}
-----------------------------------------------------------------------------
NewDC(c, n, s, l) ==
  [cluster |-> c, replicas |-> n, seeds |-> s, seedList |-> l, removeNodes |-> {}]

SeedLists == {NoSeedList, <<Address>>}

Init ==
  \E c \in Clusters, n \in 1..MaxReplicas, s \in 1..MaxSeeds, l \in SeedLists :
    dcs = <<NewDC(c, n, s, l)>>

AddDC(c, n, s, l) ==
  /\ Len(dcs) < MaxDCs
  /\ Len(dcs) < SeededDCs \/ (s = 1 /\ l = NoSeedList)
  /\ dcs' = Append(dcs, NewDC(c, n, s, l))

ScaleOut(d) ==
  /\ dcs[d].replicas < MaxReplicas
  /\ dcs' = [dcs EXCEPT ![d].replicas = @ + 1]

ListForRemoval(d, k) ==
  /\ Cardinality(dcs[d].removeNodes) < MaxKeys
  /\ dcs' = [dcs EXCEPT ![d].removeNodes = @ \cup {k}]

Next ==
  \/ \E c \in Clusters, n \in 1..MaxReplicas, s \in 1..MaxSeeds, l \in SeedLists :
       AddDC(c, n, s, l)
  \/ \E d \in DOMAIN dcs : ScaleOut(d)
  \/ \E d \in DOMAIN dcs, k \in Keys : ListForRemoval(d, k)

Spec == Init /\ [][Next]_dcs
-----------------------------------------------------------------------------
(***************************************************************************)
(* No two nodes of a cluster get the same stateful set, whatever nodes     *)
(* have been removed and however the data centres were scaled, and the     *)
(* rollout visits them in the order of their indices. CassandraDeploy      *)
(* relies on it (PlanAssumption).                                          *)
(***************************************************************************)
StatefulSetsInOrder ==
  \A c \in Clusters :
    LET plan == RolloutPlan(View(c))
    IN \A i, j \in DOMAIN plan : i < j => plan[i].ss < plan[j].ss

(***************************************************************************)
(* RemoveNodes never deletes the stateful set of an active node, and the   *)
(* two kinds of stateful sets together are numbered without a gap, as long *)
(* as the keys are canonical numbers below the data centre's "replicas".   *)
(* (The code checks neither: "01" leaves node 1 active and deletes it, and *)
(* an index past the end names a node of the next data centre.)            *)
(***************************************************************************)
RemovalsInRange ==
  \A d \in DOMAIN dcs : \A k \in dcs[d].removeNodes :
    k.canonical /\ k.index < dcs[d].replicas

RemovalSparesActiveNodes ==
  RemovalsInRange =>
    \A c \in Clusters :
      /\ RemoveNodesTargets(View(c)) \cap PlannedSS(c) = {}
      /\ \A n \in RemoveNodesTargets(View(c)) \cup PlannedSS(c) :
           0..n \subseteq RemoveNodesTargets(View(c)) \cup PlannedSS(c)

(***************************************************************************)
(* Every seed an operator computes, for its own data centre or for one of  *)
(* another cluster, is the host of a node that the operator in charge of   *)
(* it really rolls out - although SeedsStep numbers nodes over the whole   *)
(* schema and CassandraStatefulSetStep over the deployed part. It needs a  *)
(* single cluster or one data centre per cluster; the operators that host  *)
(* two data centres of a wider schema number them differently.             *)
(***************************************************************************)
SupportedLayout ==
  \/ Cardinality({dcs[d].cluster : d \in DOMAIN dcs}) = 1
  \/ \A d, e \in DOMAIN dcs : dcs[d].cluster = dcs[e].cluster => d = e

Home(c, host) == IF host.domain = DefaultClusterDomain THEN c ELSE host.domain

SeedsAreRolledOut ==
  SupportedLayout =>
    \A c \in Clusters : Valid(c) =>
      /\ SeedsStep(View(c)) # <<>>
      /\ \A host \in ToSet(SeedsStep(View(c))) \ {Address} :
           host.ss \in PlannedSS(Home(c, host))

(***************************************************************************)
(* At least one of the contact points of the operator's sessions is a node *)
(* of its own cluster that the schema keeps, although GetConnectionHosts   *)
(* numbers the replicas of every data centre from zero and lists removed   *)
(* nodes too: CreateSuperUser and every later step can reach the database. *)
(***************************************************************************)
OperatorCanConnect ==
  \A c \in Clusters : Valid(c) =>
    \E host \in GetConnectionHosts(View(c)) :
      host.domain = DefaultClusterDomain /\ host.ss \in PlannedSS(c)

(***************************************************************************)
(* An edit never lowers the index of a node's stateful set: adding a data  *)
(* centre, here or in another cluster, and removing nodes leave every      *)
(* index as it is, scaling out moves later data centres up. A lowered      *)
(* index would make a rollout take the name of a stateful set that still   *)
(* runs another node (EditAllowed in CassandraDeploy).                     *)
(***************************************************************************)
IndicesNeverDrop ==
  [][\A c \in Clusters :
       \A x \in ToSet(RolloutPlan(View(c))), y \in ToSet(RolloutPlan(View(c)'))  :
         x.pvc = y.pvc =>
           /\ x.ss <= y.ss
           /\ (\A d \in DOMAIN dcs : dcs'[d].replicas = dcs[d].replicas) => x.ss = y.ss]_dcs
=============================================================================
