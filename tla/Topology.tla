------------------------------ MODULE Topology ------------------------------
(***************************************************************************)
(* How the operator turns a deployment schema into names: which replicas   *)
(* of a data centre are active, which stateful set and claim each one has, *)
(* which hosts are seeds, and which hosts the operator itself connects to. *)
(* The functions are those of api/v1alpha1, impl/utils and impl/common;    *)
(* they are called from different steps with different lists of data       *)
(* centres, so that nothing but this arithmetic keeps them in agreement.   *)
(*                                                                         *)
(* A schema is a sequence of data centres with the fields                  *)
(*   deploy       this operator's cluster hosts the data centre            *)
(*   domain       the cluster domain written in the schema                 *)
(*   replicas     number of replicas, the removed ones included            *)
(*   seeds        number of seeds, used when seedList is absent            *)
(*   seedList     explicit seed addresses, or NoSeedList                   *)
(*   removeNodes  the keys of removeNodes; a key is the text of a number,  *)
(*                canonical when it is printed the way Go prints it        *)
(***************************************************************************)
EXTENDS Integers, SequencesExt

CONSTANTS NoSeedList, DefaultClusterDomain

(***************************************************************************)
(* The elements of a sequence at the positions in keep, in their order:    *)
(* the loop that appends an element or skips it. (A recursive function     *)
(* where SelectSeq would do, for the proofs in SchemaEditsProofs.)         *)
(***************************************************************************)
Kept(seq, keep) ==
  LET kept[n \in 0..Len(seq)] ==
        IF n = 0 THEN <<>>
        ELSE IF n \in keep THEN Append(kept[n - 1], seq[n]) ELSE kept[n - 1]
  IN  kept[Len(seq)]

\* Mutant: removeNodes is ignored.
GetActiveReplicasAll(dc) == [i \in 1..dc.replicas |-> i - 1]

\* 0 .. replicas-1 without those whose printed form is a key of removeNodes.
Active(dc, r) == ~\E k \in dc.removeNodes : k.canonical /\ k.index = r

GetActiveReplicas(dc) ==
  Kept([i \in 1..dc.replicas |-> i - 1], {i \in 1..dc.replicas : Active(dc, i - 1)})

GetActiveReplicasLen(dc) == Len(GetActiveReplicas(dc))

FilterDC(dcs) == Kept(dcs, {d \in DOMAIN dcs : dcs[d].deploy})

\* Mutant: the active replicas of earlier data centres are counted.
CalcReplicaIndexActive(allDataCenters, currentDc, replica) ==
  LET separateDC == \E d \in DOMAIN allDataCenters : ~allDataCenters[d].deploy
      before == IF separateDC THEN {} ELSE 1..(currentDc - 1)
  IN  SumFunctionOnSet([d \in DOMAIN allDataCenters |->
                          GetActiveReplicasLen(allDataCenters[d])], before) + replica

(***************************************************************************)
(* The index of a replica's stateful set. Data centres of one list share   *)
(* the numbering unless one of them is hosted elsewhere.                   *)
(***************************************************************************)
CalcReplicaIndex(allDataCenters, currentDc, replica) ==
  LET separateDC == \E d \in DOMAIN allDataCenters : ~allDataCenters[d].deploy
      before == IF separateDC THEN {} ELSE 1..(currentDc - 1)
  IN  SumFunctionOnSet([d \in DOMAIN allDataCenters |-> allDataCenters[d].replicas],
                       before) + replica

GetClusterDomain(dc) == IF dc.deploy THEN DefaultClusterDomain ELSE dc.domain

CalcReplicaHostName(allDataCenters, currentDc, replica) ==
  [ss |-> CalcReplicaIndex(allDataCenters, currentDc, replica),
   domain |-> GetClusterDomain(allDataCenters[currentDc])]

(***************************************************************************)
(* The nodes CassandraStatefulSetStep rolls, in order: their stateful set  *)
(* and their claim "cassandra-data-dc<dc>-<replica>". Both are computed    *)
(* from the data centres this operator deploys.                            *)
(***************************************************************************)
RolloutPlan(dcs) ==
  LET dcReplicas == FilterDC(dcs)
      node(d, r) == [ss |-> CalcReplicaIndex(dcReplicas, d, r), pvc |-> <<d, r>>]
      nodes(d) == LET active == GetActiveReplicas(dcReplicas[d])
                  IN [i \in DOMAIN active |-> node(d, active[i])]
  IN  FlattenSeq([d \in DOMAIN dcReplicas |-> nodes(d)])

\* The stateful sets RemoveNodes deletes; the key is parsed with Atoi.
RemoveNodesTargets(dcs) ==
  LET dcReplicas == FilterDC(dcs)
  IN  UNION {{CalcReplicaIndex(dcReplicas, d, k.index) :
                k \in dcReplicas[d].removeNodes} : d \in DOMAIN dcReplicas}

\* Mutant: the position in the list of active replicas is taken for the replica.
SeedsStepByPosition(dcs) ==
  LET computed(d) ==
        [i \in 1..Min({GetActiveReplicasLen(dcs[d]), dcs[d].seeds}) |->
           CalcReplicaHostName(dcs, d, i - 1)]
      seedsOf(d) == IF dcs[d].seedList = NoSeedList THEN computed(d)
                    ELSE IF dcs[d].deploy THEN dcs[d].seedList ELSE <<>>
  IN  FlattenSeq([d \in DOMAIN dcs |-> seedsOf(d)])

(***************************************************************************)
(* SeedsStep: the first "seeds" active replicas of every data centre, or   *)
(* the explicit list, which counts only for a data centre deployed here.   *)
(***************************************************************************)
SeedsStep(dcs) ==
  LET computed(d) ==
        LET active == GetActiveReplicas(dcs[d])
        IN [i \in 1..Min({Len(active), dcs[d].seeds}) |->
              CalcReplicaHostName(dcs, d, active[i])]
      seedsOf(d) == IF dcs[d].seedList = NoSeedList THEN computed(d)
                    ELSE IF dcs[d].deploy THEN dcs[d].seedList ELSE <<>>
  IN  FlattenSeq([d \in DOMAIN dcs |-> seedsOf(d)])

\* Mutant: replicas are numbered from one.
GetConnectionHostsFromOne(dcs) ==
  UNION {{[ss |-> r, domain |-> GetClusterDomain(dcs[d])] :
            r \in 1..dcs[d].replicas} : d \in DOMAIN dcs}

\* The contact points of the operator's own sessions.
GetConnectionHosts(dcs) ==
  UNION {{[ss |-> r, domain |-> GetClusterDomain(dcs[d])] :
            r \in 0..(dcs[d].replicas - 1)} : d \in DOMAIN dcs}

\* The part of InitialValidations.Validate that is about replicas and seeds.
InitialValidations(dcs) ==
  LET deployed == FilterDC(dcs)
      seedNumber(dc) == IF dc.seedList = NoSeedList THEN dc.seeds ELSE Len(dc.seedList)
  IN  /\ Len(deployed) >= 1
      /\ \A d \in DOMAIN deployed :
           /\ GetActiveReplicasLen(deployed[d]) >= 1
           /\ seedNumber(deployed[d]) >= 1
=============================================================================
