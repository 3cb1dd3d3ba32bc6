------------------------ MODULE CassandraDeployProofs ------------------------
(***************************************************************************)
(* Theorems about CassandraDeploy for every set of specs, nodes and names  *)
(* that satisfies the assumptions, and for any number of failures, crashes *)
(* and edits: type correctness, the operator's ability to log in, that no  *)
(* two stateful sets ever mount the same claim, that claims are handed     *)
(* over as VolumeAttachment says, that one node at a time is down, that a  *)
(* finished bootstrap is complete, and that an applied spec is in force.   *)
(***************************************************************************)
EXTENDS CassandraDeploy, TLAPS

(***************************************************************************)
(* Why no claim is shared. Read "n runs p" for vol[n] = p.                 *)
(*  - Nobody runs ahead of the numbering: n is at most the index that the  *)
(*    spec, and the target of a running pass, give p.                      *)
(*  - Where the numbering has gaps, every node runs under its exact index. *)
(*  - The nodes the rollout has passed run under their new index.          *)
(* A claim about to be mounted at index k can then only be in use at a     *)
(* lower index: with gaps there is none, and without gaps that lower index *)
(* has been passed and runs another node.                                  *)
(***************************************************************************)
Behind(s) == \A n \in Names : vol[n] # None => n <= Name[s][vol[n]]

Passed ==
  /\ pc \in {"delete", "create", "wait"} =>
       \A i \in 1..(pos - 1) :
         vol[Name[target][Plan[target][i]]] = Plan[target][i]
  /\ pc = "wait" => vol[HereSS] = Here

VolumeInv ==
  /\ TypeOK
  /\ Behind(spec)
  /\ Running => Behind(target)
  /\ Running => \A p \in PVCs : Name[target][p] <= Name[spec][p]
  /\ ~Contiguous(spec) => Exact(spec) /\ (Running => Name[target] = Name[spec])
  /\ Running /\ ~Contiguous(target) => Exact(target)
  /\ Passed
  /\ NoSharedVolume
-----------------------------------------------------------------------------
\* Indices are numbers, and a plan lists nodes.
LEMMA NameType ==
  ASSUME NEW s \in Specs
  PROVE  /\ \A p \in PVCs : Name[s][p] \in Names /\ Name[s][p] \in Nat
         /\ Len(Plan[s]) \in Nat /\ 1 \in 1..Len(Plan[s])
         /\ \A i \in 1..Len(Plan[s]) : Plan[s][i] \in PVCs
<1>1. Name[s] \in [PVCs -> Names] /\ Plan[s] \in Seq(PVCs) /\ Names \subseteq Nat
  BY SpecsAssumption
<1>2. \A p \in PVCs : Name[s][p] \in Names /\ Name[s][p] \in Nat
  BY <1>1
<1>3. Len(Plan[s]) \in Nat /\ \A i \in 1..Len(Plan[s]) : Plan[s][i] \in PVCs
  BY <1>1
<1>4. Len(Plan[s]) > 0
  BY PlanAssumption
<1> QED BY <1>2, <1>3, <1>4

\* The node under the rolling step is one of the plan and has a name.
LEMMA HereType ==
  ASSUME TypeOK
  PROVE  /\ Here \in PVCs
         /\ HereSS \in Names
         /\ pos \in Nat
         /\ Len(Plan[target]) \in Nat
  BY SpecsAssumption DEF TypeOK, Here, HereSS

\* A node passed before has another stateful set than the one under the step.
LEMMA EarlierNames ==
  ASSUME TypeOK, NEW i \in 1..(pos - 1)
  PROVE  Name[target][Plan[target][i]] \in Names \ {HereSS}
<1>1. target \in Specs /\ pos \in 1..Len(Plan[target]) /\ Len(Plan[target]) \in Nat
  BY NameType DEF TypeOK
<1>2. i \in 1..Len(Plan[target]) /\ i < pos
  BY <1>1
<1>3. Name[target][Plan[target][i]] < HereSS
  BY <1>1, <1>2, PlanAssumption DEF HereSS, Here
<1>4. Name[target][Plan[target][i]] \in Nat /\ HereSS \in Nat
  BY <1>1, <1>2, NameType DEF HereSS, Here
<1> QED BY <1>1, <1>2, <1>3, <1>4, NameType

\* A pass stays within the plan when it moves from one node to the next.
LEMMA AdvanceType ==
  ASSUME TypeOK, NEW again \in Steps, NEW next \in Steps,
         AdvanceTo(again, next), UNCHANGED target
  PROVE  pc' \in Steps /\ pos' \in 1..Len(Plan[target'])
  BY SpecsAssumption, PlanAssumption DEF TypeOK, AdvanceTo

(***************************************************************************)
(* Every variable keeps its type: in particular the position of a running  *)
(* pass never leaves the plan, although the plan it iterates over is fixed *)
(* when the pass begins and the custom resource changes under it.          *)
(***************************************************************************)
THEOREM TypeCorrect == Spec => []TypeOK
<1>1. Init => TypeOK
  <2> SUFFICES ASSUME Init PROVE TypeOK
    OBVIOUS
  <2>1. roles \in [Roles -> Passwords]
    BY DEF Init, Passwords
  <2>2. sysKs \in 0..Len(SystemKeyspaces)
    BY DEF Init, SystemKeyspaces
  <2>3. pos \in 1..Len(Plan[target])
    BY SpecsAssumption, PlanAssumption DEF Init
  <2>4. /\ vol \in [Names -> PVCs \cup {None}]
        /\ tmpl \in [Names -> Specs \cup {None}]
    BY DEF Init
  <2> QED
    BY <2>1, <2>2, <2>3, <2>4, SpecsAssumption DEF Init, TypeOK, Steps
<1>2. TypeOK /\ [Next]_vars => TypeOK'
  <2> SUFFICES ASSUME TypeOK, [Next]_vars PROVE TypeOK'
    OBVIOUS
  <2> USE DEF TypeOK, k8sVars, dbVars, crVars, bounds, passVars, history
  <2>1. CASE StartReconcile
    BY <2>1, NameType DEF StartReconcile, CalcDeployType, Steps
  <2>2. CASE CreatePVC
    BY <2>2, HereType, AdvanceType DEF CreatePVC, Steps
  <2>3. CASE StatefulSetDelete
    BY <2>3, HereType DEF StatefulSetDelete, DeleteStatefulsetAndPods, Steps
  <2>4. CASE StatefulSetCreate
    BY <2>4, HereType DEF StatefulSetCreate, Steps
  <2>5. CASE WaitForPodsReady
    BY <2>5, AdvanceType DEF WaitForPodsReady, Steps
  <2>6. CASE CreateSuperUser
    <3>1. roles' \in [Roles -> Passwords]
      BY <2>6 DEF CreateSuperUser, CreateUser, Roles, Passwords, DefaultUser
    <3>2. pc' \in Steps /\ todo' \subseteq PVCs
      BY <2>6, SpecsAssumption DEF CreateSuperUser, Steps
    <3> QED BY <2>6, <3>1, <3>2 DEF CreateSuperUser
  <2>7. CASE RemoveNode
    <3>1. PICK p \in todo : DeleteStatefulsetAndPods(Name[target][p]) /\ todo' = todo \ {p}
      BY <2>7 DEF RemoveNode
    <3> QED BY <2>7, <3>1, SpecsAssumption DEF RemoveNode, DeleteStatefulsetAndPods, Steps
  <2>8. CASE AlterSystemKeyspace
    BY <2>8 DEF AlterSystemKeyspace, SystemKeyspaces
  <2>9. CASE TopologyDone
    BY <2>9 DEF TopologyDone, Steps
  <2>10. CASE DropCassandraDefaultUser
    BY <2>10 DEF DropCassandraDefaultUser, Roles, Passwords, DefaultUser, Steps
  <2>11. CASE SaveApplied
    BY <2>11 DEF SaveApplied, Steps
  <2>12. CASE PassFails
    BY <2>12, SpecsAssumption, PlanAssumption DEF PassFails, Steps
  <2>13. ASSUME NEW n \in Names, PodReady(n) PROVE TypeOK'
    BY <2>13 DEF PodReady
  <2>14. ASSUME NEW n \in Names, PodCrash(n) PROVE TypeOK'
    BY <2>14 DEF PodCrash
  <2>15. ASSUME NEW s \in Specs, UpdateSpec(s) PROVE TypeOK'
    BY <2>15 DEF UpdateSpec
  <2>16. CASE UNCHANGED vars
    BY <2>16 DEF vars
  <2> QED
    BY <2>1, <2>2, <2>3, <2>4, <2>5, <2>6, <2>7, <2>8, <2>9, <2>10, <2>11,
       <2>12, <2>13, <2>14, <2>15, <2>16 DEF Next, Operator
<1> QED BY <1>1, <1>2, PTL DEF Spec
-----------------------------------------------------------------------------
(***************************************************************************)
(* Somebody can always log in, whichever user is configured and wherever   *)
(* passes fail: the default role is only given up - dropped, or its        *)
(* password changed - in a state in which the configured user has, or in   *)
(* the same step gets, the password of the secret.                         *)
(***************************************************************************)
THEOREM AlwaysCanLogIn == Spec => []OperatorCanLogIn
<1>1. Init => OperatorCanLogIn
  BY DEF Init, OperatorCanLogIn, Roles, DefaultUser
<1>2. TypeOK /\ OperatorCanLogIn /\ [Next]_vars => OperatorCanLogIn'
  <2> SUFFICES ASSUME TypeOK, OperatorCanLogIn, [Next]_vars PROVE OperatorCanLogIn'
    OBVIOUS
  <2>1. roles \in [Roles -> Passwords] /\ {User, DefaultUser} \subseteq Roles
    BY DEF TypeOK, Roles
  <2>2. CASE CreateSuperUser
    <3>1. CASE CheckLogin /\ UNCHANGED roles
      BY <3>1 DEF OperatorCanLogIn
    <3>2. CASE CreateUser
      BY <2>1, <3>2 DEF CreateUser, OperatorCanLogIn
    <3> QED BY <2>2, <3>1, <3>2 DEF CreateSuperUser
  <2>3. CASE DropCassandraDefaultUser
    BY <2>1, <2>3 DEF DropCassandraDefaultUser, CheckLogin, OperatorCanLogIn
  <2>4. UNCHANGED roles => OperatorCanLogIn'
    BY DEF OperatorCanLogIn
  <2> QED
    BY <2>2, <2>3, <2>4
    DEF Next, Operator, vars, dbVars, StartReconcile, CreatePVC, StatefulSetDelete,
        StatefulSetCreate, WaitForPodsReady, RemoveNode, AlterSystemKeyspace,
        TopologyDone, SaveApplied, PassFails, PodReady, PodCrash, UpdateSpec
<1> QED BY <1>1, <1>2, TypeCorrect, PTL DEF Spec
-----------------------------------------------------------------------------
(***************************************************************************)
(* The heart of the argument: when the rollout is about to mount a node's  *)
(* claim, no other stateful set has it.                                    *)
(***************************************************************************)
LEMMA HereIsFree ==
  ASSUME VolumeInv, pc = "create", NEW n \in Names, vol[n] = Here
  PROVE  n = HereSS
<1> USE DEF VolumeInv
<1>1. /\ Here \in PVCs /\ HereSS \in Names /\ pos \in Nat
      /\ Running /\ target \in Specs /\ pos \in 1..Len(Plan[target])
      /\ Len(Plan[target]) \in Nat
  BY HereType DEF Running, TypeOK
<1>2. vol[n] # None /\ n <= HereSS
  BY <1>1, SpecsAssumption DEF Behind, HereSS
<1>3. CASE ~Contiguous(target)
  BY <1>1, <1>2, <1>3 DEF Exact, HereSS
<1>4. CASE Contiguous(target) /\ n < HereSS
  <2>1. PICK j \in 1..Len(Plan[target]) : Name[target][Plan[target][j]] = n
    BY <1>1, <1>4 DEF Contiguous, HereSS, Here
  <2>2. j < pos
    <3>1. j # pos
      BY <1>1, <1>4, <2>1, SpecsAssumption DEF HereSS, Here
    <3>2. pos < j => HereSS < n
      BY <1>1, <2>1, PlanAssumption DEF HereSS, Here
    <3>3. n \in Nat /\ HereSS \in Nat /\ j \in Nat
      BY <1>1, <2>1, SpecsAssumption
    <3> QED BY <1>1, <1>4, <3>1, <3>2, <3>3
  <2>3. vol[n] = Plan[target][j]
    BY <1>1, <2>1, <2>2 DEF Passed
  <2>4. Here = Plan[target][j]
    BY <2>3
  <2>5. HereSS = n
    BY <2>1, <2>4 DEF HereSS
  <2> QED BY <1>1, <1>4, <2>5, SpecsAssumption
<1> QED BY <1>1, <1>2, <1>3, <1>4, SpecsAssumption

(***************************************************************************)
(* Steps that mount nothing and neither edit the resource nor begin a pass *)
(* keep the invariant: they can only take stateful sets away.              *)
(***************************************************************************)
LEMMA TakingAway ==
  ASSUME VolumeInv, TypeOK',
         UNCHANGED <<spec, target>>,
         Running' => Running,
         \A n \in Names : vol'[n] = vol[n] \/ vol'[n] = None,
         Passed'
  PROVE  VolumeInv'
<1> USE DEF VolumeInv
<1>1. Behind(spec)' /\ (Running' => Behind(target)')
  BY DEF Behind
<1>2. /\ Contiguous(spec)' = Contiguous(spec)
      /\ Contiguous(target)' = Contiguous(target)
  BY DEF Contiguous
<1>3. (Exact(spec) => Exact(spec)') /\ (Exact(target) => Exact(target)')
  BY DEF Exact
<1>4. NoSharedVolume'
  BY DEF NoSharedVolume
<1> QED BY <1>1, <1>2, <1>3, <1>4

\* Where the pass stands, nothing it has passed is lost while vol is unchanged.
LEMMA PassedAdvance ==
  ASSUME VolumeInv, pc = "wait", UNCHANGED <<vol, target>>,
         AdvanceTo("delete", "superuser")
  PROVE  Passed'
  BY SpecsAssumption DEF VolumeInv, TypeOK, Passed, AdvanceTo, Here, HereSS

\* Mounting the node under the rolling step keeps the invariant.
LEMMA MountingHere ==
  ASSUME VolumeInv, TypeOK', StatefulSetCreate
  PROVE  VolumeInv'
<1> USE DEF VolumeInv
<1>1. /\ Here \in PVCs /\ HereSS \in Names /\ pos \in Nat /\ Here # None
      /\ pc = "create" /\ pc' = "wait" /\ Running /\ Running'
      /\ UNCHANGED <<spec, target, pos>>
      /\ target \in Specs /\ spec \in Specs
      /\ pos \in 1..Len(Plan[target]) /\ Len(Plan[target]) \in Nat
  BY HereType, SpecsAssumption
  DEF StatefulSetCreate, Running, TypeOK, crVars, passVars
<1>2. vol' = [vol EXCEPT ![HereSS] = Here] /\ vol \in [Names -> PVCs \cup {None}]
  BY DEF StatefulSetCreate, TypeOK
<1>3. Here' = Here /\ HereSS' = HereSS
  BY <1>1 DEF Here, HereSS
<1>4. /\ Contiguous(spec)' = Contiguous(spec)
      /\ Contiguous(target)' = Contiguous(target)
  BY <1>1 DEF Contiguous
<1>5. HereSS <= Name[target][Here] /\ HereSS <= Name[spec][Here]
  BY <1>1, NameType DEF HereSS
<1>6. Behind(spec)' /\ Behind(target)'
  BY <1>1, <1>2, <1>5 DEF Behind
<1>7. \A p \in PVCs : Name[target'][p] <= Name[spec'][p]
  BY <1>1
<1>8. Exact(target) => Exact(target)'
  BY <1>1, <1>2 DEF Exact, HereSS
<1>9. Exact(spec) /\ Name[target] = Name[spec] => Exact(spec)'
  BY <1>1, <1>2 DEF Exact, HereSS
<1>10. Passed'
  <2>1. \A i \in 1..(pos - 1) : Name[target][Plan[target][i]] \in Names \ {HereSS}
    BY EarlierNames
  <2> QED BY <1>1, <1>2, <1>3, <2>1 DEF Passed
<1>11. NoSharedVolume'
  <2> SUFFICES ASSUME NEW m \in Names, NEW n \in Names,
                      vol'[m] # None, vol'[m] = vol'[n]
               PROVE  m = n
    BY DEF NoSharedVolume
  <2>1. CASE m # HereSS /\ n # HereSS
    BY <1>2, <2>1 DEF NoSharedVolume
  <2>2. CASE m = HereSS /\ n # HereSS
    BY <1>1, <1>2, <2>2, HereIsFree
  <2>3. CASE m # HereSS /\ n = HereSS
    BY <1>1, <1>2, <2>3, HereIsFree
  <2> QED BY <2>1, <2>2, <2>3
<1> QED BY <1>1, <1>4, <1>6, <1>7, <1>8, <1>9, <1>10, <1>11

\* An edit the assumption allows keeps the invariant, under a pass or not.
LEMMA Editing ==
  ASSUME VolumeInv, TypeOK', NEW s \in Specs, UpdateSpec(s)
  PROVE  VolumeInv'
<1> USE DEF VolumeInv
<1>1. /\ spec' = s /\ spec \in Specs /\ target \in Specs
      /\ UNCHANGED <<vol, pc, pos, target>>
      /\ vol \in [Names -> PVCs \cup {None}]
      /\ \A p \in PVCs : Name[spec][p] <= Name[s][p]
      /\ Contiguous(s) \/ (Exact(s) /\ (Running => Name[target] = Name[s]))
  BY DEF UpdateSpec, EditAllowed, k8sVars, passVars, TypeOK
<1>2. \A p \in PVCs : /\ Name[spec][p] \in Nat /\ Name[s][p] \in Nat
                       /\ Name[target][p] \in Nat
  BY <1>1, NameType
<1>3. Behind(spec)'
  <2> SUFFICES ASSUME NEW n \in Names, vol[n] # None PROVE n <= Name[s][vol[n]]
    BY <1>1 DEF Behind
  <2>1. vol[n] \in PVCs /\ n \in Nat
    BY <1>1, SpecsAssumption
  <2>2. n <= Name[spec][vol[n]]
    BY DEF Behind
  <2> QED BY <1>1, <1>2, <2>1, <2>2
<1>4. Running' = Running /\ (Behind(target) => Behind(target)')
      /\ (Exact(target) => Exact(target)') /\ (Passed => Passed')
  BY <1>1 DEF Running, Behind, Exact, Passed, Here, HereSS
<1>5. Running' => \A p \in PVCs : Name[target'][p] <= Name[spec'][p]
  BY <1>1, <1>2, <1>4
<1>6. Contiguous(spec)' = Contiguous(s) /\ Contiguous(target)' = Contiguous(target)
  BY <1>1 DEF Contiguous
<1>7. Exact(s) => Exact(spec)'
  BY <1>1 DEF Exact
<1>8. NoSharedVolume'
  BY <1>1 DEF NoSharedVolume
<1> QED BY <1>1, <1>3, <1>4, <1>5, <1>6, <1>7, <1>8

\* The order of the rollout as an invariant of the specification.
LEMMA VolumeInvariant == Spec => []VolumeInv
<1>1. Init /\ TypeOK => VolumeInv
  <2> SUFFICES ASSUME Init, TypeOK PROVE VolumeInv
    OBVIOUS
  <2>1. \A n \in Names : vol[n] = None
    BY DEF Init
  <2>2. Behind(spec) /\ Exact(spec) /\ NoSharedVolume
    BY <2>1 DEF Behind, Exact, NoSharedVolume
  <2>3. ~Running /\ Passed
    BY DEF Init, Running, Passed
  <2> QED BY <2>2, <2>3 DEF VolumeInv
<1>2. VolumeInv /\ TypeOK' /\ [Next]_vars => VolumeInv'
  <2> SUFFICES ASSUME VolumeInv, TypeOK', [Next]_vars PROVE VolumeInv'
    OBVIOUS
  <2> USE DEF k8sVars, dbVars, crVars, bounds, passVars, history
  <2>1. CASE StartReconcile
    <3>1. /\ target' = spec /\ UNCHANGED <<spec, vol>> /\ pc' = "pvc"
          /\ spec \in Specs
      BY <2>1 DEF StartReconcile, VolumeInv, TypeOK
    <3>2. Behind(spec)' /\ Behind(target)' /\ NoSharedVolume' /\ Passed'
      BY <3>1 DEF VolumeInv, Behind, NoSharedVolume, Passed
    <3>3. /\ Contiguous(spec)' = Contiguous(spec)
          /\ Contiguous(target)' = Contiguous(spec)
      BY <3>1 DEF Contiguous
    <3>4. Exact(spec) => Exact(spec)' /\ Exact(target)'
      BY <3>1 DEF Exact
    <3>5. \A p \in PVCs : Name[target'][p] <= Name[spec'][p]
      BY <3>1, NameType
    <3> QED BY <3>1, <3>2, <3>3, <3>4, <3>5 DEF VolumeInv
  <2>2. CASE CreatePVC
    <3>1. Passed'
      BY <2>2, HereType DEF CreatePVC, AdvanceTo, Passed, VolumeInv
    <3> QED BY <2>2, <3>1, TakingAway DEF CreatePVC, Running
  <2>3. CASE StatefulSetDelete
    <3>1. /\ vol' = [vol EXCEPT ![HereSS] = None] /\ vol \in [Names -> PVCs \cup {None}]
          /\ pc = "delete" /\ pc' = "create" /\ UNCHANGED <<spec, target, pos>>
          /\ target \in Specs /\ pos \in 1..Len(Plan[target])
          /\ HereSS \in Names /\ Len(Plan[target]) \in Nat
      BY <2>3, HereType
      DEF StatefulSetDelete, DeleteStatefulsetAndPods, VolumeInv, TypeOK
    <3>2. \A i \in 1..(pos - 1) : Name[target][Plan[target][i]] \in Names \ {HereSS}
      BY EarlierNames DEF VolumeInv
    <3>3. Passed'
      BY <3>1, <3>2 DEF Passed, VolumeInv
    <3> QED BY <3>1, <3>3, TakingAway DEF Running
  <2>4. CASE StatefulSetCreate
    BY <2>4, MountingHere
  <2>5. CASE WaitForPodsReady
    <3>1. Passed'
      BY <2>5, PassedAdvance DEF WaitForPodsReady
    <3> QED BY <2>5, <3>1, TakingAway DEF WaitForPodsReady, Running
  <2>6. CASE CreateSuperUser
    BY <2>6, TakingAway DEF CreateSuperUser, Passed, Running
  <2>7. CASE RemoveNode
    <3>1. PICK p \in todo : DeleteStatefulsetAndPods(Name[target][p])
      BY <2>7 DEF RemoveNode
    <3>2. \A n \in Names : vol'[n] = vol[n] \/ vol'[n] = None
      BY <3>1 DEF DeleteStatefulsetAndPods, VolumeInv, TypeOK
    <3> QED BY <2>7, <3>2, TakingAway DEF RemoveNode, Passed, Running
  <2>8. CASE AlterSystemKeyspace
    BY <2>8, TakingAway DEF AlterSystemKeyspace, Passed, Running
  <2>9. CASE TopologyDone
    BY <2>9, TakingAway DEF TopologyDone, Passed, Running
  <2>10. CASE DropCassandraDefaultUser
    BY <2>10, TakingAway DEF DropCassandraDefaultUser, Passed, Running
  <2>11. CASE SaveApplied
    BY <2>11, TakingAway DEF SaveApplied, Passed, Running
  <2>12. CASE PassFails
    BY <2>12, TakingAway DEF PassFails, Passed, Running
  <2>13. CASE UNCHANGED <<spec, target, vol, pc, pos>>
    <3>1. Passed'
      BY <2>13 DEF VolumeInv, Passed, Here, HereSS
    <3> QED BY <2>13, <3>1, TakingAway DEF Running
  <2>14. ASSUME NEW n \in Names, PodReady(n) \/ PodCrash(n)
         PROVE  UNCHANGED <<spec, target, vol, pc, pos>>
    BY <2>14 DEF PodReady, PodCrash
  <2>15. ASSUME NEW s \in Specs, UpdateSpec(s) PROVE VolumeInv'
    BY <2>15, Editing
  <2>16. UNCHANGED vars => UNCHANGED <<spec, target, vol, pc, pos>>
    BY DEF vars
  <2> QED
    BY <2>1, <2>2, <2>3, <2>4, <2>5, <2>6, <2>7, <2>8, <2>9, <2>10, <2>11,
       <2>12, <2>13, <2>14, <2>15, <2>16 DEF Next, Operator
<1> QED BY <1>1, <1>2, TypeCorrect, PTL DEF Spec

(***************************************************************************)
(* No two stateful sets ever mount the same claim, for every schema, with  *)
(* passes that fail anywhere and edits that move nodes to other stateful   *)
(* sets while a pass runs.                                                 *)
(***************************************************************************)
THEOREM VolumesNeverShared == Spec => []NoSharedVolume
<1>1. VolumeInv => NoSharedVolume
  BY DEF VolumeInv
<1> QED BY <1>1, VolumeInvariant, PTL
-----------------------------------------------------------------------------
(***************************************************************************)
(* What the rollout has behind it, claim by claim: the claims of the plan  *)
(* exist once the first step is over, a stateful set is created only after *)
(* it was deleted, and whatever is mounted exists.                         *)
(***************************************************************************)
ClaimInv ==
  /\ pc = "pvc" => \A i \in 1..(pos - 1) : Plan[target][i] \in pvcs
  /\ pc \notin {"idle", "pvc"} => \A i \in 1..Len(Plan[target]) : Plan[target][i] \in pvcs
  /\ pc = "create" => vol[HereSS] = None
  /\ \A n \in Names : vol[n] # None => vol[n] \in pvcs

\* What is mounted is a claim that exists; the stateful set to create does not.
LEMMA ClaimInvariant == Spec => []ClaimInv
<1>1. Init => ClaimInv
  BY DEF Init, ClaimInv
<1>2. TypeOK /\ ClaimInv /\ [Next]_vars => ClaimInv'
  <2> SUFFICES ASSUME TypeOK, ClaimInv, [Next]_vars PROVE ClaimInv'
    OBVIOUS
  <2> USE DEF k8sVars, dbVars, crVars, bounds, passVars, history
  <2>1. /\ Here \in PVCs /\ HereSS \in Names /\ pos \in Nat /\ Len(Plan[target]) \in Nat
        /\ pos \in 1..Len(Plan[target]) /\ vol \in [Names -> PVCs \cup {None}]
    BY HereType DEF TypeOK
  <2>2. CASE StartReconcile
    BY <2>2 DEF StartReconcile, ClaimInv
  <2>3. CASE CreatePVC
    BY <2>1, <2>3 DEF CreatePVC, AdvanceTo, ClaimInv, Here
  <2>4. CASE StatefulSetDelete
    <3>1. HereSS' = HereSS
      BY <2>4 DEF StatefulSetDelete, HereSS, Here
    <3> QED BY <2>1, <2>4, <3>1 DEF StatefulSetDelete, DeleteStatefulsetAndPods, ClaimInv
  <2>5. CASE StatefulSetCreate
    BY <2>1, <2>5 DEF StatefulSetCreate, ClaimInv, Here
  <2>6. CASE WaitForPodsReady
    BY <2>6 DEF WaitForPodsReady, AdvanceTo, ClaimInv
  <2>7. CASE RemoveNode
    <3>1. PICK p \in todo : DeleteStatefulsetAndPods(Name[target][p])
      BY <2>7 DEF RemoveNode
    <3>2. \A n \in Names : vol'[n] = vol[n] \/ vol'[n] = None
      BY <2>1, <3>1 DEF DeleteStatefulsetAndPods
    <3> QED BY <2>7, <3>2 DEF RemoveNode, ClaimInv
  <2>8. CASE CreateSuperUser \/ TopologyDone \/ DropCassandraDefaultUser \/ SaveApplied
             \/ PassFails
    BY <2>8 DEF CreateSuperUser, TopologyDone, DropCassandraDefaultUser, SaveApplied,
               PassFails, Running, ClaimInv
  <2>9. CASE UNCHANGED <<pc, pos, target, pvcs, vol>>
    BY <2>9 DEF ClaimInv, HereSS, Here
  <2>10. ASSUME NEW n \in Names, PodReady(n) \/ PodCrash(n)
         PROVE  UNCHANGED <<pc, pos, target, pvcs, vol>>
    BY <2>10 DEF PodReady, PodCrash
  <2>11. ASSUME NEW s \in Specs, UpdateSpec(s)
         PROVE  UNCHANGED <<pc, pos, target, pvcs, vol>>
    BY <2>11 DEF UpdateSpec
  <2>12. AlterSystemKeyspace \/ UNCHANGED vars => UNCHANGED <<pc, pos, target, pvcs, vol>>
    BY DEF AlterSystemKeyspace, vars
  <2> QED
    BY <2>2, <2>3, <2>4, <2>5, <2>6, <2>7, <2>8, <2>9, <2>10, <2>11, <2>12
    DEF Next, Operator
<1> QED BY <1>1, <1>2, TypeCorrect, PTL DEF Spec

(***************************************************************************)
(* The rollout implements VolumeAttachment: whatever is renumbered, fails  *)
(* or is repeated, a claim is mounted only when it exists, only by a       *)
(* stateful set that has none, and only after every other stateful set has *)
(* let go of it.                                                           *)
(***************************************************************************)
THEOREM RolloutHandsVolumesOver == Spec => VolumesHandedOver
<1>1. Init => Volumes!Init
  BY DEF Init, Volumes!Init
<1>2. VolumeInv /\ ClaimInv /\ [Next]_vars => [Volumes!Next]_(Volumes!vars)
  <2> SUFFICES ASSUME VolumeInv, ClaimInv, [Next]_vars
               PROVE  Volumes!Next \/ UNCHANGED <<pvcs, vol>>
    BY DEF Volumes!vars
  <2> USE DEF k8sVars, dbVars, crVars, bounds, passVars, history
  <2>1. /\ Here \in PVCs /\ HereSS \in Names /\ target \in Specs /\ Here # None
        /\ pos \in 1..Len(Plan[target]) /\ todo \subseteq PVCs
    BY HereType, SpecsAssumption DEF VolumeInv, TypeOK
  <2>2. CASE CreatePVC
    <3>1. Volumes!Provision(Here)
      BY <2>2 DEF CreatePVC, Volumes!Provision
    <3> QED BY <2>1, <3>1 DEF Volumes!Next
  <2>3. CASE StatefulSetDelete
    <3>1. Volumes!Detach(HereSS)
      BY <2>3 DEF StatefulSetDelete, DeleteStatefulsetAndPods, Volumes!Detach
    <3> QED BY <2>1, <3>1 DEF Volumes!Next
  <2>4. CASE StatefulSetCreate
    <3>1. Here \in pvcs /\ vol[HereSS] = None /\ pc = "create"
      BY <2>1, <2>4 DEF StatefulSetCreate, ClaimInv, Here
    <3>2. \A m \in Names : vol[m] # Here
      BY <2>1, <3>1, HereIsFree
    <3>3. Volumes!Attach(Here, HereSS)
      BY <2>4, <3>1, <3>2 DEF StatefulSetCreate, Volumes!Attach
    <3> QED BY <2>1, <3>3 DEF Volumes!Next
  <2>5. CASE RemoveNode
    <3>1. PICK p \in todo : DeleteStatefulsetAndPods(Name[target][p])
      BY <2>5 DEF RemoveNode
    <3>2. Volumes!Detach(Name[target][p])
      BY <2>5, <3>1 DEF RemoveNode, DeleteStatefulsetAndPods, Volumes!Detach
    <3> QED BY <2>1, <3>1, <3>2, NameType DEF Volumes!Next
  <2>6. ASSUME NEW n \in Names, PodReady(n) \/ PodCrash(n) PROVE UNCHANGED <<pvcs, vol>>
    BY <2>6 DEF PodReady, PodCrash
  <2>7. ASSUME NEW s \in Specs, UpdateSpec(s) PROVE UNCHANGED <<pvcs, vol>>
    BY <2>7 DEF UpdateSpec
  <2> QED
    BY <2>2, <2>3, <2>4, <2>5, <2>6, <2>7
    DEF Next, Operator, vars, StartReconcile, WaitForPodsReady, CreateSuperUser,
        AlterSystemKeyspace, TopologyDone, DropCassandraDefaultUser, SaveApplied, PassFails
<1> QED
  BY <1>1, <1>2, VolumeInvariant, ClaimInvariant, PTL
  DEF Spec, VolumesHandedOver, Volumes!Spec
-----------------------------------------------------------------------------
(***************************************************************************)
(* Why the first success has done everything that only a clean pass does.  *)
(* A pass that is not clean found a claim; as long as no clean pass was    *)
(* aborted, that claim is the work of one that succeeded. A clean pass is  *)
(* past the system keyspaces only when all of them are altered, and at its *)
(* end only when the default user is gone.                                 *)
(***************************************************************************)
Altered == sysKs = Len(SystemKeyspaces)
DefaultGone == User # DefaultUser => roles[DefaultUser] = "none"

BootInv ==
  /\ Running /\ deployType = "Update" => pvcs # {}
  /\ pvcs # {} /\ ~aborted => applied # None \/ (Running /\ deployType = "Clean")
  /\ deployType = "Clean" /\ pc \in {"dropDefault", "save"} => Altered
  /\ deployType = "Clean" /\ pc = "save" => DefaultGone
  /\ Bootstrapped

(***************************************************************************)
(* After the first success the system keyspaces are replicated and the     *)
(* default super user is gone, for every schema and any sequence of later  *)
(* failures and edits, unless the first pass failed after its first claim. *)
(***************************************************************************)
THEOREM BootstrapComplete == Spec => []Bootstrapped
<1>1. Init => BootInv
  BY DEF Init, BootInv, Bootstrapped, Running
<1>2. TypeOK /\ BootInv /\ [Next]_vars => BootInv'
  <2> SUFFICES ASSUME TypeOK, BootInv, [Next]_vars PROVE BootInv'
    OBVIOUS
  <2> USE DEF k8sVars, dbVars, crVars, bounds, passVars, history, Running
  <2>1. /\ roles \in [Roles -> Passwords] /\ {User, DefaultUser} \subseteq Roles
        /\ deployType \in {"Clean", "Update"} /\ target # None
    BY SpecsAssumption DEF TypeOK, Roles
  <2>2. CASE StartReconcile
    BY <2>2 DEF StartReconcile, CalcDeployType, BootInv, Bootstrapped, Altered, DefaultGone
  <2>3. CASE CreatePVC
    BY <2>1, <2>3
    DEF CreatePVC, AdvanceTo, BootInv, Bootstrapped, Altered, DefaultGone
  <2>4. CASE StatefulSetDelete \/ StatefulSetCreate \/ WaitForPodsReady \/ RemoveNode
    BY <2>4
    DEF StatefulSetDelete, StatefulSetCreate, WaitForPodsReady, RemoveNode, AdvanceTo,
        BootInv, Bootstrapped, Altered, DefaultGone
  <2>5. CASE CreateSuperUser
    <3>1. DefaultGone => DefaultGone'
      BY <2>1, <2>5 DEF CreateSuperUser, CreateUser, DefaultGone
    <3>2. /\ UNCHANGED <<sysKs, pvcs, applied, aborted, deployType>>
          /\ pc = "superuser" /\ pc' \in {"remove", "topology"}
      BY <2>5 DEF CreateSuperUser
    <3> QED BY <3>1, <3>2 DEF BootInv, Bootstrapped, Altered, DefaultGone
  <2>6. CASE AlterSystemKeyspace
    BY <2>6 DEF AlterSystemKeyspace, BootInv, Bootstrapped, Altered, DefaultGone, SystemKeyspaces
  <2>7. CASE TopologyDone
    BY <2>1, <2>7 DEF TopologyDone, BootInv, Bootstrapped, Altered, DefaultGone
  <2>8. CASE DropCassandraDefaultUser
    <3>1. DefaultGone => DefaultGone'
      BY <2>1, <2>8 DEF DropCassandraDefaultUser, DefaultGone
    <3>2. deployType = "Clean" => DefaultGone'
      BY <2>1, <2>8 DEF DropCassandraDefaultUser, DefaultGone
    <3>3. /\ UNCHANGED <<sysKs, pvcs, applied, aborted, deployType>>
          /\ pc = "dropDefault" /\ pc' = "save"
      BY <2>8 DEF DropCassandraDefaultUser
    <3> QED BY <3>1, <3>2, <3>3 DEF BootInv, Bootstrapped, Altered, DefaultGone
  <2>9. CASE SaveApplied
    <3>1. /\ pc = "save" /\ pc' = "idle" /\ applied' = target
          /\ UNCHANGED <<sysKs, roles, pvcs, aborted, deployType>>
      BY <2>9 DEF SaveApplied
    <3>2. ~aborted => Altered /\ DefaultGone
      BY <2>1, <3>1 DEF BootInv, Bootstrapped, Altered, DefaultGone
    <3> QED BY <2>1, <3>1, <3>2 DEF BootInv, Bootstrapped, Altered, DefaultGone
  <2>10. CASE PassFails
    BY <2>1, <2>10 DEF PassFails, BootInv, Bootstrapped, Altered, DefaultGone
  <2>11. CASE UNCHANGED <<pc, deployType, pvcs, applied, aborted, sysKs, roles>>
    BY <2>11 DEF BootInv, Bootstrapped, Altered, DefaultGone
  <2>12. ASSUME NEW n \in Names, PodReady(n) \/ PodCrash(n)
         PROVE  UNCHANGED <<pc, deployType, pvcs, applied, aborted, sysKs, roles>>
    BY <2>12 DEF PodReady, PodCrash
  <2>13. ASSUME NEW s \in Specs, UpdateSpec(s)
         PROVE  UNCHANGED <<pc, deployType, pvcs, applied, aborted, sysKs, roles>>
    BY <2>13 DEF UpdateSpec
  <2>14. UNCHANGED vars => UNCHANGED <<pc, deployType, pvcs, applied, aborted, sysKs, roles>>
    BY DEF vars
  <2> QED
    BY <2>2, <2>3, <2>4, <2>5, <2>6, <2>7, <2>8, <2>9, <2>10, <2>11, <2>12, <2>13, <2>14
    DEF Next, Operator
<1>3. BootInv => Bootstrapped
  BY DEF BootInv
<1> QED BY <1>1, <1>2, <1>3, TypeCorrect, PTL DEF Spec
-----------------------------------------------------------------------------
(***************************************************************************)
(* Why a recorded spec is what runs. Every node that runs is one the spec  *)
(* knows, as an active or as a removed one (KnownInv). The active ones run *)
(* where the rollout put them, with its template (RolledOut). A removed    *)
(* one that still ran under an index of its own or a lower one would run   *)
(* under the index of an active node, which runs another claim, or of a    *)
(* removed one, which RemoveNodes has deleted (RemovedGone).               *)
(***************************************************************************)
Late == {"superuser", "remove", "topology", "dropDefault", "save"}
SSOf(i) == Name[target][Plan[target][i]]

KnownInv ==
  /\ \A n \in Names : vol[n] # None => Known(spec, vol[n])
  /\ Running => \A n \in Names : vol[n] # None => Known(target, vol[n])
  /\ Running => \A p \in PVCs : Known(target, p) => Known(spec, p)
  /\ Running /\ deployType = "Clean" =>
       \A n \in Names : vol[n] # None => InPlan(target, vol[n])

RolledOut ==
  /\ pc \in {"delete", "create", "wait"} => \A i \in 1..(pos - 1) : tmpl[SSOf(i)] = target
  /\ pc = "wait" => tmpl[HereSS] = target
  /\ pc \in Late => \A i \in 1..Len(Plan[target]) :
                      vol[SSOf(i)] = Plan[target][i] /\ tmpl[SSOf(i)] = target

RemovedGone ==
  /\ pc = "remove" => /\ todo \subseteq Removed[target]
                      /\ \A q \in Removed[target] \ todo : vol[Name[target][q]] = None
  /\ pc \in {"topology", "dropDefault", "save"} /\ deployType # "Clean" =>
       \A q \in Removed[target] : vol[Name[target][q]] = None

\* The stateful sets are exactly those of s.
InForce(s) ==
  \A n \in Names :
    IF \E p \in PVCs : InPlan(s, p) /\ Name[s][p] = n
      THEN /\ tmpl[n] = s
           /\ InPlan(s, vol[n]) /\ Name[s][vol[n]] = n
      ELSE vol[n] = None

AppliedInForce ==
  /\ Running => dirty
  /\ ~dirty /\ applied # None => InForce(applied)

\* A planned node has a position, a name and a claim of its own.
LEMMA SSOfType ==
  ASSUME TypeOK, NEW i \in 1..Len(Plan[target])
  PROVE  Plan[target][i] \in PVCs /\ SSOf(i) \in Names
  BY NameType DEF TypeOK, SSOf

\* No step but StatefulSetCreate and the beginning of a pass makes a node known.
LEMMA KnownTakingAway ==
  ASSUME KnownInv, UNCHANGED <<spec, target, deployType>>, Running' => Running,
         \A n \in Names : vol'[n] = vol[n] \/ vol'[n] = None
  PROVE  KnownInv'
  BY DEF KnownInv, Known, InPlan

\* Every claim and every stateful set belongs to a node the spec knows.
LEMMA KnownInvariant == Spec => []KnownInv
<1>1. Init => KnownInv
  BY DEF Init, KnownInv, Running
<1>2. TypeOK /\ ClaimInv /\ KnownInv /\ [Next]_vars => KnownInv'
  <2> SUFFICES ASSUME TypeOK, ClaimInv, KnownInv, [Next]_vars PROVE KnownInv'
    OBVIOUS
  <2> USE DEF k8sVars, dbVars, crVars, bounds, passVars, history, Running
  <2>1. /\ Here \in PVCs /\ HereSS \in Names /\ vol \in [Names -> PVCs \cup {None}]
        /\ pos \in 1..Len(Plan[target]) /\ todo \subseteq PVCs /\ target \in Specs
    BY HereType DEF TypeOK
  <2>2. CASE StartReconcile
    <3>1. /\ UNCHANGED <<spec, vol>> /\ target' = spec
          /\ deployType' = "Clean" => \A n \in Names : vol[n] = None
      BY <2>2 DEF StartReconcile, CalcDeployType, ClaimInv
    <3> QED BY <3>1 DEF KnownInv, Known, InPlan
  <2>3. CASE StatefulSetCreate
    <3>1. /\ UNCHANGED <<spec, target, deployType>> /\ pc = "create" /\ pc' = "wait"
          /\ vol' = [vol EXCEPT ![HereSS] = Here]
      BY <2>3 DEF StatefulSetCreate
    <3>2. InPlan(target, Here) /\ Known(target, Here) /\ Known(spec, Here)
      BY <2>1, <3>1 DEF KnownInv, Known, InPlan, Here
    <3> QED BY <2>1, <3>1, <3>2 DEF KnownInv, Known, InPlan
  <2>4. CASE StatefulSetDelete
    BY <2>1, <2>4, KnownTakingAway DEF StatefulSetDelete, DeleteStatefulsetAndPods
  <2>5. CASE RemoveNode
    <3>1. PICK p \in todo : DeleteStatefulsetAndPods(Name[target][p])
      BY <2>5 DEF RemoveNode
    <3>2. \A n \in Names : vol'[n] = vol[n] \/ vol'[n] = None
      BY <2>1, <3>1 DEF DeleteStatefulsetAndPods
    <3> QED BY <2>5, <3>2, KnownTakingAway DEF RemoveNode
  <2>6. ASSUME NEW s \in Specs, UpdateSpec(s) PROVE KnownInv'
    <3>1. /\ spec' = s /\ UNCHANGED <<pc, target, deployType, vol>>
          /\ \A p \in PVCs : Known(spec, p) => Known(s, p)
      BY <2>6 DEF UpdateSpec, EditAllowed
    <3> QED BY <2>1, <3>1 DEF KnownInv, Known, InPlan
  <2>7. ASSUME NEW n \in Names, PodReady(n) \/ PodCrash(n) PROVE KnownInv'
    BY <2>7, KnownTakingAway DEF PodReady, PodCrash
  <2>8. CASE CreatePVC \/ WaitForPodsReady \/ CreateSuperUser \/ AlterSystemKeyspace
             \/ TopologyDone \/ DropCassandraDefaultUser \/ SaveApplied \/ PassFails
    <3>1. UNCHANGED <<spec, target, deployType, vol>> /\ (Running' => Running)
      BY <2>8
      DEF CreatePVC, WaitForPodsReady, CreateSuperUser, AlterSystemKeyspace, TopologyDone,
          DropCassandraDefaultUser, SaveApplied, PassFails
    <3> QED BY <3>1, KnownTakingAway
  <2>9. CASE UNCHANGED vars
    BY <2>9, KnownTakingAway DEF vars
  <2> QED
    BY <2>2, <2>3, <2>4, <2>5, <2>6, <2>7, <2>8, <2>9 DEF Next, Operator
<1> QED BY <1>1, <1>2, TypeCorrect, ClaimInvariant, PTL DEF Spec

\* The nodes the removal step is through with are gone, and stay so in this pass.
LEMMA RemovedInvariant == Spec => []RemovedGone
<1>1. Init => RemovedGone
  BY DEF Init, RemovedGone
<1>2. TypeOK /\ RemovedGone /\ [Next]_vars => RemovedGone'
  <2> SUFFICES ASSUME TypeOK, RemovedGone, [Next]_vars PROVE RemovedGone'
    OBVIOUS
  <2> USE DEF k8sVars, dbVars, crVars, bounds, passVars, history
  <2>1. /\ vol \in [Names -> PVCs \cup {None}] /\ todo \subseteq PVCs
        /\ \A q \in Removed[target] : Name[target][q] \in Names
    BY NameType, SpecsAssumption DEF TypeOK
  <2>2. CASE CreateSuperUser
    BY <2>2 DEF CreateSuperUser, RemovedGone
  <2>3. CASE RemoveNode
    <3>1. PICK p \in todo : DeleteStatefulsetAndPods(Name[target][p]) /\ todo' = todo \ {p}
      BY <2>3 DEF RemoveNode
    <3>2. /\ pc = "remove" /\ UNCHANGED <<target, deployType>>
          /\ pc' = IF todo' = {} THEN "topology" ELSE "remove"
      BY <2>3 DEF RemoveNode
    <3>3. \A q \in Removed[target] \ todo' : vol'[Name[target][q]] = None
      <4> SUFFICES ASSUME NEW q \in Removed[target] \ todo'
                   PROVE  vol'[Name[target][q]] = None
        OBVIOUS
      <4>1. CASE q = p
        BY <2>1, <3>1, <4>1 DEF DeleteStatefulsetAndPods
      <4>2. CASE q # p
        <5>1. vol[Name[target][q]] = None
          BY <3>1, <3>2, <4>2 DEF RemovedGone
        <5> QED BY <2>1, <3>1, <5>1 DEF DeleteStatefulsetAndPods
      <4> QED BY <4>1, <4>2
    <3>4. todo' \subseteq Removed[target]
      BY <3>1, <3>2 DEF RemovedGone
    <3> QED BY <3>2, <3>3, <3>4 DEF RemovedGone
  <2>4. CASE AlterSystemKeyspace \/ TopologyDone \/ DropCassandraDefaultUser
    BY <2>4 DEF AlterSystemKeyspace, TopologyDone, DropCassandraDefaultUser, RemovedGone
  <2>5. CASE \/ StartReconcile \/ CreatePVC \/ StatefulSetDelete \/ StatefulSetCreate
             \/ WaitForPodsReady \/ SaveApplied \/ PassFails
    BY <2>5
    DEF StartReconcile, CreatePVC, StatefulSetDelete, StatefulSetCreate, WaitForPodsReady,
        SaveApplied, PassFails, AdvanceTo, RemovedGone
  <2>6. CASE UNCHANGED <<pc, target, deployType, todo, vol>>
    BY <2>6 DEF RemovedGone
  <2>7. ASSUME NEW n \in Names, PodReady(n) \/ PodCrash(n)
        PROVE  UNCHANGED <<pc, target, deployType, todo, vol>>
    BY <2>7 DEF PodReady, PodCrash
  <2>8. ASSUME NEW s \in Specs, UpdateSpec(s)
        PROVE  UNCHANGED <<pc, target, deployType, todo, vol>>
    BY <2>8 DEF UpdateSpec
  <2>9. UNCHANGED vars => UNCHANGED <<pc, target, deployType, todo, vol>>
    BY DEF vars
  <2> QED
    BY <2>2, <2>3, <2>4, <2>5, <2>6, <2>7, <2>8, <2>9 DEF Next, Operator
<1> QED BY <1>1, <1>2, TypeCorrect, PTL DEF Spec

\* What the rollout has passed has the new template, all of it once it is over.
LEMMA RolledOutInvariant == Spec => []RolledOut
<1>1. Init => RolledOut
  BY DEF Init, RolledOut, Late
<1>2. VolumeInv /\ RemovedGone /\ RolledOut /\ [Next]_vars => RolledOut'
  <2> SUFFICES ASSUME VolumeInv, RemovedGone, RolledOut, [Next]_vars PROVE RolledOut'
    OBVIOUS
  <2> USE DEF k8sVars, dbVars, crVars, bounds, passVars, history
  <2>1. /\ TypeOK /\ Passed
        /\ HereSS \in Names /\ vol \in [Names -> PVCs \cup {None}]
        /\ tmpl \in [Names -> Specs \cup {None}] /\ target \in Specs
        /\ pos \in Nat /\ Len(Plan[target]) \in Nat /\ pos \in 1..Len(Plan[target])
    BY HereType DEF VolumeInv, TypeOK
  <2>2. \A i \in 1..(pos - 1) : SSOf(i) \in Names \ {HereSS}
    BY <2>1, EarlierNames DEF SSOf
  <2>3. CASE StatefulSetDelete \/ StatefulSetCreate
    <3>1. /\ UNCHANGED <<target, pos>> /\ HereSS' = HereSS
          /\ \A i : SSOf(i)' = SSOf(i)
          /\ pc \in {"delete", "create"} /\ pc' \in {"create", "wait"}
          /\ pc' = "wait" => tmpl' = [tmpl EXCEPT ![HereSS] = target]
          /\ \A n \in Names \ {HereSS} : tmpl'[n] = tmpl[n]
      BY <2>1, <2>3
      DEF StatefulSetDelete, StatefulSetCreate, DeleteStatefulsetAndPods, SSOf, HereSS, Here
    <3> QED BY <2>1, <2>2, <3>1 DEF RolledOut, Late
  <2>4. CASE WaitForPodsReady
    <3>1. /\ UNCHANGED <<target, vol, tmpl>> /\ pc = "wait" /\ AdvanceTo("delete", "superuser")
          /\ \A i : SSOf(i)' = SSOf(i)
      BY <2>4 DEF WaitForPodsReady, SSOf
    <3>2. \A i \in 1..pos : vol[SSOf(i)] = Plan[target][i] /\ tmpl[SSOf(i)] = target
      BY <2>1, <3>1 DEF RolledOut, Passed, SSOf, HereSS, Here
    <3> QED BY <2>1, <3>1, <3>2 DEF RolledOut, AdvanceTo, Late
  <2>5. CASE RemoveNode
    <3>1. PICK p \in todo : DeleteStatefulsetAndPods(Name[target][p])
      BY <2>5 DEF RemoveNode
    <3>2. /\ UNCHANGED target /\ pc = "remove" /\ pc' \in Late /\ p \in Removed[target]
          /\ \A i : SSOf(i)' = SSOf(i)
      BY <2>5 DEF RemoveNode, RemovedGone, SSOf, Late
    <3>3. \A i \in 1..Len(Plan[target]) : SSOf(i) \in Names /\ SSOf(i) # Name[target][p]
      BY <2>1, <3>2, PlanAssumption, SSOfType DEF SSOf
    <3>4. \A i \in 1..Len(Plan[target]) : vol'[SSOf(i)] = vol[SSOf(i)]
                                          /\ tmpl'[SSOf(i)] = tmpl[SSOf(i)]
      BY <2>1, <3>1, <3>3 DEF DeleteStatefulsetAndPods
    <3>5. pc' \notin {"delete", "create", "wait"}
      BY <3>2 DEF Late
    <3> QED BY <3>2, <3>4, <3>5 DEF RolledOut, Late
  <2>6. CASE \/ CreateSuperUser \/ AlterSystemKeyspace \/ TopologyDone
             \/ DropCassandraDefaultUser
    <3>1. /\ UNCHANGED <<target, vol, tmpl>> /\ pc \in Late /\ pc' \in Late
          /\ \A i : SSOf(i)' = SSOf(i)
      BY <2>6
      DEF CreateSuperUser, AlterSystemKeyspace, TopologyDone, DropCassandraDefaultUser,
          Late, SSOf
    <3>2. pc' \notin {"delete", "create", "wait"}
      BY <3>1 DEF Late
    <3> QED BY <3>1, <3>2 DEF RolledOut
  <2>7. CASE CreatePVC \/ StartReconcile \/ SaveApplied \/ PassFails
    <3>1. pc' \in {"idle", "pvc"} \/ (pc' = "delete" /\ pos' = 1)
      BY <2>7 DEF CreatePVC, StartReconcile, SaveApplied, PassFails, AdvanceTo
    <3> QED BY <3>1 DEF RolledOut, Late
  <2>8. CASE UNCHANGED <<pc, pos, target, vol, tmpl>>
    BY <2>8 DEF RolledOut, SSOf, HereSS, Here
  <2>9. ASSUME NEW n \in Names, PodReady(n) \/ PodCrash(n)
        PROVE  UNCHANGED <<pc, pos, target, vol, tmpl>>
    BY <2>9 DEF PodReady, PodCrash
  <2>10. ASSUME NEW s \in Specs, UpdateSpec(s)
         PROVE  UNCHANGED <<pc, pos, target, vol, tmpl>>
    BY <2>10 DEF UpdateSpec
  <2>11. UNCHANGED vars => UNCHANGED <<pc, pos, target, vol, tmpl>>
    BY DEF vars
  <2> QED
    BY <2>3, <2>4, <2>5, <2>6, <2>7, <2>8, <2>9, <2>10, <2>11 DEF Next, Operator
<1> QED BY <1>1, <1>2, VolumeInvariant, RemovedInvariant, PTL DEF Spec

(***************************************************************************)
(* At the end of a pass the stateful sets are exactly those of its spec.   *)
(***************************************************************************)
LEMMA EndOfPass ==
  ASSUME VolumeInv, KnownInv, RolledOut, RemovedGone, pc = "save"
  PROVE  InForce(target)
<1>1. /\ TypeOK /\ Running /\ target \in Specs /\ vol \in [Names -> PVCs \cup {None}]
      /\ NoSharedVolume /\ Behind(target)
  BY DEF VolumeInv, TypeOK, Running
<1>2. \A i \in 1..Len(Plan[target]) :
        /\ Plan[target][i] \in PVCs /\ SSOf(i) \in Names
        /\ vol[SSOf(i)] = Plan[target][i] /\ tmpl[SSOf(i)] = target
  BY <1>1, SSOfType DEF RolledOut, Late
<1> SUFFICES ASSUME NEW n \in Names
             PROVE  IF \E p \in PVCs : InPlan(target, p) /\ Name[target][p] = n
                      THEN /\ tmpl[n] = target
                           /\ InPlan(target, vol[n]) /\ Name[target][vol[n]] = n
                      ELSE vol[n] = None
  BY DEF InForce
<1>3. CASE \E p \in PVCs : InPlan(target, p) /\ Name[target][p] = n
  <2>1. PICK i \in 1..Len(Plan[target]) : SSOf(i) = n
    BY <1>3 DEF InPlan, SSOf
  <2>2. vol[n] = Plan[target][i] /\ tmpl[n] = target
    BY <1>2, <2>1
  <2> QED BY <1>3, <2>1, <2>2 DEF InPlan, SSOf
<1>4. CASE ~\E p \in PVCs : InPlan(target, p) /\ Name[target][p] = n
  <2> SUFFICES ASSUME vol[n] # None PROVE FALSE
    BY <1>4
  <2>1. vol[n] \in PVCs /\ Known(target, vol[n])
    BY <1>1 DEF KnownInv
  <2>2. CASE InPlan(target, vol[n])
    <3>1. PICK i \in 1..Len(Plan[target]) : Plan[target][i] = vol[n]
      BY <2>2 DEF InPlan
    <3>2. SSOf(i) = n
      BY <1>1, <1>2, <3>1 DEF NoSharedVolume
    <3> QED BY <1>4, <2>1, <2>2, <3>1, <3>2 DEF SSOf
  <2>3. CASE vol[n] \in Removed[target] /\ ~InPlan(target, vol[n])
    <3>1. deployType # "Clean"
      BY <1>1, <2>3 DEF KnownInv
    <3>2. n <= Name[target][vol[n]] /\ n \in Nat /\ Name[target][vol[n]] \in Nat
      BY <1>1, <2>1, NameType, SpecsAssumption DEF Behind
    <3>3. PICK q \in PVCs : Known(target, q) /\ Name[target][q] = n
      <4>1. CASE n = Name[target][vol[n]]
        BY <2>1, <4>1
      <4>2. CASE n < Name[target][vol[n]]
        BY <1>1, <2>1, <4>2, PlanAssumption
      <4> QED BY <3>2, <4>1, <4>2
    <3>4. q \in Removed[target]
      BY <1>4, <3>3 DEF Known
    <3> QED BY <3>1, <3>3, <3>4 DEF RemovedGone
  <2> QED BY <2>1, <2>2, <2>3 DEF Known
<1> QED BY <1>3, <1>4

(***************************************************************************)
(* Between passes, once a spec is recorded as applied and no pass began    *)
(* since, the stateful sets are exactly the ones it asks for, for every    *)
(* schema and whatever half-done passes for whatever specs came before.    *)
(***************************************************************************)
THEOREM AppliedConverges == Spec => []Converged
<1>1. Init => AppliedInForce
  BY DEF Init, AppliedInForce, Running
<1>2. VolumeInv /\ KnownInv /\ RolledOut /\ RemovedGone /\ AppliedInForce /\ [Next]_vars
        => AppliedInForce'
  <2> SUFFICES ASSUME VolumeInv, KnownInv, RolledOut, RemovedGone, AppliedInForce,
                      [Next]_vars
               PROVE  AppliedInForce'
    OBVIOUS
  <2> USE DEF k8sVars, dbVars, crVars, bounds, passVars, history, Running
  <2>1. CASE SaveApplied
    <3>1. pc = "save" /\ applied' = target /\ UNCHANGED <<vol, tmpl>> /\ pc' = "idle"
      BY <2>1 DEF SaveApplied
    <3>2. InForce(target)
      BY <3>1, EndOfPass
    <3> QED BY <3>1, <3>2 DEF AppliedInForce, InForce, InPlan
  <2>2. CASE dirty'
    BY <2>2 DEF AppliedInForce
  <2>3. CASE ~dirty' /\ UNCHANGED <<dirty, applied, vol, tmpl>> /\ (Running' => Running)
    BY <2>3 DEF AppliedInForce, InForce, InPlan
  <2>4. ASSUME NEW n \in Names, PodReady(n) \/ PodCrash(n)
        PROVE  UNCHANGED <<dirty, applied, vol, tmpl, pc>>
    BY <2>4 DEF PodReady, PodCrash
  <2>5. ASSUME NEW s \in Specs, UpdateSpec(s)
        PROVE  UNCHANGED <<dirty, applied, vol, tmpl, pc>>
    BY <2>5 DEF UpdateSpec
  <2>6. CASE Operator /\ ~SaveApplied
    <3>1. (pc # "idle" /\ UNCHANGED dirty) \/ dirty'
      BY <2>6
      DEF Operator, StartReconcile, CreatePVC, StatefulSetDelete, StatefulSetCreate,
          WaitForPodsReady, CreateSuperUser, RemoveNode, AlterSystemKeyspace, TopologyDone,
          DropCassandraDefaultUser
    <3> QED BY <3>1, <2>2 DEF AppliedInForce
  <2>7. CASE PassFails
    BY <2>7, <2>2 DEF PassFails, AppliedInForce
  <2>8. CASE UNCHANGED vars
    BY <2>8, <2>2, <2>3 DEF vars
  <2> QED
    BY <2>1, <2>2, <2>3, <2>4, <2>5, <2>6, <2>7, <2>8 DEF Next
<1>3. TypeOK /\ AppliedInForce => Converged
  BY SpecsAssumption DEF TypeOK, AppliedInForce, InForce, Converged
<1> QED
  BY <1>1, <1>2, <1>3, TypeCorrect, VolumeInvariant, KnownInvariant, RolledOutInvariant,
     RemovedInvariant, PTL DEF Spec
-----------------------------------------------------------------------------
(***************************************************************************)
(* Why a pass takes down one healthy node at a time. A healthy node runs   *)
(* under the index the pass gives it and nowhere else. If it is active, no *)
(* other node of the pass has that index: only its own turn in the rollout *)
(* takes it down, and the wait at the end of the turn brings it back.      *)
(***************************************************************************)
Turn(p) == pc \in {"create", "wait"} /\ p = Here

HealthyInv ==
  /\ \A p \in healthy : Known(target, p)
  /\ \A p \in healthy : \A n \in Names : vol[n] = p => n = Name[target][p]
  /\ Running => \A p \in healthy \ Removed[target] : Served(p) \/ Turn(p)
  /\ OneNodeDown

\* Steps that leave pods, their claims and the pass's place alone.
LEMMA HealthyFrame ==
  ASSUME HealthyInv, UNCHANGED <<vol, ready, target, healthy>>,
         Running' => Running, \A p : Running' /\ Turn(p) => Turn(p)' \/ Served(p)
  PROVE  HealthyInv'
<1>1. \A p : Served(p)' = Served(p) /\ Known(target, p)' = Known(target, p)
  BY DEF Served, Known, InPlan
<1>2. OneNodeDown'
  BY <1>1 DEF HealthyInv, OneNodeDown
<1> QED BY <1>1, <1>2 DEF HealthyInv

(***************************************************************************)
(* Of the nodes that were ready when a pass began and that it keeps, at    *)
(* most one is down at any time, for every schema, also when the pass      *)
(* follows one that failed with a node down, and under edits and crashes   *)
(* of other pods.                                                          *)
(***************************************************************************)
THEOREM OneAtATime == Spec => []OneNodeDown
<1>1. Init => HealthyInv
  BY DEF Init, HealthyInv, OneNodeDown, Running
<1>2. VolumeInv /\ ClaimInv /\ KnownInv /\ RemovedGone /\ HealthyInv /\ [Next]_vars
        => HealthyInv'
  <2> SUFFICES ASSUME VolumeInv, ClaimInv, KnownInv, RemovedGone, HealthyInv, [Next]_vars
               PROVE  HealthyInv'
    OBVIOUS
  <2> USE DEF k8sVars, dbVars, crVars, bounds, passVars, history
  <2>1. /\ TypeOK /\ NoSharedVolume /\ Passed
        /\ Here \in PVCs /\ HereSS \in Names /\ vol \in [Names -> PVCs \cup {None}]
        /\ spec \in Specs /\ target \in Specs /\ pos \in 1..Len(Plan[target])
        /\ ready \subseteq Names /\ healthy \subseteq PVCs /\ None \notin PVCs
    BY HereType, SpecsAssumption DEF VolumeInv, TypeOK
  <2>2. CASE StartReconcile
    <3>1. /\ target' = spec /\ UNCHANGED <<vol, ready>>
          /\ healthy' = {p \in PVCs : vol[Name[spec][p]] = p /\ Name[spec][p] \in ready}
      BY <2>2 DEF StartReconcile
    <3>2. \A p \in healthy' : Name[spec][p] \in Names /\ Served(p)'
      BY <2>1, <3>1, NameType DEF Served
    <3>3. \A p \in healthy' : Known(target, p)'
      BY <2>1, <3>1, <3>2 DEF KnownInv, Known, InPlan
    <3>4. \A p \in healthy' : \A n \in Names : vol'[n] = p => n = Name[target'][p]
      BY <2>1, <3>1, <3>2 DEF NoSharedVolume
    <3>5. OneNodeDown'
      BY <3>2 DEF OneNodeDown
    <3> QED BY <3>2, <3>3, <3>4, <3>5 DEF HealthyInv
  <2>3. CASE StatefulSetDelete
    <3>1. /\ pc = "delete" /\ pc' = "create" /\ UNCHANGED <<target, pos, healthy>>
          /\ vol' = [vol EXCEPT ![HereSS] = None] /\ ready' = ready \ {HereSS}
          /\ Here' = Here
      BY <2>3 DEF StatefulSetDelete, DeleteStatefulsetAndPods, Here
    <3>2. \A p \in healthy \ Removed[target] : Served(p) /\ InPlan(target, p)
      BY <3>1 DEF HealthyInv, Running, Turn, Known
    <3>3. ASSUME NEW p \in healthy \ Removed[target], p # Here PROVE Served(p)'
      <4>1. PICK n \in ready : vol[n] = p
        BY <3>2 DEF Served
      <4>2. n = Name[target][p] /\ InPlan(target, p)
        BY <2>1, <3>2, <4>1 DEF HealthyInv
      <4>3. n # HereSS
        <5>1. PICK i \in 1..Len(Plan[target]) : Plan[target][i] = p
          BY <4>2 DEF InPlan
        <5>2. i # pos
          BY <3>3, <5>1 DEF Here
        <5>3. SSOf(i) # HereSS
          <6>1. SSOf(i) \in Nat /\ HereSS \in Nat
            BY <2>1, <5>1, NameType DEF SSOf, HereSS, Here
          <6>2. (i < pos => SSOf(i) < HereSS) /\ (pos < i => HereSS < SSOf(i))
            BY <2>1, PlanAssumption DEF SSOf, HereSS, Here
          <6>3. i \in Nat /\ pos \in Nat
            BY <2>1, NameType
          <6> QED BY <5>2, <6>1, <6>2, <6>3
        <5> QED BY <4>2, <5>1, <5>3 DEF SSOf
      <4> QED BY <2>1, <3>1, <4>1, <4>3 DEF Served
    <3>4. \A p \in healthy' \ Removed[target'] : Served(p)' \/ Turn(p)'
      BY <3>1, <3>3 DEF Turn
    <3>5. OneNodeDown'
      BY <3>4 DEF OneNodeDown, Turn
    <3>6. \A p \in healthy : \A n \in Names : vol'[n] = p => n = Name[target'][p]
      BY <2>1, <3>1 DEF HealthyInv
    <3> QED BY <3>1, <3>4, <3>5, <3>6 DEF HealthyInv, Known, InPlan
  <2>4. CASE StatefulSetCreate
    <3>1. /\ pc = "create" /\ pc' = "wait" /\ UNCHANGED <<target, pos, healthy, ready>>
          /\ vol' = [vol EXCEPT ![HereSS] = Here] /\ vol[HereSS] = None
          /\ Here' = Here /\ HereSS = Name[target][Here]
      BY <2>4 DEF StatefulSetCreate, ClaimInv, Here, HereSS
    <3>2. \A p \in healthy : Served(p) => Served(p)'
      BY <2>1, <3>1 DEF Served
    <3>3. \A p \in healthy' \ Removed[target'] : Served(p)' \/ Turn(p)'
      BY <3>1, <3>2 DEF HealthyInv, Running, Turn
    <3>4. OneNodeDown'
      BY <3>3 DEF OneNodeDown, Turn
    <3>5. \A p \in healthy : \A n \in Names : vol'[n] = p => n = Name[target'][p]
      BY <2>1, <3>1 DEF HealthyInv
    <3> QED BY <3>1, <3>3, <3>4, <3>5 DEF HealthyInv, Known, InPlan
  <2>5. CASE WaitForPodsReady
    <3>1. Served(Here) /\ UNCHANGED <<vol, ready, target, healthy>> /\ pc = "wait"
      BY <2>1, <2>5 DEF WaitForPodsReady, Passed, Served
    <3> QED BY <3>1, HealthyFrame DEF Turn, Running
  <2>6. CASE RemoveNode
    <3>1. PICK q \in todo : DeleteStatefulsetAndPods(Name[target][q])
      BY <2>6 DEF RemoveNode
    <3>2. /\ pc = "remove" /\ pc' \in {"remove", "topology"} /\ q \in Removed[target]
          /\ UNCHANGED <<target, healthy>>
      BY <2>6 DEF RemoveNode, RemovedGone
    <3>3. /\ vol' = [vol EXCEPT ![Name[target][q]] = None]
          /\ ready' = ready \ {Name[target][q]}
      BY <3>1 DEF DeleteStatefulsetAndPods
    <3>4. ASSUME NEW p \in healthy \ Removed[target] PROVE Served(p)'
      <4>1. PICK n \in ready : vol[n] = p
        BY <3>2 DEF HealthyInv, Running, Turn, Served
      <4>2. n = Name[target][p] /\ InPlan(target, p)
        BY <2>1, <4>1 DEF HealthyInv, Known
      <4>3. n # Name[target][q]
        BY <2>1, <3>2, <4>2, PlanAssumption DEF InPlan
      <4> QED BY <2>1, <3>3, <4>1, <4>3 DEF Served
    <3>5. OneNodeDown'
      BY <3>2, <3>4 DEF OneNodeDown
    <3>6. \A p \in healthy : \A n \in Names : vol'[n] = p => n = Name[target'][p]
      BY <2>1, <3>2, <3>3 DEF HealthyInv
    <3> QED BY <3>2, <3>4, <3>5, <3>6 DEF HealthyInv, Known, InPlan
  <2>7. ASSUME NEW n \in Names, PodReady(n) PROVE HealthyInv'
    <3>1. UNCHANGED <<vol, target, healthy, pc, pos>> /\ ready \subseteq ready'
      BY <2>7 DEF PodReady
    <3>2. \A p : (Served(p) => Served(p)') /\ Turn(p)' = Turn(p)
      BY <3>1 DEF Served, Turn, Here
    <3>3. OneNodeDown'
      BY <3>1, <3>2 DEF HealthyInv, OneNodeDown
    <3> QED BY <3>1, <3>2, <3>3 DEF HealthyInv, Known, InPlan, Running
  <2>8. ASSUME NEW n \in Names, PodCrash(n) PROVE HealthyInv'
    <3>1. /\ UNCHANGED <<vol, target, pc, pos>> /\ ready' = ready \ {n}
          /\ healthy' = healthy \ {vol[n]}
      BY <2>8 DEF PodCrash
    <3>2. \A p \in healthy' : (Served(p) => Served(p)')
      BY <3>1 DEF Served
    <3>3. \A p : Turn(p)' = Turn(p)
      BY <3>1 DEF Turn, Here
    <3>4. OneNodeDown'
      BY <3>1, <3>2 DEF HealthyInv, OneNodeDown
    <3> QED BY <3>1, <3>2, <3>3, <3>4 DEF HealthyInv, Known, InPlan, Running
  <2>9. CASE \/ CreatePVC \/ CreateSuperUser \/ AlterSystemKeyspace \/ TopologyDone
             \/ DropCassandraDefaultUser \/ SaveApplied \/ PassFails
    <3>1. /\ UNCHANGED <<vol, ready, target, healthy>> /\ Running
          /\ pc \notin {"create", "wait"} \/ pc' = "idle"
      BY <2>9
      DEF CreatePVC, CreateSuperUser, AlterSystemKeyspace, TopologyDone,
          DropCassandraDefaultUser, SaveApplied, PassFails, Running
    <3> QED BY <3>1, HealthyFrame DEF Turn, Running
  <2>10. CASE UNCHANGED <<vol, ready, target, healthy, pc, pos>>
    <3>1. \A p : Turn(p)' = Turn(p)
      BY <2>10 DEF Turn, Here
    <3> QED BY <2>10, <3>1, HealthyFrame DEF Running
  <2>11. ASSUME NEW s \in Specs, UpdateSpec(s)
         PROVE  UNCHANGED <<vol, ready, target, healthy, pc, pos>>
    BY <2>11 DEF UpdateSpec
  <2>12. UNCHANGED vars => UNCHANGED <<vol, ready, target, healthy, pc, pos>>
    BY DEF vars
  <2> QED
    BY <2>2, <2>3, <2>4, <2>5, <2>6, <2>7, <2>8, <2>9, <2>10, <2>11, <2>12
    DEF Next, Operator
<1>3. HealthyInv => OneNodeDown
  BY DEF HealthyInv
<1> QED
  BY <1>1, <1>2, <1>3, VolumeInvariant, ClaimInvariant, KnownInvariant, RemovedInvariant,
     PTL DEF Spec
=============================================================================
