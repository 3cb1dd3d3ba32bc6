--------------------------- MODULE CassandraDeploy ---------------------------
(***************************************************************************)
(* One reconciliation of the Cassandra operator after another: the ordered *)
(* steps of the "cassandra" compound (operator/pkg/impl/cassandra) acting  *)
(* on persistent volume claims, stateful sets, database roles and system   *)
(* keyspaces, with a failure, a timeout or an operator restart possible    *)
(* between any two of them, and the administrator editing the custom       *)
(* resource at any time.                                                   *)
(*                                                                         *)
(* A node of the ring is identified by its claim (data centre, replica).   *)
(* What the deployment schema says about it - the index of its stateful    *)
(* set, whether it is rolled out or removed - is given by the constants    *)
(* Name, Plan and Removed, which module Topology computes from a schema.   *)
(***************************************************************************)
EXTENDS Naturals, Sequences, FiniteSets

CONSTANTS
  Specs,        \* the versions of the custom resource an administrator writes
  InitialSpec,  \* the one the operator starts with
  PVCs,         \* the nodes, each named by its claim
  Names,        \* indices of stateful sets: n stands for "cassandra<n>"
  Name,         \* Name[s][p]: the index spec s gives the stateful set of p
  Plan,         \* Plan[s]: the active nodes of s in the order they are rolled
  Removed,      \* Removed[s]: the nodes listed under removeNodes in s
  User,         \* the configured super user ("cassandra" keeps the default)
  None,         \* nothing there
  MaxFailures,  \* bound on failed passes
  MaxCrashes,   \* bound on pods that stop being ready by themselves
  MaxEdits      \* bound on edits of the custom resource

DefaultUser == "cassandra"
SystemKeyspaces == <<"system_traces", "system_distributed", "system_auth">>
Passwords == {"default", "secret", "none"}   \* "none": the role does not exist
Roles == {DefaultUser, User}
InPlan(s, p) == \E i \in 1..Len(Plan[s]) : Plan[s][i] = p
Known(s, p) == InPlan(s, p) \/ p \in Removed[s]

ASSUME SpecsAssumption ==
  /\ InitialSpec \in Specs
  /\ None \notin Specs \cup PVCs \cup Names
  /\ Names \subseteq Nat
  /\ Name \in [Specs -> [PVCs -> Names]]
  /\ Plan \in [Specs -> Seq(PVCs)]
  /\ Removed \in [Specs -> SUBSET PVCs]
  /\ {MaxFailures, MaxCrashes, MaxEdits} \subseteq Nat

(***************************************************************************)
(* What Topology guarantees of every schema that passes InitialValidations *)
(* and removes only nodes it has (invariants of module SchemaEdits): nodes *)
(* are rolled in the order of the indices of their stateful sets, the      *)
(* stateful set of a removed node is not that of an active one, and active *)
(* and removed nodes together are numbered without a gap.                  *)
(***************************************************************************)
ASSUME PlanAssumption ==
  \A s \in Specs :
    /\ Len(Plan[s]) > 0
    /\ \A i, j \in 1..Len(Plan[s]) :
         i < j => Name[s][Plan[s][i]] < Name[s][Plan[s][j]]
    /\ \A p \in Removed[s], i \in 1..Len(Plan[s]) :
         Name[s][p] # Name[s][Plan[s][i]]
    /\ \A p \in PVCs, n \in Names :
         Known(s, p) /\ n < Name[s][p] =>
           \E q \in PVCs : Known(s, q) /\ Name[s][q] = n

VARIABLES
  spec,        \* the custom resource as last written
  applied,     \* the spec recorded as last applied, None before the first success
  pvcs,        \* claims that exist
  vol,         \* vol[n]: the claim mounted by stateful set n, None when n is absent
  tmpl,        \* tmpl[n]: the spec its pod template was rendered from
  ready,       \* stateful sets whose pod is ready
  roles,       \* the password of each database role
  sysKs,       \* how many of SystemKeyspaces have NetworkTopologyStrategy
  pc,          \* the step of the running pass, "idle" between passes
  target,      \* the spec the running pass works on
  deployType,  \* "Clean" or "Update" for the running pass
  pos,         \* position in Plan[target] of the step that iterates over nodes
  todo,        \* nodes the RemoveNodes step has not handled yet
  fails, crashes, edits,  \* what has been used of the bounds
  healthy,     \* history: nodes that were ready under the index the pass gives
               \* them when it began, and have not crashed since
  aborted,     \* history: a clean pass failed after it created a claim
  dirty        \* history: a pass began and none has succeeded since

k8sVars == <<pvcs, vol, tmpl, ready>>
dbVars  == <<roles, sysKs>>
crVars  == <<spec, applied>>
bounds  == <<fails, crashes, edits>>
passVars == <<target, deployType>>
history == <<healthy, aborted, dirty>>
vars == <<k8sVars, dbVars, crVars, bounds, passVars, history, pc, pos, todo>>

Steps == {"idle", "pvc", "delete", "create", "wait", "superuser", "remove",
          "topology", "dropDefault", "save"}

Running == pc # "idle"
Here == Plan[target][pos]                \* the node the rolling step is at
HereSS == Name[target][Here]
Served(p) == \E n \in ready : vol[n] = p
Exact(s) == \A n \in Names : vol[n] # None => Name[s][vol[n]] = n

(***************************************************************************)
(* The spec has no gap below its highest stateful set: every index under a *)
(* planned one is planned too. Removing a node makes a gap.                *)
(***************************************************************************)
Contiguous(s) ==
  \A i \in 1..Len(Plan[s]) : \A n \in Names :
    n < Name[s][Plan[s][i]] =>
      \E j \in 1..Len(Plan[s]) : Name[s][Plan[s][j]] = n

TypeOK ==
  /\ spec \in Specs
  /\ applied \in Specs \cup {None}
  /\ pvcs \subseteq PVCs
  /\ vol \in [Names -> PVCs \cup {None}]
  /\ tmpl \in [Names -> Specs \cup {None}]
  /\ ready \subseteq Names
  /\ roles \in [Roles -> Passwords]
  /\ sysKs \in 0..Len(SystemKeyspaces)
  /\ pc \in Steps
  /\ target \in Specs
  /\ deployType \in {"Clean", "Update"}
  /\ pos \in 1..Len(Plan[target])
  /\ todo \subseteq PVCs
  /\ fails \in Nat /\ crashes \in Nat /\ edits \in Nat
  /\ healthy \subseteq PVCs
  /\ aborted \in BOOLEAN /\ dirty \in BOOLEAN

Init ==
  /\ spec = InitialSpec
  /\ applied = None
  /\ pvcs = {}
  /\ vol = [n \in Names |-> None]
  /\ tmpl = [n \in Names |-> None]
  /\ ready = {}
  /\ roles = [r \in Roles |-> IF r = DefaultUser THEN "default" ELSE "none"]
  /\ sysKs = 0
  /\ pc = "idle"
  /\ target = InitialSpec
  /\ deployType = "Update"
  /\ pos = 1
  /\ todo = {}
  /\ fails = 0 /\ crashes = 0 /\ edits = 0
  /\ healthy = {}
  /\ aborted = FALSE /\ dirty = FALSE
-----------------------------------------------------------------------------
(* The operator's steps, in the order CassandraBuilder.Build adds them.    *)

\* Mutant: the test for existing claims is inverted.
CalcDeployTypeInverted == IF pvcs # {} THEN "Clean" ELSE "Update"

(***************************************************************************)
(* A pass runs the compound only when the spec differs from the recorded   *)
(* one, and decides the deploy type from the claims it finds.              *)
(***************************************************************************)
CalcDeployType == IF pvcs = {} THEN "Clean" ELSE "Update"

StartReconcile ==
  /\ pc = "idle"
  /\ spec # applied
  /\ target' = spec
  /\ deployType' = CalcDeployType
  /\ pc' = "pvc"
  /\ pos' = 1
  /\ healthy' = {p \in PVCs : vol[Name[spec][p]] = p /\ Name[spec][p] \in ready}
  /\ dirty' = TRUE
  /\ UNCHANGED <<crVars, k8sVars, dbVars, bounds, todo, aborted>>

\* Mutant: the loop runs once too often.
AdvanceToPastEnd(again, next) ==
  IF pos <= Len(Plan[target])
    THEN pc' = again /\ pos' = pos + 1
    ELSE pc' = next /\ pos' = 1

\* Move to the next node of the plan, or to step "next" after the last one.
AdvanceTo(again, next) ==
  IF pos < Len(Plan[target])
    THEN pc' = again /\ pos' = pos + 1
    ELSE pc' = next /\ pos' = 1

CreatePVC ==
  /\ pc = "pvc"
  /\ pvcs' = pvcs \cup {Here}
  /\ AdvanceTo("pvc", "delete")
  /\ UNCHANGED <<vol, tmpl, ready, dbVars, crVars, bounds, passVars, history, todo>>

(***************************************************************************)
(* CassandraStatefulSetStep: for every active replica, delete its stateful *)
(* set and pods, create it again, wait until its pod is ready.             *)
(***************************************************************************)
DeleteStatefulsetAndPods(n) ==
  /\ vol' = [vol EXCEPT ![n] = None]
  /\ tmpl' = [tmpl EXCEPT ![n] = None]
  /\ ready' = ready \ {n}

\* Mutant: only the pods are deleted, the stateful set is updated in place.
StatefulSetDeletePods ==
  /\ pc = "delete"
  /\ ready' = ready \ {HereSS}
  /\ pc' = "create"
  /\ UNCHANGED <<pvcs, vol, tmpl, dbVars, crVars, bounds, passVars, history, pos, todo>>

StatefulSetDelete ==
  /\ pc = "delete"
  /\ DeleteStatefulsetAndPods(HereSS)
  /\ pc' = "create"
  /\ UNCHANGED <<pvcs, dbVars, crVars, bounds, passVars, history, pos, todo>>

\* Mutant: every replica mounts the first claim of the list.
StatefulSetCreateFirstClaim ==
  /\ pc = "create"
  /\ vol' = [vol EXCEPT ![HereSS] = Plan[target][1]]
  /\ tmpl' = [tmpl EXCEPT ![HereSS] = target]
  /\ pc' = "wait"
  /\ UNCHANGED <<pvcs, ready, dbVars, crVars, bounds, passVars, history, pos, todo>>

StatefulSetCreate ==
  /\ pc = "create"
  /\ vol' = [vol EXCEPT ![HereSS] = Here]
  /\ tmpl' = [tmpl EXCEPT ![HereSS] = target]
  /\ pc' = "wait"
  /\ UNCHANGED <<pvcs, ready, dbVars, crVars, bounds, passVars, history, pos, todo>>

\* Mutant: the next replica is rolled without waiting.
WaitForPodsReadyNot ==
  /\ pc = "wait"
  /\ AdvanceTo("delete", "superuser")
  /\ UNCHANGED <<k8sVars, dbVars, crVars, bounds, passVars, history, todo>>

WaitForPodsReady ==
  /\ pc = "wait"
  /\ HereSS \in ready
  /\ AdvanceTo("delete", "superuser")
  /\ UNCHANGED <<k8sVars, dbVars, crVars, bounds, passVars, history, todo>>

(***************************************************************************)
(* CreateSuperUser: skipped when the configured user can log in with the   *)
(* password of the secret; otherwise log in with the default credentials   *)
(* and create the role, or change the default role's password when it is   *)
(* the configured user. A login may also fail for want of a connection, so *)
(* the second branch is open to a user that could have logged in.          *)
(***************************************************************************)
CheckLogin == roles[User] = "secret"

\* Mutant: the branches are swapped.
CreateUserSwapped ==
  /\ roles[DefaultUser] = "default"
  /\ roles' = IF User = DefaultUser
                THEN [roles EXCEPT ![User] = IF @ = "none" THEN "secret" ELSE @]
                ELSE [roles EXCEPT ![DefaultUser] = "secret"]

CreateUser ==
  /\ roles[DefaultUser] = "default"
  /\ roles' = IF User # DefaultUser
                THEN [roles EXCEPT ![User] = IF @ = "none" THEN "secret" ELSE @]
                ELSE [roles EXCEPT ![DefaultUser] = "secret"]

\* Mutant: the check whether the user can log in already is missing.
CreateSuperUserAlways ==
  /\ pc = "superuser"
  /\ CreateUser
  /\ IF deployType # "Clean" /\ Removed[target] # {}
       THEN pc' = "remove" /\ todo' = Removed[target]
       ELSE pc' = "topology" /\ todo' = {}
  /\ UNCHANGED <<sysKs, k8sVars, crVars, bounds, passVars, history, pos>>

CreateSuperUser ==
  /\ pc = "superuser"
  /\ \/ CheckLogin /\ UNCHANGED roles
     \/ CreateUser
  /\ IF deployType # "Clean" /\ Removed[target] # {}
       THEN pc' = "remove" /\ todo' = Removed[target]
       ELSE pc' = "topology" /\ todo' = {}
  /\ UNCHANGED <<sysKs, k8sVars, crVars, bounds, passVars, history, pos>>

(***************************************************************************)
(* RemoveNodes: the listed nodes in the order the map iteration yields     *)
(* them. A failing "nodetool removenode" is only logged.                   *)
(***************************************************************************)
RemoveNode ==
  /\ pc = "remove"
  /\ \E p \in todo :
       /\ DeleteStatefulsetAndPods(Name[target][p])
       /\ todo' = todo \ {p}
  /\ pc' = IF todo' = {} THEN "topology" ELSE "remove"
  /\ UNCHANGED <<pvcs, dbVars, crVars, bounds, passVars, history, pos>>

(***************************************************************************)
(* UpdateSystemKeyspacesTopology, on a clean deploy only: one ALTER        *)
(* KEYSPACE after another, in the order of SystemKeyspaces.                *)
(***************************************************************************)
AlterSystemKeyspace ==
  /\ pc = "topology"
  /\ deployType = "Clean"
  /\ sysKs < Len(SystemKeyspaces)
  /\ CheckLogin
  /\ sysKs' = sysKs + 1
  /\ UNCHANGED <<roles, k8sVars, crVars, bounds, passVars, history, pc, pos, todo>>

TopologyDone ==
  /\ pc = "topology"
  /\ deployType # "Clean" \/ sysKs = Len(SystemKeyspaces)
  /\ pc' = "dropDefault"
  /\ UNCHANGED <<k8sVars, dbVars, crVars, bounds, passVars, history, pos, todo>>

\* Mutant: the default user is dropped although it is the configured one.
DropCassandraDefaultUserAlways ==
  /\ pc = "dropDefault"
  /\ IF deployType = "Clean"
       THEN CheckLogin /\ roles' = [roles EXCEPT ![DefaultUser] = "none"]
       ELSE UNCHANGED roles
  /\ pc' = "save"
  /\ UNCHANGED <<sysKs, k8sVars, crVars, bounds, passVars, history, pos, todo>>

DropCassandraDefaultUser ==
  /\ pc = "dropDefault"
  /\ IF deployType = "Clean" /\ User # DefaultUser
       THEN CheckLogin /\ roles' = [roles EXCEPT ![DefaultUser] = "none"]
       ELSE UNCHANGED roles
  /\ pc' = "save"
  /\ UNCHANGED <<sysKs, k8sVars, crVars, bounds, passVars, history, pos, todo>>

\* Mutant: the spec as it is now is recorded, not the one that was applied.
SaveAppliedLatest ==
  /\ pc = "save"
  /\ applied' = spec
  /\ dirty' = FALSE
  /\ pc' = "idle"
  /\ UNCHANGED <<spec, k8sVars, dbVars, bounds, passVars, healthy, aborted, pos, todo>>

\* The operator core records the spec the pass worked on as last applied.
SaveApplied ==
  /\ pc = "save"
  /\ applied' = target
  /\ dirty' = FALSE
  /\ pc' = "idle"
  /\ UNCHANGED <<spec, k8sVars, dbVars, bounds, passVars, healthy, aborted, pos, todo>>

(***************************************************************************)
(* A panic, a time-out or the death of the operator process: what the pass *)
(* has done stays, its context is lost, and the next reconcile starts over.*)
(***************************************************************************)
PassFails ==
  /\ Running
  /\ fails < MaxFailures
  /\ fails' = fails + 1
  /\ pc' = "idle"
  /\ pos' = 1
  /\ todo' = {}
  /\ aborted' = (aborted \/ (deployType = "Clean" /\ pvcs # {}))
  /\ UNCHANGED <<k8sVars, dbVars, crVars, crashes, edits, passVars, healthy, dirty>>
-----------------------------------------------------------------------------
(* The environment.                                                        *)

PodReady(n) ==
  /\ vol[n] # None
  /\ n \notin ready
  /\ ready' = ready \cup {n}
  /\ UNCHANGED <<pvcs, vol, tmpl, dbVars, crVars, bounds, passVars, history, pc, pos, todo>>

PodCrash(n) ==
  /\ n \in ready
  /\ crashes < MaxCrashes
  /\ crashes' = crashes + 1
  /\ ready' = ready \ {n}
  /\ healthy' = healthy \ {vol[n]}
  /\ UNCHANGED <<pvcs, vol, tmpl, dbVars, crVars, fails, edits, passVars, aborted,
                 dirty, pc, pos, todo>>

(***************************************************************************)
(* The administrator writes another spec, at any time, also under a pass.  *)
(* Three things are assumed: an edit never lowers the index of a stateful  *)
(* set; it never forgets a node (replicas are taken out with removeNodes   *)
(* and stay listed there, never by lowering "replicas"); and a spec with a *)
(* gap is only written while every stateful set already has the index that *)
(* spec gives it. The code checks none of them.                            *)
(***************************************************************************)
EditAllowed(s) ==
  /\ \A p \in PVCs : Name[spec][p] <= Name[s][p]
  /\ \A p \in PVCs : Known(spec, p) => Known(s, p)
  /\ Contiguous(s) \/ (Exact(s) /\ (Running => Name[target] = Name[s]))

UpdateSpec(s) ==
  /\ edits < MaxEdits
  /\ s # spec
  /\ EditAllowed(s)
  /\ spec' = s
  /\ edits' = edits + 1
  /\ UNCHANGED <<applied, k8sVars, dbVars, fails, crashes, passVars, history, pc,
                 pos, todo>>

Operator ==
  \/ StartReconcile \/ CreatePVC
  \/ StatefulSetDelete \/ StatefulSetCreate \/ WaitForPodsReady
  \/ CreateSuperUser \/ RemoveNode
  \/ AlterSystemKeyspace \/ TopologyDone
  \/ DropCassandraDefaultUser \/ SaveApplied

Next ==
  \/ Operator
  \/ PassFails
  \/ \E n \in Names : PodReady(n) \/ PodCrash(n)
  \/ \E s \in Specs : UpdateSpec(s)

Spec == Init /\ [][Next]_vars

(***************************************************************************)
(* controller-runtime keeps calling Reconcile while it returns errors, and *)
(* the kubelet keeps starting the pod of a stateful set. Failures, crashes *)
(* and edits get no fairness.                                              *)
(***************************************************************************)
FairSpec ==
  /\ Spec
  /\ WF_vars(Operator)
  /\ \A n \in Names : WF_vars(PodReady(n))
-----------------------------------------------------------------------------
(***************************************************************************)
(* No two stateful sets mount the same claim. Two Cassandra processes on   *)
(* one data directory corrupt it. It is at stake whenever an edit changes  *)
(* the indices of later data centres: the rollout then recreates nodes     *)
(* under other names while their old stateful sets may still run, and a    *)
(* failed pass leaves the two numberings mixed.                            *)
(***************************************************************************)
NoSharedVolume ==
  \A m, n \in Names : vol[m] # None /\ vol[m] = vol[n] => m = n

(***************************************************************************)
(* A pass takes down at most one at a time of the nodes that were ready    *)
(* when it began, keep their index and are not to be removed. A retry      *)
(* after a failed pass starts again at the first replica while the node    *)
(* that failed is still down: that node is not counted in "healthy".       *)
(***************************************************************************)
OneNodeDown ==
  \A p, q \in healthy \ Removed[target] : ~Served(p) /\ ~Served(q) => p = q

(***************************************************************************)
(* Somebody can always log in: the configured user with the password of    *)
(* the secret, or the default user with its well-known one. Otherwise      *)
(* CreateSuperUser fails for ever and no pass can succeed again.           *)
(***************************************************************************)
OperatorCanLogIn ==
  roles[User] = "secret" \/ roles[DefaultUser] = "default"

(***************************************************************************)
(* Between passes, once a spec is recorded as applied and nobody touched   *)
(* the cluster since, the stateful sets are exactly those the spec asks    *)
(* for, each with its own claim and the spec's pod template - however many *)
(* passes failed half way, on this spec or on another one, before.         *)
(***************************************************************************)
Converged ==
  pc = "idle" /\ applied = spec /\ ~dirty =>
    \A n \in Names :
      IF \E p \in PVCs : InPlan(spec, p) /\ Name[spec][p] = n
        THEN /\ tmpl[n] = spec
             /\ InPlan(spec, vol[n]) /\ Name[spec][vol[n]] = n
        ELSE vol[n] = None

(***************************************************************************)
(* After the first success the system keyspaces have the data-centre aware *)
(* replication and the default super user is gone - provided the very      *)
(* first pass did not fail after it created a claim. If it did, the retry  *)
(* counts as an update and skips UpdateSystemKeyspacesTopology and         *)
(* DropCassandraDefaultUser for good.                                      *)
(***************************************************************************)
Bootstrapped ==
  applied # None /\ ~aborted =>
    /\ sysKs = Len(SystemKeyspaces)
    /\ User # DefaultUser => roles[DefaultUser] = "none"

(***************************************************************************)
(* Failures, crashes and edits being finitely many, the operator ends up   *)
(* with the spec applied: no combination of half-done passes and database  *)
(* roles makes a later pass wait or fail for ever.                         *)
(***************************************************************************)
EventuallyApplied == <>[](pc = "idle" /\ applied = spec)

\* Of the cluster's state only the claims and who mounts them is observed.
Volumes == INSTANCE VolumeAttachment WITH claims <- pvcs, mounted <- vol

(***************************************************************************)
(* The rollout implements VolumeAttachment: through renumbering, failed    *)
(* passes and their repetitions a claim changes hands only by a deletion   *)
(* of the stateful set that has it followed by the creation of another     *)
(* one, and no stateful set is created for a claim that is not there. It   *)
(* is stronger than NoSharedVolume, which a direct take-over would pass.   *)
(***************************************************************************)
VolumesHandedOver == Volumes!Spec
=============================================================================
