-------------------------- MODULE ServicesOperator --------------------------
(***************************************************************************)
(* The operator of the supplementary services (services/service): it waits *)
(* for the Cassandra operator, then deploys the backup daemon, the DBaaS   *)
(* adapter and the robot tests, one step after another. The backup daemon  *)
(* reaches the Cassandra pods by ssh with a key pair that is kept in the   *)
(* database, copied to a secret and written into every pod.                *)
(*                                                                         *)
(* A pass is a program, the sequence of the steps still to be executed.    *)
(* It may fail before any of them; what it has done stays, and the next    *)
(* pass starts from the specification as it is then. The Cassandra         *)
(* operator rolls out its own resource meanwhile.                          *)
(*                                                                         *)
(* Pods of Cassandra are numbered from 0, key pairs from 1: the public and *)
(* the private key of one pair have the same number.                       *)
(***************************************************************************)
EXTENDS Naturals, SequencesExt

CONSTANTS
  Specs,        \* the versions of the custom resource an administrator writes
  InitialSpec,  \* the one the operator starts with
  MaxNodes,     \* bound on the pods of Cassandra
  MaxKeys,      \* bound on the key pairs generated
  Tries,        \* how often the keys are written to a pod before giving up
  MaxFailures,  \* bound on failures, of either operator
  MaxEdits,     \* bound on edits of either custom resource
  None          \* nothing there

Components == <<"backup", "dbaas", "robot">>
Names == {Components[i] : i \in 1..Len(Components)}
Nodes == 0..MaxNodes - 1
Keys == 1..MaxKeys

(***************************************************************************)
(* The custom resource, with the parameters the steps branch on: the       *)
(* common ones (schema as the replicas of each data centre, TLS, Amazon    *)
(* Keyspaces instead of Cassandra) and those of each component. "rev"      *)
(* stands for every other parameter of a component.                        *)
(***************************************************************************)
CassandraServiceSpec ==
  [common : [dcs : Seq(Nat), tls : BOOLEAN, aws : BOOLEAN],
   backup : [install : BOOLEAN, emptyDir : BOOLEAN, rev : Nat],
   dbaas  : [install : BOOLEAN, https : BOOLEAN, rev : Nat],
   robot  : [install : BOOLEAN]]

Replicas(s) == FoldSeq(LAMBDA r, n : r + n, 0, s.common.dcs)

\* Rendered deployments: what they listen on, mount and are told.
Ports == {8080, 8443}
Secrets == {"cassandra", "backup", "ssh-keys", "aws", "adapter", "aggregator", "streaming",
            "root-ca", "backup-cert", "dbaas-cert"}
Deployments == [port : Ports, secrets : SUBSET Secrets, claim : BOOLEAN,
                hosts : SUBSET Nat, backup : Ports \cup {None}]

ASSUME ServicesAssumption ==
  /\ InitialSpec \in Specs
  /\ \A s \in Specs : s \in CassandraServiceSpec /\ Replicas(s) \in 1..MaxNodes
  /\ {MaxNodes, MaxKeys, Tries, MaxFailures, MaxEdits} \subseteq Nat
  /\ Tries > 0
  /\ None \notin Nat \cup Specs \cup Deployments

VARIABLES
  cr,          \* the custom resource as last written
  recorded,    \* the one recorded as last applied
  phase,       \* "idle", "poll" (waiting for Cassandra) or "run"
  target,      \* the custom resource of the running pass
  program,     \* the steps it has not executed yet, as <<component, step>>
  keys,        \* the key pair the ssh step works with
  listed,      \* the pods the ssh step has still to write to
  tried,       \* failed attempts on the first of them
  services, deployments, ready,   \* Kubernetes objects, by component
  claim,       \* whether the volume of the backup daemon exists
  rows,        \* table ssh.backup: the key under each id
  replication, \* of keyspace ssh: the schema it was written with
  sshSecret,   \* secret "ssh-keys"
  auth,        \* the authorized key on the volume of each pod
  generated,   \* how many key pairs have been generated
  cassandra,   \* the other operator: pods wanted, pods there, reported status
  fails, edits,
  misread,     \* history: stored keys could not be read and were replaced
  unseen,      \* history: the last pass over the backup daemon was misled by
               \* an outdated status, or could not list the pods
  ran,         \* history: components the running pass works on
  dirty        \* history: components a failed pass may have left half done

passVars == <<target, program, keys, listed, tried>>
k8sVars == <<services, deployments, ready, claim, sshSecret, auth>>
dbVars == <<rows, replication, generated>>
history == <<misread, unseen, ran, dirty>>
vars == <<cr, recorded, phase, passVars, k8sVars, dbVars, cassandra, fails,
          edits, history>>

StepNames ==
  {"createPVC", "deleteService", "createService", "selectKeys", "alterKeyspace",
   "createKeyspace", "insertPublic", "insertPrivate", "createSecret", "listPods",
   "writeKeys", "deleteDeployment", "createDeployment", "waitReady"}

Pair == [public : Keys \cup {None}, private : Keys \cup {None}]
NoPair == [public |-> None, private |-> None]

TypeOK ==
  /\ cr \in Specs /\ target \in Specs
  /\ recorded \in Specs \cup {None}
  /\ phase \in {"idle", "poll", "run"}
  /\ program \in Seq(Names \X StepNames)
  /\ keys \in Pair /\ rows \in Pair /\ sshSecret \in Pair
  /\ listed \subseteq Nodes
  /\ tried \in 0..Tries - 1
  /\ services \in [Names -> Ports \cup {None}]
  /\ deployments \in [Names -> Deployments \cup {None}]
  /\ ready \subseteq {c \in Names : deployments[c] # None}
  /\ claim \in BOOLEAN
  /\ auth \in [Nodes -> Keys \cup {None}]
  /\ generated \in 0..MaxKeys
  /\ cassandra \in [want : 1..MaxNodes, pods : 0..MaxNodes,
                     status : {"none", "inProgress", "failed", "successful"}]
  /\ cassandra.pods <= cassandra.want
  /\ fails \in 0..MaxFailures /\ edits \in 0..MaxEdits
  /\ misread \in BOOLEAN /\ unseen \in BOOLEAN
  /\ ran \subseteq Names /\ dirty \subseteq Names

Init ==
  /\ cr = InitialSpec /\ target = InitialSpec /\ recorded = None
  /\ phase = "idle" /\ program = <<>>
  /\ keys = NoPair /\ rows = NoPair /\ sshSecret = NoPair
  /\ listed = {} /\ tried = 0
  /\ services = [c \in Names |-> None]
  /\ deployments = [c \in Names |-> None]
  /\ ready = {} /\ claim = FALSE /\ replication = None
  /\ auth = [n \in Nodes |-> None]
  /\ generated = 0
  /\ cassandra = [want |-> Replicas(InitialSpec), pods |-> 0, status |-> "none"]
  /\ fails = 0 /\ edits = 0
  /\ misread = FALSE /\ unseen = FALSE /\ ran = {} /\ dirty = {}
-----------------------------------------------------------------------------
(* What the templates are rendered to.                                     *)

GetHTTPPort(tls) == IF tls THEN 8443 ELSE 8080
IsTLSEnableForDBAAS(s) == s.dbaas.https /\ s.common.tls
TLSOf(c, s) == IF c = "dbaas" THEN IsTLSEnableForDBAAS(s) ELSE s.common.tls

\* The certificates a pod mounts as a client and as a server.
TLSClientSpecUpdate(tls) == IF tls THEN {"root-ca"} ELSE {}
TLSServerSpecUpdate(tls, cert) == IF tls THEN {cert} ELSE {}
Cert == [backup |-> "backup-cert", dbaas |-> "dbaas-cert"]

\* The secrets mounted for credentials and keys.
BackupSecrets(s) ==
  {"cassandra", "backup", "ssh-keys"} \cup (IF s.common.aws THEN {"aws"} ELSE {})

DbaasSecrets(s) ==
  {"cassandra", "adapter", "aggregator", "streaming"}
    \cup (IF s.backup.install THEN {"backup"} ELSE {})

RobotSecrets(s) ==
  {"cassandra"} \cup (IF s.backup.install THEN {"backup"} ELSE {})
                \cup (IF s.dbaas.install THEN {"adapter"} ELSE {})

\* CASSANDRA_HOSTS: the index starts again at 0 in every data centre.
BackupHosts(s) ==
  IF s.common.aws THEN {}
    ELSE UNION {0..s.common.dcs[d] - 1 : d \in 1..Len(s.common.dcs)}

\* Mutant: the port of the daemon ignores TLS.
BackupAddressPlain(s) == IF s.backup.install THEN GetHTTPPort(FALSE) ELSE None

\* BACKUP_DAEMON_ADDRESS of the adapter, absent when no daemon is installed.
BackupAddress(s) == IF s.backup.install THEN GetHTTPPort(s.common.tls) ELSE None

LegacyBackupDeploymentTemplate(s) ==
  [port |-> GetHTTPPort(s.common.tls),
   secrets |-> BackupSecrets(s) \cup TLSClientSpecUpdate(s.common.tls)
                 \cup TLSServerSpecUpdate(s.common.tls, Cert.backup),
   claim |-> ~s.backup.emptyDir, hosts |-> BackupHosts(s), backup |-> None]

DbaasDeploymentTemplate(s) ==
  [port |-> GetHTTPPort(IsTLSEnableForDBAAS(s)),
   secrets |-> DbaasSecrets(s) \cup TLSClientSpecUpdate(s.common.tls)
                 \cup TLSServerSpecUpdate(IsTLSEnableForDBAAS(s), Cert.dbaas),
   claim |-> FALSE, hosts |-> {}, backup |-> BackupAddress(s)]

RobotTemplate(s) ==
  [port |-> GetHTTPPort(s.common.tls),
   secrets |-> RobotSecrets(s) \cup TLSClientSpecUpdate(s.common.tls),
   claim |-> FALSE, hosts |-> {}, backup |-> None]

Template(c, s) ==
  CASE c = "backup" -> LegacyBackupDeploymentTemplate(s)
    [] c = "dbaas"  -> DbaasDeploymentTemplate(s)
    [] c = "robot"  -> RobotTemplate(s)
-----------------------------------------------------------------------------
(* Building the program of a pass.                                         *)

DeploymentSteps == <<"deleteDeployment", "createDeployment", "waitReady">>
ServiceSteps == <<"deleteService", "createService">>

\* Mutant: the key pair is set up after the daemon was deployed.
BackupBuilderKeysLast(s) ==
  (IF s.backup.emptyDir THEN <<>> ELSE <<"createPVC">>)
    \o ServiceSteps
    \o DeploymentSteps
    \o (IF s.common.aws THEN <<>> ELSE <<"selectKeys">>)

BackupBuilder(s) ==
  (IF s.backup.emptyDir THEN <<>> ELSE <<"createPVC">>)
    \o ServiceSteps
    \o (IF s.common.aws THEN <<>> ELSE <<"selectKeys">>)
    \o DeploymentSteps

DbaasBuilder(s) == ServiceSteps \o DeploymentSteps
RobotBuilder(s) == DeploymentSteps

Build(c, s) ==
  CASE c = "backup" -> BackupBuilder(s)
    [] c = "dbaas"  -> DbaasBuilder(s)
    [] c = "robot"  -> RobotBuilder(s)

(***************************************************************************)
(* A component is worked on when its own part of the specification or a    *)
(* common parameter differs from the recorded one; the robot tests have no *)
(* condition of their own.                                                 *)
(***************************************************************************)
CommonChanged(s) == recorded = None \/ recorded.common # s.common
Condition(c, s) == c = "robot" \/ CommonChanged(s) \/ recorded[c] # s[c]
Selected(s) == {c \in Names : s[c].install /\ Condition(c, s)}

Part(c, s) ==
  IF c \in Selected(s) THEN [i \in 1..Len(Build(c, s)) |-> <<c, Build(c, s)[i]>>] ELSE <<>>

CassandraServiceBuilder(s) ==
  Part(Components[1], s) \o Part(Components[2], s) \o Part(Components[3], s)

Reconcile ==
  /\ phase = "idle"
  /\ cr # recorded
  /\ phase' = "poll"
  /\ UNCHANGED <<cr, recorded, passVars, k8sVars, dbVars, cassandra, fails, edits, history>>

\* Mutant: a Cassandra that is still being rolled out is good enough.
CassandraReadyAnyStatus == cassandra.status \in {"successful", "inProgress"}

CassandraReady == cassandra.status = "successful"

\* The status of the other custom resource is "successful": the pass begins.
CassandraOperatorReady ==
  /\ phase = "poll"
  /\ CassandraReady
  /\ phase' = "run"
  /\ target' = cr
  /\ program' = CassandraServiceBuilder(cr)
  /\ keys' = NoPair /\ listed' = {} /\ tried' = 0
  /\ ran' = Selected(cr)
  /\ unseen' = IF "backup" \in ran'
                 THEN cassandra.status = "successful" /\ cassandra.pods # Replicas(cr)
                 ELSE unseen
  /\ UNCHANGED <<cr, recorded, k8sVars, dbVars, cassandra, fails, edits, misread, dirty>>

\* No status yet, "failed", or the poll timed out: requeue after 15 seconds.
CassandraOperatorNotReady ==
  /\ phase = "poll"
  /\ ~CassandraReady
  /\ phase' = "idle"
  /\ UNCHANGED <<cr, recorded, passVars, k8sVars, dbVars, cassandra, fails, edits, history>>
-----------------------------------------------------------------------------
(* The steps.                                                              *)

At(step) == phase = "run" /\ program # <<>> /\ Head(program)[2] = step
Here == Head(program)[1]
Next1 == program' = Tail(program)
\* Continue with other steps of the same component.
Then(steps) == program' = [i \in 1..Len(steps) |-> <<Here, steps[i]>>] \o Tail(program)
passRest == <<cr, recorded, phase, target, cassandra, fails, edits, unseen, ran, dirty>>

CreatePVC ==
  /\ At("createPVC")
  /\ claim' = TRUE
  /\ Next1
  /\ UNCHANGED <<passRest, keys, listed, tried, services, deployments, ready,
                 sshSecret, auth, dbVars, misread>>

DeleteService ==
  /\ At("deleteService")
  /\ services' = [services EXCEPT ![Here] = None]
  /\ Next1
  /\ UNCHANGED <<passRest, keys, listed, tried, deployments, ready, claim,
                 sshSecret, auth, dbVars, misread>>

CreateService ==
  /\ At("createService")
  /\ services' = [services EXCEPT ![Here] = GetHTTPPort(TLSOf(Here, target))]
  /\ Next1
  /\ UNCHANGED <<passRest, keys, listed, tried, deployments, ready, claim,
                 sshSecret, auth, dbVars, misread>>

\* Mutant: the keys are looked for in the secret.
NoKeysFoundInSecret == sshSecret = NoPair

NoKeysFound == rows.public = None \/ rows.private = None

\* Mutant: the keyspace is left as it is when its keys are found.
SelectKeysOnly ==
  /\ At("selectKeys")
  /\ ~NoKeysFound
  /\ keys' = rows
  /\ Then(<<"createSecret", "listPods">>)
  /\ UNCHANGED <<passRest, listed, tried, k8sVars, dbVars, misread>>

(***************************************************************************)
(* BackupSSHKeyStep begins by reading both keys. A row that is missing and *)
(* a row that could not be read look the same: a new pair is generated.    *)
(***************************************************************************)
SelectKeys ==
  /\ At("selectKeys")
  /\ ~NoKeysFound
  /\ keys' = rows
  /\ Then(<<"alterKeyspace", "createSecret", "listPods">>)
  /\ UNCHANGED <<passRest, listed, tried, k8sVars, dbVars, misread>>

GenerateKeyPair ==
  /\ generated < MaxKeys
  /\ generated' = generated + 1
  /\ keys' = [public |-> generated + 1, private |-> generated + 1]
  /\ Then(<<"createKeyspace", "insertPublic", "insertPrivate", "createSecret", "listPods">>)

GenerateMissingKeys ==
  /\ At("selectKeys")
  /\ NoKeysFound
  /\ GenerateKeyPair
  /\ UNCHANGED <<passRest, listed, tried, k8sVars, rows, replication, misread>>

SelectKeysFails ==
  /\ At("selectKeys")
  /\ ~NoKeysFound
  /\ fails < MaxFailures /\ fails' = fails + 1
  /\ misread' = TRUE
  /\ GenerateKeyPair
  /\ UNCHANGED <<cr, recorded, phase, target, cassandra, edits, unseen, ran, dirty,
                 listed, tried, k8sVars, rows, replication>>

CreateKeyspace ==
  /\ At("createKeyspace")
  /\ replication' = IF replication = None THEN target.common.dcs ELSE replication
  /\ Next1
  /\ UNCHANGED <<passRest, keys, listed, tried, k8sVars, rows, generated, misread>>

AlterKeyspace ==
  /\ At("alterKeyspace")
  /\ replication' = target.common.dcs
  /\ Next1
  /\ UNCHANGED <<passRest, keys, listed, tried, k8sVars, rows, generated, misread>>

InsertPublic ==
  /\ At("insertPublic")
  /\ rows' = [rows EXCEPT !.public = keys.public]
  /\ Next1
  /\ UNCHANGED <<passRest, keys, listed, tried, k8sVars, replication, generated, misread>>

InsertPrivate ==
  /\ At("insertPrivate")
  /\ rows' = [rows EXCEPT !.private = keys.private]
  /\ Next1
  /\ UNCHANGED <<passRest, keys, listed, tried, k8sVars, replication, generated, misread>>

CreateSecret ==
  /\ At("createSecret")
  /\ sshSecret' = keys
  /\ Next1
  /\ UNCHANGED <<passRest, keys, listed, tried, services, deployments, ready,
                 claim, auth, dbVars, misread>>

\* The pods there are now; an empty list skips the loop.
ListPods ==
  /\ At("listPods")
  /\ listed' = 0..cassandra.pods - 1
  /\ tried' = 0
  /\ IF listed' = {} THEN Next1 ELSE Then(<<"writeKeys">>)
  /\ UNCHANGED <<passRest, keys, k8sVars, dbVars, misread>>

\* The error of the list is not looked at: the step ends without a key written.
ListPodsFails ==
  /\ At("listPods")
  /\ fails < MaxFailures /\ fails' = fails + 1
  /\ unseen' = TRUE
  /\ Next1
  /\ UNCHANGED <<cr, recorded, phase, target, cassandra, edits, ran, dirty, keys,
                 listed, tried, k8sVars, dbVars, misread>>

ThisPod == CHOOSE n \in listed : \A m \in listed : n <= m

\* mkdir, rm, echo and chmod in the pod, all successful.
WriteKeys ==
  /\ At("writeKeys")
  /\ auth' = [auth EXCEPT ![ThisPod] = keys.public]
  /\ listed' = listed \ {ThisPod}
  /\ tried' = 0
  /\ IF listed' = {} THEN Next1 ELSE UNCHANGED program
  /\ UNCHANGED <<passRest, keys, services, deployments, ready, claim, sshSecret,
                 dbVars, misread>>

\* Mutant: one attempt too many.
WriteKeysFailsOnceMore ==
  /\ At("writeKeys")
  /\ fails < MaxFailures
  /\ tried <= Tries
  /\ tried' = tried + 1
  /\ UNCHANGED <<passRest, program, keys, listed, k8sVars, dbVars, misread>>

(***************************************************************************)
(* One of the commands fails, before or after the old file was removed.    *)
(* The commands are tried again, up to Tries times, then the step panics.  *)
(***************************************************************************)
WriteKeysFails ==
  /\ At("writeKeys")
  /\ fails < MaxFailures
  /\ auth' \in {auth, [auth EXCEPT ![ThisPod] = None]}
  /\ IF tried + 1 < Tries
       THEN /\ tried' = tried + 1
            /\ UNCHANGED <<program, listed, phase, fails, dirty>>
       ELSE /\ tried' = 0 /\ program' = <<>> /\ listed' = {}
            /\ phase' = "idle" /\ fails' = fails + 1
            /\ dirty' = dirty \cup ran
  /\ UNCHANGED <<cr, recorded, target, cassandra, edits, unseen, ran, keys,
                 services, deployments, ready, claim, sshSecret, dbVars, misread>>

DeleteDeploymentAndPods ==
  /\ At("deleteDeployment")
  /\ deployments' = [deployments EXCEPT ![Here] = None]
  /\ ready' = ready \ {Here}
  /\ Next1
  /\ UNCHANGED <<passRest, keys, listed, tried, services, claim, sshSecret, auth,
                 dbVars, misread>>

CreateDeployment ==
  /\ At("createDeployment")
  /\ deployments' = [deployments EXCEPT ![Here] = Template(Here, target)]
  /\ Next1
  /\ UNCHANGED <<passRest, keys, listed, tried, services, ready, claim, sshSecret,
                 auth, dbVars, misread>>

WaitForPodsReady ==
  /\ At("waitReady")
  /\ Here \in ready
  /\ Next1
  /\ UNCHANGED <<passRest, keys, listed, tried, k8sVars, dbVars, misread>>

\* What a pod of this component mounts exists: every secret but this one is
\* installed with the chart.
CanStart(c) ==
  /\ "ssh-keys" \in deployments[c].secrets => sshSecret # NoPair
  /\ deployments[c].claim => claim

\* The pass gives up on a pod that cannot start: "Pods waiting failed".
WaitTimesOut ==
  /\ At("waitReady")
  /\ ~CanStart(Here)
  /\ phase' = "idle" /\ program' = <<>>
  /\ dirty' = dirty \cup ran
  /\ UNCHANGED <<cr, recorded, target, keys, listed, tried, k8sVars, dbVars,
                 cassandra, fails, edits, misread, unseen, ran>>

Finish ==
  /\ phase = "run" /\ program = <<>>
  /\ recorded' = target
  /\ phase' = "idle"
  /\ dirty' = dirty \ ran
  /\ UNCHANGED <<cr, passVars, k8sVars, dbVars, cassandra, fails, edits, misread, unseen, ran>>

Operator ==
  \/ Reconcile \/ CassandraOperatorReady \/ CassandraOperatorNotReady
  \/ CreatePVC \/ DeleteService \/ CreateService
  \/ SelectKeys \/ GenerateMissingKeys \/ CreateKeyspace \/ AlterKeyspace
  \/ InsertPublic \/ InsertPrivate \/ CreateSecret \/ ListPods \/ WriteKeys
  \/ DeleteDeploymentAndPods \/ CreateDeployment \/ WaitForPodsReady \/ WaitTimesOut
  \/ Finish

\* A panic, an error, a time-out or the death of the process in any step.
PassFails ==
  /\ phase # "idle"
  /\ fails < MaxFailures /\ fails' = fails + 1
  /\ phase' = "idle" /\ program' = <<>>
  /\ dirty' = IF phase = "run" THEN dirty \cup ran ELSE dirty
  /\ UNCHANGED <<cr, recorded, target, keys, listed, tried, k8sVars, dbVars,
                 cassandra, edits, misread, unseen, ran>>
-----------------------------------------------------------------------------
(* The environment: Kubernetes, the Cassandra operator, the administrator. *)

worldRest == <<recorded, phase, passVars, dbVars, history>>

\* A pod starts once every secret it mounts exists.
PodReady ==
  /\ \E c \in Names \ ready :
       /\ deployments[c] # None
       /\ CanStart(c)
       /\ ready' = ready \cup {c}
  /\ UNCHANGED <<cr, worldRest, services, deployments, claim, sshSecret, auth,
                 cassandra, fails, edits>>

CassandraStarts ==
  /\ cassandra.status # "inProgress"
  /\ cassandra.pods # cassandra.want \/ cassandra.status # "successful"
  /\ cassandra' = [cassandra EXCEPT !.status = "inProgress"]
  /\ UNCHANGED <<cr, worldRest, k8sVars, fails, edits>>

CassandraRolls ==
  /\ cassandra.status = "inProgress"
  /\ cassandra' = IF cassandra.pods < cassandra.want
                    THEN [cassandra EXCEPT !.pods = @ + 1]
                    ELSE [cassandra EXCEPT !.status = "successful"]
  /\ UNCHANGED <<cr, worldRest, k8sVars, fails, edits>>

CassandraFails ==
  /\ cassandra.status = "inProgress"
  /\ fails < MaxFailures /\ fails' = fails + 1
  /\ cassandra' = [cassandra EXCEPT !.status = "failed"]
  /\ UNCHANGED <<cr, worldRest, k8sVars, edits>>

\* The status still is that of the schema before the edit.
EditCassandra ==
  /\ edits < MaxEdits /\ edits' = edits + 1
  /\ \E s \in Specs :
       /\ Replicas(s) > cassandra.want
       /\ cassandra' = [cassandra EXCEPT !.want = Replicas(s)]
  /\ UNCHANGED <<cr, worldRest, k8sVars, fails>>

EditServices ==
  /\ edits < MaxEdits /\ edits' = edits + 1
  /\ \E s \in Specs \ {cr} : cr' = s
  /\ UNCHANGED <<worldRest, k8sVars, cassandra, fails>>

Next ==
  \/ Operator \/ SelectKeysFails \/ ListPodsFails \/ WriteKeysFails \/ PassFails
  \/ PodReady \/ CassandraStarts \/ CassandraRolls \/ CassandraFails
  \/ EditCassandra \/ EditServices

(***************************************************************************)
(* The controller runs the operator's steps without pause and calls it     *)
(* again after a failure; pods that can start do; the other operator keeps *)
(* trying as well.                                                         *)
(***************************************************************************)
Fairness ==
  /\ WF_vars(Operator)
  /\ WF_vars(PodReady)
  /\ WF_vars(CassandraStarts)
  /\ WF_vars(CassandraRolls)

Spec == Init /\ [][Next]_vars /\ Fairness
-----------------------------------------------------------------------------
(* Properties.                                                             *)

Settled == phase = "idle" /\ recorded = cr
Deployed(c) == cr[c].install /\ c \notin dirty

(***************************************************************************)
(* A key pair that is complete in the database, or that the backup daemon  *)
(* has been given, is never replaced: a failure between the two INSERTs is *)
(* repaired by the next pass before anybody uses half of the new pair. The *)
(* step cannot keep this promise when a stored key could not be read.      *)
(***************************************************************************)
KeysKept ==
  [][~misread' =>
       /\ (rows.public # None /\ rows.private # None) => rows' = rows
       /\ sshSecret # NoPair => sshSecret' = sshSecret
       /\ \A n \in Nodes : auth[n] # None => auth'[n] \in {auth[n], None}]_vars

(***************************************************************************)
(* After a successful pass the backup daemon can reach every Cassandra pod *)
(* with the key in its secret, and knows every one of them, in a cluster   *)
(* of one data centre - provided the pass began when Cassandra already had *)
(* the nodes of the schema, which a "successful" status left over from the *)
(* previous schema does not guarantee, and that no list of pods failed.    *)
(***************************************************************************)
BackupReachesEveryNode ==
  ( /\ Settled /\ Deployed("backup")
    /\ ~cr.common.aws /\ Len(cr.common.dcs) = 1
    /\ ~misread /\ ~unseen
    /\ cassandra.pods = Replicas(cr) )
  => /\ sshSecret.public # None /\ sshSecret.public = sshSecret.private
     /\ sshSecret = rows
     /\ \A n \in 0..cassandra.pods - 1 :
          n \in deployments["backup"].hosts /\ auth[n] = sshSecret.public

(***************************************************************************)
(* After a successful pass every installed component listens where its     *)
(* service sends requests, with a certificate exactly on the TLS port, and *)
(* the adapter, if it has an address of the backup daemon, has that of the *)
(* daemon's service and the secrets to use it. TLS is switched by a pass   *)
(* that rolls one component after another and may fail, or be overtaken by *)
(* edits, between any two of them.                                         *)
(***************************************************************************)
PortsAgree ==
  Settled =>
    /\ \A c \in {"backup", "dbaas"} : Deployed(c) =>
         /\ c \in ready
         /\ services[c] = deployments[c].port
         /\ Cert[c] \in deployments[c].secrets <=> services[c] = 8443
    /\ LET address == deployments["dbaas"].backup
       IN  Deployed("backup") /\ Deployed("dbaas") /\ address # None
             => /\ address = services["backup"]
                /\ {"backup"} \cup TLSClientSpecUpdate(address = 8443)
                     \subseteq deployments["dbaas"].secrets

(***************************************************************************)
(* After a successful pass the keyspace of the key pair is replicated over *)
(* the data centres of the applied schema, whichever passes failed or were *)
(* skipped and whatever was edited before. Excluded is a key pair that had *)
(* to be generated again: CREATE KEYSPACE IF NOT EXISTS then keeps what an *)
(* earlier, half-done pass made of the schema it knew, until a pass finds  *)
(* the keys.                                                               *)
(***************************************************************************)
KeyspaceFollowsSchema ==
  Settled /\ Deployed("backup") /\ ~cr.common.aws /\ generated <= 1 =>
    replication = cr.common.dcs

(***************************************************************************)
(* Once edits and failures stop, the last specification ends up recorded   *)
(* as applied: waiting for Cassandra, for the pods and for the secrets     *)
(* they mount cannot block each other. With Amazon Keyspaces it can: the   *)
(* secret is mounted there too, and no step creates it.                    *)
(***************************************************************************)
EventuallyApplied == <>[](~cr.common.aws) => <>[]Settled
=============================================================================
