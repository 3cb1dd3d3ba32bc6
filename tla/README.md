# TLA+ specifications of the Cassandra operator

This directory models the parts of the repository whose correctness depends on
order, failure and concurrency: the Cassandra operator (`src/operator`), the
operator of the supplementary services (`src/services/service`), the
DBaaS adapter (`src/services/dbaas-adapter`) and the backup daemon
(`src/services/backup-daemon`). TLC checks the models on small instances; TLAPS
proves every invariant and every action property of the passing runs, and a
refinement, for all instances. `PROJECT.json` maps every definition to the lines
it models and lists runs, hazards and findings.

## 1. The system

| Part | State it keeps | Operations | Talks to |
|---|---|---|---|
| Naming (`api/v1alpha1`, `impl/utils`, `impl/common`) | none: functions of the deployment schema | active replicas, stateful set index, claim name, seeds, contact points | called by nearly every step |
| Cassandra deployment (`impl/cassandra`) | claims, stateful sets, roles, replication of the system keyspaces, the recorded spec | the ordered steps of the `cassandra` compound | Kubernetes API, CQL, `nodetool` in the pods |
| Several operators (`impl/utils`, `impl/cassandra`) | nothing of their own; `system.peers`, replication settings | IsAllDCsDeployed, GetReplicationFactor, UpdateSystemKeyspacesTopology, CassandraReaper, NodetoolRebuild | share one ring |
| Credential rotation (`updateCreds.go`) | the secret and its copy, the role's password | SetPasswordFromSecret, UpdateCassandraCredentials | external credential manager |
| HTTP server of the operator (`impl/common`, `impl/fiber`, `impl/utils`) | the context of one pass, results of the smoke tests | smoke tests, metrics, flush | CQL |
| Services operator (`services/service`) | services, deployments and claim of the adapter, the daemon and the tests; SSH keys in a table, a secret and the pods | wait for Cassandra, then the steps of every component | Kubernetes API, CQL, the Cassandra operator's status |
| DBaaS adapter | none: everything is in Cassandra | create and drop databases and users, metadata, settings | CQL, concurrently |
| Backup daemon | archives of snapshots per keyspace and host | backup, restore, clone | ssh/ansible to every host, CQL, sstableloader |

What is hard, part by part:

* **Deployment.** A pass is a long sequence of effects without transactions;
  after a panic the next one starts from the beginning with a context of its own
  and derives what happened from what it finds (`CalcDeployType`). The custom
  resource changes under a running pass. Stateful sets are numbered over all data
  centres, so scaling one out renames the nodes of the later ones while the
  old names still run on the same claims.
* **Several operators.** They share keyspaces and never talk to each other. Each
  decides from its own resource and a count of `system.peers` whether the ring is
  complete, and writes the answer later, when another one may have added a node.
* **Credentials.** The password is in a secret, in its copy and in the database;
  three systems that are changed one after another, with a callback in between. The
  server of the smoke tests keeps the password of the pass that started it.
* **Services.** The pass begins on a status that may be that of an earlier schema.
  A key pair is stored by two statements, copied to a secret and written into the pods
  that are there at that moment; a key that cannot be read looks like one that was
  never stored.
* **Naming.** The same numbering is computed in five places from different lists
  of data centres.
* **DBaaS.** Requests interleave at every CQL statement; creations are rolled
  back by a deferred function; look-ups are used after other requests ran.
* **Backup.** Every host has its own archive of a keyspace; a restore goes
  through them one after another, any of its steps may fail, and it may be repeated.

## 2. Modules

| Module | Models | Used by |
|---|---|---|
| `Topology` | naming functions, as operators | `SchemaEdits`, `CassandraDeployMC` |
| `SchemaEdits` | every schema edits can produce, seen by each cluster's operator | run `schema_edits`, `SchemaEditsProofs` |
| `FoldLemmas` | nothing: induction, and facts about the folds of the library | `SchemaEditsProofs` |
| `SchemaEditsProofs` | theorems | |
| `VolumeAttachment` | abstract: what a rollout promises about claims | `CassandraDeploy` |
| `CassandraDeploy` | the `cassandra` compound of one operator and its environment | `CassandraDeployMC`, `CassandraDeployProofs` |
| `CassandraDeployMC` | four specs whose names `Topology` computes | runs `deploy`, `deploy_live` |
| `CassandraDeployProofs` | theorems | |
| `MultiCluster` | the operators of several clusters on one ring | `MultiClusterMC`, `MultiClusterProofs` |
| `MultiClusterMC` | two clusters, the schemas an administrator writes | run `ring` |
| `MultiClusterProofs` | theorems | |
| `CredentialRotation` | rotation of the password, the server that lives on it | run `rotation`, `CredentialRotationProofs` |
| `CredentialRotationProofs` | theorems | |
| `ServicesOperator` | the services operator with the SSH keys, and its view of Cassandra | `ServicesOperatorMC`, `ServicesOperatorProofs` |
| `ServicesOperatorMC` | four versions of the custom resource | run `services` |
| `ServicesOperatorProofs` | theorems | |
| `DbaasAdapter` | concurrent requests of the adapter | `DbaasAdapterMC`, `DbaasAdapterProofs` |
| `DbaasAdapterMC` | names that differ in case, two roles | runs `dbaas*` |
| `DbaasAdapterProofs` | theorems | |
| `BackupRestore` | a backup on all hosts, restores and clones, clients | `BackupRestoreMC`, `BackupRestoreProofs` |
| `BackupRestoreMC` | two hosts, two keyspaces, rows with one or two replicas, roles of every kind | runs `backup`, `restore_complete`, `backup_roles` |
| `BackupRestoreProofs` | theorems | |

### Topology and SchemaEdits

A schema is a sequence of records with the fields of `DataCenter` that the names
depend on. `RolloutPlan` is the double loop of `CassandraStatefulSetStep.Execute`
reduced to the pair (stateful set, claim) of every node; `SeedsStep`,
`RemoveNodesTargets` and `GetConnectionHosts` are the other places that name nodes.
Loops that append what passes a test are `Kept`, a left fold, and the test of
`GetActiveReplicas` is `Active`.
Keys of `removeNodes` are strings in the code; the model keeps their number and whether
they are printed canonically, because one place compares strings and another
parses them. `SchemaEdits` starts from one data centre and adds data centres, scales
out and lists nodes for removal; each cluster's operator sees the schema with
`deploy` set for its own part. `MaxSeeds`, `SeededDCs` and `MaxKeys` bound the choices of the
administrator (seeds of a data centre, data centres that are given other seeds than one
computed, keys under one `removeNodes`). `CassandraDeploy` does not depend on this
arithmetic but on what is shown here: its `PlanAssumption` is proved of the names of every
schema (`PlansFit`), and so are two of the three conditions of `EditAllowed`
(`NodesAreCarriedOver`). The third, when a spec with gaps may be written, is about the
running stateful sets and stays an assumption about the administrator.

### CassandraDeploy

Nodes are identified by their claims. One action per step of the compound, in the
order `CassandraBuilder.Build` adds the steps: `CreatePVC` (one claim per step),
`StatefulSetDelete` / `StatefulSetCreate` / `WaitForPodsReady` (one node per round),
`CreateSuperUser`, `RemoveNode`, `AlterSystemKeyspace`, `DropCassandraDefaultUser`,
and the operator core's `SaveApplied`. `PassFails` ends a pass anywhere: panics,
time-outs and a restart of the operator have the same effect, because a pass keeps
nothing that the next one could find except in the cluster. A wait that never ends is
`PassFails` at step `wait`. `PodReady`, `PodCrash` and `UpdateSpec` are the
environment. `healthy`, `aborted` and `dirty` are history variables for the
properties.

`EditAllowed` assumes of the administrator that an edit never lowers the index of a
stateful set, that it never forgets a node - replicas are taken out by `removeNodes` and
stay listed there (the edits of `SchemaEdits` do both) - and that a spec that lists nodes for removal is only written while
every stateful set has the index that spec gives it. The code checks none of them.
Without the first, two stateful sets can mount one claim; without the second, the
stateful set of a forgotten node goes on running, because no step looks for it; without
the third, the renumbering of a spec with a gap can again share a claim.

`VolumeAttachment` says of the claims what `NoSharedVolume` says of a state and more: a
claim is created before it is mounted, a stateful set keeps its claim while it
exists, and a claim goes from one stateful set to another only by way of being free.
`CassandraDeploy` implements it with its claims and its mounted volumes as they are
(`VolumesHandedOver == Volumes!Spec`); every other step is a stutter.

### MultiCluster

Data centre c belongs to the operator of cluster c; a schema is the number of active
replicas of each. Of a pass, only what concerns the ring is kept, in the code's order:
the claims (`CalcDeployType` looks at them), the nodes that join (`NodeJoins`),
`CleanupNodes`, `UpdateSystemKeyspacesTopology` with one ALTER per keyspace, `CassandraReaper`
(CREATE, then ALTER) and `NodetoolRebuild`. `ReplicasDeployed` counts
`system.peers`; a failing count is logged and answers -1, so `IsAllDCsDeployed` says no.
`GetReplicationFactor` is evaluated when a step begins and used for all its statements.
An administrator creates and enlarges the resources of the clusters one by one, so
they disagree for a time.

The code cannot be right in every interleaving: it never takes a count back. The
history variables name the cases in which it is not, so that the properties claim
everything else: `raced` (the ring grew between count and ALTER, or was not
counted), `misled` and `doubted` (the resource contradicted the ring when it was
used), `aborted` (the first pass failed after the claims, so that the next one is an
update and neither alters the system keyspaces nor rebuilds). The first two are reset by a later
ALTER that overwrites the damage.

Simplifications: a node that joined is in everyone's `system.peers`; removal of
nodes is in `CassandraDeploy` only; `cleanup` and `repair` leave nothing the
properties look at.

### CredentialRotation

A pass is either full (the resource differs from the recorded one) or only checks the
password. Both read the secret first. A full one then goes through
`CheckLogin` / `CreateUser` (`CreateSuperUser` and its condition), the credential manager and
the later steps, which log in with the password read at first. `ActualizeCreds` is the
credential manager, which is external; from its use: without a copy of the secret it
makes one; with an equal one it does nothing; with a different one it calls back with both
passwords (`UpdateUserPass` logs in with the old one and sets the new one) and then
renews the copy with the password it passed to the callback. `PassFails` is an error, a
time-out or the death of the process between any two of these.

The server is started by the first check (`RunFiberServer`) and never again in this
process. `calculateMetrics` is its loop: the schema is created when it is not known to be
there, one test follows another, an error makes the schema be created again. What the CQL
driver returns besides an error is not known: either nil, of which the process
dies, or a session whose queries fail; the model has both.

`mishaps` are the four situations the code does not repair, named in the comments of
`KnownPassword` and `RotationCompletes`: the rotation is cut off between ALTER ROLE and
the renewal of the copy (`interrupted`), the secret changes again before that is resolved
(`lost`), it changes between the creation of the user and the first copy (`crossed`),
or a full pass meets a rotation after the default user is gone (`collided`).

Simplifications: the configured user is not the default user; the flush request, which
runs `nodetool flush` and changes none of this state, is left out.

### ServicesOperator

A pass is a program: the sequence of steps that the builders put together
(`CassandraServiceBuilder`, `BackupBuilder`, `DbaasBuilder`, `RobotBuilder`) for the
components that are installed and changed. A step that turns out to need others
(`BackupSSHKeyStep`) puts them in front of the rest. The templates are rendered to what
other parts rely on: port, mounted secrets, claim, the list of hosts and the address of the
daemon. `Reconcile` / `CassandraOperatorReady` / `CassandraOperatorNotReady` are the wait for the
other operator, which is an environment of three actions here (`CassandraStarts`,
`CassandraRolls`, `CassandraFails`) and whose resource is edited independently.

The keyspace of the keys is created with the replication of the pass that creates it and altered only by
a pass that finds both keys. `KeyspaceFollowsSchema` therefore excludes (`generated <= 1`) a pass that has
to generate a pair again: it ends with whatever replication the half-done pass before it left.

`SelectKeysFails` and `ListPodsFails` are errors the code does not tell from an empty
answer; `misread` and `unseen` record them, and `unseen` also that the pass began on a
`successful` status left over from an earlier schema. `dirty` are the components a failed pass
may have left half done: when the edit is reverted, the recorded resource equals the
new one and nobody repairs them.

Simplifications: the five commands in a pod are one step that may fail before or after
the old file is removed; S3 storage is left out; every secret but `ssh-keys` comes with the
chart.

### DbaasAdapter

A request is a sequence of CQL statements, one action each. `Exec` is the fate of
a statement: it succeeds, it is refused by the database, or it fails for another
reason - with its effect or without it, since the time-out is the client's.
A failed statement sends the request where the code's `panic`, `return err` or ignored
result sends it: in `CreateDatabase` to the deferred rollback. `Crash` is the death of the
process. A request's identity stands for its password and row contents, so that "the
returned password works" is `roles[u] = r`. `Fold` gives the meaning of a name
that is not quoted: `DROP ROLE` does not quote what `CREATE ROLE` quotes.

A `CreateUser` may ask for any role. Of the role only `known` is kept: whether `roleToPermissions` has an entry
for it. A role that is not supported is logged and nothing more; without an entry there is no `GRANT` to run,
so `GrantUser` succeeds and grants nothing. `UserUsable` promises a permission to the other roles only.
`EnsureMetadataTable` models another error that the client is not told of: the settings handler's error
answer is overwritten by its success answer.

`GetMetadata` takes the first of two rows. That `replication` comes before `metadata` is a fact about
Cassandra's partitioner, stated in `FirstRow`: the Murmur3 token of the former is the lower one.

Simplifications: the `GRANT`s of one role are one statement; CreateRoles is asked for
one database at a time; a statement that timed out takes effect at once or never,
not after the rollback; user names are not those of the operator's own roles.

### BackupRestore

The cluster, the snapshots of a host and its archives in the vault are records of
the same form (`Cluster`): sets of keyspaces, tables, rows and grants, so that every
command is a union or a difference. On each host the loop of `main` in
`backup_remote.py` is `ExecuteSnapshot`, `MakeArchive`, `DeleteSnapshot` per keyspace,
then the playbook's `CopyToVault`; hosts interleave freely, and `HostFails` ends one of
them anywhere. The restore has one action per command of `Restore.restore` and
`restore_keyspace`; the archives of a keyspace and its tables come in any order,
because the code takes that of `os.listdir` and `glob`. `RestoreFails` may leave some of the
rows of a `sstableloader` and some of the grants of `restore_roles`. A restore may follow
one that failed. Clients write at any time.

Permissions are on a keyspace (`grants`) or on a table (`tableGrants`). `SavedRoles` is what the loop of
`backup_roles` writes before it returns: nothing if one role alone has permissions on the keyspace, and
otherwise the roles, the administrators' aside, that a query returns (`Token`) before the first one whose
password hash cannot be read (`Unhashed`). `main` does not look at its answer, so the archive is made
and the backup succeeds all the same. Permissions on tables are never saved, and dropping a table or
a keyspace revokes them. In a clone `replace_in_file` replaces the keyspace's name anywhere in a role file, in the
name of the role too (`CloneRole`). `GrantsKept` and `BackupHoldsCluster` say what remains true.

Simplifications: the snapshot of a keyspace on one host is atomic; a backup names the
same tables for all keyspaces; every keyspace to restore is named by `dbmap` and the
clones are not sources themselves; nobody grants or revokes permissions between the backup and the restores, and
a role exists when something is granted to it; which permissions a role has on a keyspace is not told
apart; no table's name contains that of its keyspace (`restore_keyspace`
would rename the table in a clone as `restore_roles` renames roles); restores start from backups that succeeded (the
daemon in the image, which is external, records the exit code). Table-wise restores are left out:
an entry of `dbs` that is an object is compared with the keyspace of an archive and
never equals it. Overlapping backups or restores are left out because the daemon queues its jobs.

## 3. Runs

| Run | Bounds | Shows |
|---|---|---|
| `schema_edits` | 2 clusters, 3 data centres, 2 replicas, 1 removal per data centre, 2 seeds or a seed list in the first data centre | names agree between all places that compute them |
| `deploy` | 4 specs, 4 nodes, 2 failed passes, 1 crash, 2 edits | no shared claim, claims are handed over (refinement of `VolumeAttachment`), one node down at a time, no lock-out, convergence, complete bootstrap |
| `deploy_live` | the same with 1 failed pass, configured user = default user | the spec is eventually applied |
| `ring` | 2 clusters, 2 replicas, 4 edits, 1 failure | the ring at rest is spanned by the system keyspaces and the reaper's, and the data centre that completed it was rebuilt |
| `rotation` | 2 rotations, 1 edit, 1 failure, 1 outage, 1 lost table | the operator never loses the password, rotations complete, smoke tests recover |
| `services` | 4 versions, 2 nodes, 3 key pairs, 2 tries, 2 failures, 2 edits | keys are never replaced and their keyspace follows the schema, the daemon reaches every node, ports and certificates agree, the resource is eventually applied |
| `dbaas` | 3 requests, 2 databases, 2 users, 1 fault | rollbacks leave nothing; what was returned works |
| `dbaas_rollback` | 2 requests, 1 database | **violated**: a rollback drops another client's database |
| `dbaas_metadata` | 2 requests, 1 database | **violated**: metadata is stored and not returned |
| `backup` | 2 hosts, 2 keyspaces, 2 tables, 2 rows, 4 roles, 2 restores, 1 failure, 1 write | successful backups hold all rows and the roles of keyspaces where `backup_roles` does not give up, clones hold them, restores undo later writes and revoke only what goes with what they drop |
| `restore_complete` | the same with 1 restore, no failure, no write | **violated**: a finished restore has lost rows of the hosts handled first |
| `backup_roles` | the same | **violated**: a successful backup lacks the permissions of a role |

Why the bounds are enough for the cases they are for: two data centres and a scale-out
of the first give one renamed node; two failures and two edits let a pass for one spec
fail, a pass for a second one fail on its remains, and a third succeed. Three
requests are a victim, an interferer and a request that cleaned up before; one
fault reaches every error path of each. A third data centre distinguishes "the ones
before" from "all others" in the numbering. A row that one of
two hosts stores and one that both do tell apart what one archive and all archives
hold; of the four roles one is the administrator's, one has no password hash and comes before another in one of the initial clusters,
one has a name that contains a keyspace's, and one initial cluster has a keyspace with a single role; in the ring, two nodes of the first data centre tell "the ring is complete"
from "the data centre is complete", and four edits create both resources and grow the
first in each (three clusters with a node each have been checked as well); two rotations
are one cut off and one that follows it, and a second failure (checked as well) adds no
case; in the services, the second version changes nodes and TLS at once, the third
removes the daemon, the fourth needs no keys, two failures are one that leaves half a key
pair and one in the pass that repairs it, and three pairs are as many as two
failures can make necessary; two restores are one that fails or clones and one that starts from its
remains; the second keyspace distinguishes what is reset per keyspace from what is not.

Deadlock is checked in `rotation`, where the smoke tests never end. Elsewhere the bounded
environment, and a system with every request answered or every spec applied, may
stop.

**Fairness.** `FairSpec` of `CassandraDeploy`: weak fairness of the operator's steps - controller-runtime
calls Reconcile again while it returns an error, and inside a pass every step ends by
itself or by its time-out - and of `PodReady`, because the kubelet keeps restarting the
pod of a stateful set. Nothing forces failures, crashes or edits to happen or not to;
they are finitely many by their bounds. The `Spec`s of `ServicesOperator` and `CredentialRotation`
take the same two from the same sources, and add: the other operator goes on (it is a
controller too), the loop of the smoke tests goes on (a goroutine without an exit), and an
outage of Cassandra ends. The steps that fail are not in the fair part. The controller of the Cassandra operator
watches the `CassandraDeployment` and not the secret (`cassandra_controller.go:59`): that a change of the password alone leads to
a pass rests on the external operator core or on the periodic resync of controller-runtime, and
`RotationCompletes` and `SmokeHeals` assume it. In
`services`, waiting for a pod that cannot start ends by its time-out and not by fairness.

## 4. Theorems

All theorems hold for every value of the constants that satisfies the named assumptions
of the module: every number of nodes, clusters, requests, hosts, keys, and every bound
on failures, edits and crashes, so that the bounds of section 3 are no limit to them. Each invariant
that is not inductive is proved from a stronger one that is; the stronger ones were checked by TLC as
invariants of the runs before they were proved.

### SchemaEditsProofs and FoldLemmas (`SchemaAssumption`)

The only invariant they need is `SchemaInv`: the schema is a sequence of one or more well-formed data
centres. Everything else is about the operators of `Topology`, which are folds over that sequence, and
holds of every list of data centres, with any numbers of replicas, seeds and keys.

The provers cannot instantiate the library's induction theorems, whose parameter is an operator. `FoldLemmas`
states induction over a set (`SetInduction`: a set of numbers with 0 and every successor is `Nat`, by
the smallest number that is missing) and follows the recursive functions inside `SumFunctionOnSet`
and `FlattenSeq` up to the length of the list: `UpTo(f, k)`, the sum of the first k values, grows by one value
per step, and the sequence that is flattened contains the elements of all parts, in the order of the parts.
`SchemaEditsProofs` does the same for `Kept` (`KeptFacts`: it keeps exactly the elements named, in
their order; `KeptPrefix`: two lists that agree on whom to keep do so at the same positions) and derives what the code's loops
compute: the active replicas of a data centre (`ActiveFacts`), an index as the replicas before plus the replica
(`OffsetFacts`, `IndexFacts`), the rollout (`PlanFacts`), the seeds (`SeedsFacts`).

* `RolloutInOrder`: `Spec => []StatefulSetsInOrder`. A later replica of a data centre has a higher
  index, and a later data centre begins where the one before ends.
* `RemovalIsSafe`: `Spec => []RemovalSparesActiveNodes`. Different nodes have different indices, and
  every index below the total is that of a node, active or removed.
* `SeedsRolledOut`: `Spec => []SeedsAreRolledOut`. With one cluster the numbering over the schema is that
  over the deployed part; with one data centre per cluster a seed is numbered by its replica alone,
  in both.
* `ContactPointIsRolled`: `Spec => []OperatorCanConnect`. The first deployed data centre is numbered
  from zero by both computations, and validation lets it keep a replica.
* `IndicesOnlyGrow`: `Spec => IndicesNeverDrop`, an action property. `Grows` says what an edit can do; the data centres of
  an operator keep their places in its list (`KeptPrefix`) and the sums before them only grow (`OffsetsGrow`).
* `PlansFit`: `PlanAssumption` holds of the names that `Topology` gives every reachable schema that is
  valid and removes only nodes it has. This joins the two halves: the theorems of `CassandraDeployProofs`
  do not rest on the four specs of `CassandraDeployMC`.
* `NodesAreCarriedOver`: an edit from one such schema to another forgets no node, active or removed, and
  lowers no index: the first two conditions of `EditAllowed`.

### CassandraDeployProofs (`SpecsAssumption`, `PlanAssumption`)

* `TypeCorrect`: `Spec => []TypeOK`.
* `AlwaysCanLogIn`: `Spec => []OperatorCanLogIn`. The inductive invariant adds that
  past `CreateSuperUser` the configured user can log in, which is why
  `DropCassandraDefaultUser` may drop the other one.
* `VolumesNeverShared`: `Spec => []NoSharedVolume`. `NoSharedVolume` is not
  inductive: mounting claim p at index k is harmless only if p is not in use
  elsewhere. `VolumeInv` adds that nobody runs ahead of the numbering
  (`Behind`), that a spec with gaps finds every node at its exact index, and that
  the nodes the rollout has passed run under their new index. Then p can only be in
  use at a lower index; that index belongs to a node the rollout has passed,
  which runs there - a contradiction, or to a gap - and then p is in place already.
* `RolloutHandsVolumesOver`: `Spec => VolumesHandedOver`, the refinement of
  `VolumeAttachment`. `Init` maps to its `Init`; under `VolumeInv` and `ClaimInv` (what is
  mounted exists, and the stateful set to create is gone) `CreatePVC`, `StatefulSetDelete`,
  `StatefulSetCreate` and `RemoveNode` map to its actions and all other steps to stutters.
* `BootstrapComplete`: `Spec => []Bootstrapped`. `BootInv`: a pass that is not clean has found a
  claim; unless a clean pass was aborted, that claim is the work of one that succeeded.
* `AppliedConverges`: `Spec => []Converged`. `KnownInv` (whatever runs is known to the
  spec), `RolledOut` (past the rollout the active nodes run at their index with the
  new template) and `RemovedGone` leave no place for a node the spec does not ask for,
  because active and removed nodes are numbered without a gap.
* `OneAtATime`: `Spec => []OneNodeDown`. `HealthyInv`: a node that was ready when the pass began runs under the
  index the pass gives it and nowhere else, so that only its own turn takes it down.

### MultiClusterProofs (`MultiClusterAssumption`)

`RingInv` has the types, that resources and the ring only grow, and how a pass relates to
resource, record, claims and ring: the pass of a cluster without a record is a clean one until one fails.

* `TypeCorrect`: `Spec => []TypeOK`.
* `ReaperReplication`: `Spec => []ReaperSpansRing`. `ReaperInv`: if every operator of the ring has applied it,
  or is about to record it, the keyspace spans the ring - the last of them altered it after the last node
  had joined.
* `SystemReplication`: `Spec => []SystemKeyspacesSpanRing`, and `LastDataCentreRebuilt`:
  `Spec => []NewDataCentreRebuilt`. `SystemInv` and `RebuildInv` speak of the moment at which no data
  centre of the ring, or named by a resource of the ring, is still in its first rollout (`Unfinished`): the cluster
  that ended it is `last`, and its pass is past the keyspace, or has rebuilt.

### CredentialRotationProofs (`RotationAssumption`)

* `TypeCorrect`: `Spec => []TypeOK`. `TypeInv` ties the secret to the number of changes.
* `PasswordNeverLost`: `Spec => []KnownPassword`. `PasswordInv`: before the user exists nothing is recorded and no
  copy made (`NoUserYet`); from the first copy on the role has the password of the copy, except from ALTER ROLE to the
  renewal of the copy (`RoleKnown`).

### ServicesOperatorProofs (`ServicesAssumption`)

`ProgramInv` says which step can follow which, and in which component: a program is a chain
(`Linked`) for exactly the selected components. It is proved of the builders, of a tail, and
of what the ssh step puts in front.

* `TypeCorrect`: `Spec => []TypeOK`.
* `KeysNeverReplaced`: `Spec => KeysKept`, an action property. `KeysInv`: while nothing was misread, a private key is stored after
  its public one, the secret is a copy of complete rows, pods have the key of the secret,
  and the pair in the hands of the ssh step is a new one until it is stored and the stored one from
  then on. Two INSERTs therefore only overwrite what nobody has been given.
* `KeyspaceIsReplicated`: `Spec => []KeyspaceFollowsSchema`. `KeyspaceInv`: while no more than one pair
  was generated, there is no keyspace until the pass that generated it creates one; a pass that is past the keyspace
  (`PastKeyspace`) has created or altered it for its target, and a component nobody touched is still as recorded
  (`KeyspaceDone`).
* `PortsStayInAgreement`: `Spec => []PortsAgree`, and `BackupCanReachNodes`: `Spec => []BackupReachesEveryNode`.
  `AppliedInv`: a component that no failed pass touched is as the recorded specification wants it (`Done`), and during
  a pass every component it is for is still pending or done for the target. A component that the pass skips carries over:
  its own part and the common part are those of the recorded specification. `HeadInv` follows
  a component through its steps; `PodsInv` has that Cassandra keeps the nodes of the schema once it has them, so that a
  list of pods that did not fail names them all.

### DbaasAdapterProofs (`AdapterAssumption`)

* `TypeCorrect`: `Spec => []TypeOK`.
* `NothingLeft`: `Spec => []RollbackLeavesNothing`. `RollbackInv` adds to the types
  that a keyspace and a password are owned by a request of the kind that writes them and
  that is far enough to have written them (`Owned`), and that a rollback past its
  first or second `DROP` has left no keyspace (`KeyspaceDropped`) or role
  (`RoleDropped`) of its own. Other requests cannot bring them back: each writes its own
  identity only.
* `DatabasesUsable`: `Spec => []DatabaseUsable`, and `UsersUsable`: `Spec => []UserUsable`. `Progress` says what a request has
  written by the statement it is at, as long as no request that it has to fear has run; a
  request that ended earlier runs no statement any more (`EarlierEnded`), and a name has a password only of a
  request that carries it (`RoleOwned`). `UsersUsable` promises a permission for the roles that have any.

### BackupRestoreProofs (`BackupAssumption`)

`Control` says where a restore can be; it makes the types inductive.

* `TypeCorrect`: `Spec => []TypeOK`.
* `BackupComplete`: `Spec => []BackupHoldsCluster`. Until the first restore nothing goes away (`NothingGone`), so that a host finds
  the rows it stores whenever it comes to a keyspace (`HostProgress`); every row has a host. It finds the roles
  that had permissions in the beginning and no others, so that, if each has a hash and there are two, the loop saves all of them.
* `NoPermissionLost`, `ClonesComplete`, `RestoresRevert`: `GrantsKept`, `CloneHoldsBackup`, `RestoreReverts`. The first
  holds of what is in the archives, under the rewritten name in a clone, and of every permission that does not go with a
  keyspace or table the restore drops. Their
  invariants (`GrantInv`, `CloneInv`, `RevertInv`) describe a restore by the keyspaces it is through with (`Passed`), the
  archives of the current one (`HostDone`) and the tables of the open one (`Loaded`). All three rest on
  `FirstOnly`: what a keyspace loses is dropped at its first archive.

### Only model-checked

* Liveness (both `EventuallyApplied`, `RotationCompletes`, `SmokeHeals`): out of the prover's reach.
* The third condition of `EditAllowed`, which is an assumption.
* The four properties of the runs that expect a violation do not hold.

## 5. Findings

* `CreatedDatabaseKept` (run `dbaas_rollback`): the rollback of `CreateDatabase` drops
  the keyspace also when the failed statement was `CREATE KEYSPACE` itself.
* `MetadataReturned` (run `dbaas_metadata`): `GetMetadata` takes the first row of a
  table that holds two.
* `RestoreComplete` (run `restore_complete`): without `dbmap`, `restore_keyspace` drops and
  recreates the table once per host archive, and what the earlier archives loaded goes
  with it. Clones are not affected (`CloneHoldsBackup`); nor are rows with a replica
  on every host.
* `BackupHoldsRoles` (run `backup_roles`): `backup_roles` returns at the first role without a password
  hash, and at once for a single role; `main` ignores that and reports the backup as successful.

Two errors of the adapter that its client is not told of are modelled, and can be read off the model without a run:
`CreateUser` goes on with a role that is not supported (`db_admin.go:507-509`), and the settings handler
answers success after `EnsureMetadataTable` failed (`db_admin.go:257-275`).

## 6. Not modelled, and the plan

Every part with state of its own is modelled. Left out:

* object templates, services, config maps and Consul registration of the Cassandra
  operator: formatting and one API call each, and no other step reads the result back;
* the mount-settings part of `InitialValidations`, the flush request, list and file modes
  of the backup daemon, reading requests of the adapter: they change no state;
* the operator core, the credential manager and the DBaaS core: other repositories,
  modelled where the code here relies on them;
* the AWS restore script (called by nothing), generated deep-copy functions, images, charts
  and robot tests.

The plan of the proofs is carried out: what is left to TLC is liveness, and the link between the proofs about
names and those about the deployment (`PlansFit`, `NodesAreCarriedOver`) is made for each condition by itself and not by
instantiating one module in the other.
