---------------------------- MODULE MultiCluster ----------------------------
(***************************************************************************)
(* One Cassandra ring over several Kubernetes clusters, each with an       *)
(* operator and a custom resource of its own. Data centre c is the one     *)
(* that the operator of cluster c deploys (deploy = true in its resource); *)
(* the other data centres of the schema have deploy = false there. The     *)
(* operators never talk to each other: each counts the nodes it sees in    *)
(* system.peers to find out whether the ring is complete, and alters the   *)
(* replication of shared keyspaces on the answer.                          *)
(*                                                                         *)
(* The steps of a pass that only concern one cluster are in module         *)
(* CassandraDeploy; here a rollout is the joining of the missing nodes. A  *)
(* node that has joined is in system.peers of every other one.             *)
(***************************************************************************)
EXTENDS Integers, Sequences, FiniteSets
LOCAL INSTANCE Functions

CONSTANTS
  N,            \* the number of clusters
  MaxReplicas,  \* bound on the nodes of a data centre
  Plan,         \* the schemas an administrator writes into a custom resource
  MaxEdits,     \* bound on the edits of all custom resources
  MaxFailures,  \* bound on the passes that fail
  None          \* nothing there

ASSUME MultiClusterAssumption ==
  /\ N \in Nat \ {0} /\ MaxReplicas \in Nat \ {0}
  /\ MaxEdits \in Nat /\ MaxFailures \in Nat
  /\ Plan \subseteq [1..N -> 0..MaxReplicas]
  /\ None \notin 1..N /\ None \notin [1..N -> 0..MaxReplicas]

Clusters == 1..N
SystemKeyspaces == <<"system_traces", "system_distributed", "system_auth">>
Keyspaces == {SystemKeyspaces[i] : i \in 1..Len(SystemKeyspaces)} \cup {"reaper_db"}

\* The active replicas of every data centre; one that has none is not there.
Schemas == [Clusters -> 0..MaxReplicas]
Empty == [d \in Clusters |-> 0]

NoAnswer == [replication |-> Empty, ring |-> Empty, sound |-> TRUE]

Steps == {"idle", "createPVC", "roll", "cleanup", "topology", "alter", "reaper",
          "createReaper", "alterReaper", "rebuildCheck", "rebuild", "done"}

VARIABLES
  schema,    \* per cluster, the schema in its custom resource
  recorded,  \* the schema recorded as last applied
  target,    \* the schema of the running pass
  pc,        \* the step it is at
  type,      \* its deploy type
  answer,    \* what GetReplicationFactor returned, and the ring it counted
  index,     \* the keyspace or the pod the step is at
  claims,    \* clusters with persistent volume claims
  ring,      \* the nodes of every data centre that have joined
  replication,   \* of every shared keyspace, None when it does not exist
  rebuilt,   \* clusters all nodes of which were rebuilt
  edits, fails,
  raced,     \* history: keyspaces last altered on an answer the ring had outgrown,
             \* or that was given without counting it
  misled,    \* history: keyspaces last altered on an answer to a resource that
             \* contradicted the ring
  doubted,   \* history: clusters whose resource did, or that could not count,
             \* when they thought of a rebuild
  aborted,   \* history: clusters whose first pass failed, so that it became an update
  last       \* history: the cluster whose first rollout was completed last

passVars == <<target, pc, type, answer, index>>
sharedVars == <<ring, replication, rebuilt>>
history == <<raced, misled, doubted, aborted, last>>
vars == <<schema, recorded, passVars, claims, sharedVars, edits, fails, history>>

TypeOK ==
  /\ schema \in [Clusters -> Schemas] /\ target \in [Clusters -> Schemas]
  /\ recorded \in [Clusters -> Schemas \cup {None}]
  /\ pc \in [Clusters -> Steps]
  /\ type \in [Clusters -> {"clean", "update"}]
  /\ answer \in [Clusters -> [replication : Schemas, ring : Schemas, sound : BOOLEAN]]
  /\ index \in [Clusters -> 1..Len(SystemKeyspaces) + MaxReplicas]
  /\ \A c \in Clusters :
       /\ pc[c] = "alter" => index[c] <= Len(SystemKeyspaces)
       /\ pc[c] = "rebuild" => index[c] <= ring[c]
  /\ claims \subseteq Clusters /\ rebuilt \subseteq Clusters
  /\ ring \in Schemas
  /\ replication \in [Keyspaces -> Schemas \cup {None}]
  /\ edits \in 0..MaxEdits /\ fails \in 0..MaxFailures
  /\ raced \subseteq Keyspaces /\ misled \subseteq Keyspaces
  /\ doubted \subseteq Clusters /\ aborted \subseteq Clusters
  /\ last \in Clusters \cup {None}

Init ==
  /\ schema = [c \in Clusters |-> Empty] /\ target = schema
  /\ recorded = [c \in Clusters |-> None]
  /\ pc = [c \in Clusters |-> "idle"]
  /\ type = [c \in Clusters |-> "clean"]
  /\ answer = [c \in Clusters |-> NoAnswer]
  /\ index = [c \in Clusters |-> 1]
  /\ claims = {} /\ rebuilt = {} /\ ring = Empty
  \* Cassandra creates its own keyspaces without a data centre we know.
  /\ replication = [k \in Keyspaces |-> IF k = "reaper_db" THEN None ELSE Empty]
  /\ edits = 0 /\ fails = 0
  /\ raced = {} /\ misled = {} /\ doubted = {} /\ aborted = {} /\ last = None
-----------------------------------------------------------------------------
(* What an operator knows: its resource and the size of the ring.          *)

DataCenters(s) == {d \in Clusters : s[d] > 0}
NotDeployedHere(c) == DataCenters(target[c]) \ {c}
Sum(s) == FoldFunction(LAMBDA r, n : r + n, 0, s)

\* select count(*) from system.peers; -1 when the row could not be scanned.
ReplicasDeployed(counted) == IF counted THEN Sum(ring) - 1 ELSE -1

\* Contact points: the nodes of all data centres of the schema.
NewClusterBuilder(c) ==
  UNION {{<<d, i>> : i \in 1..target[c][d]} : d \in DataCenters(target[c])}
Session(c) ==
  \E d \in Clusters : \E i \in 1..ring[d] : <<d, i>> \in NewClusterBuilder(c)

\* Without a data centre of another cluster the answer is no.
IsAllDCsDeployed(c, counted) ==
  NotDeployedHere(c) # {} /\ ReplicasDeployed(counted) = Sum(target[c]) - 1

GetReplicationFactor(c, counted) ==
  [d \in Clusters |-> IF d = c \/ IsAllDCsDeployed(c, counted) THEN target[c][d] ELSE 0]

\* A count that fails is only logged, and the answer is no.
Counting(c, counted) ==
  \/ counted /\ UNCHANGED fails
  \/ ~counted /\ NotDeployedHere(c) # {} /\ fails < MaxFailures /\ fails' = fails + 1

(***************************************************************************)
(* The resource contradicts the ring: a data centre has more nodes than    *)
(* the operator believes, or fewer and its first rollout is not about to   *)
(* add the others.                                                         *)
(***************************************************************************)
Coming(c, d) ==
  \/ d \notin claims /\ pc[d] = "idle"
  \/ /\ type[d] = "clean" /\ pc[d] \in {"createPVC", "roll"}
     /\ target[d][d] = target[c][d]

Contradicted(c) ==
  \E d \in Clusters : \/ ring[d] > target[c][d]
                      \/ ring[d] < target[c][d] /\ ~Coming(c, d)

Ask(c) ==
  \E counted \in BOOLEAN :
    /\ Counting(c, counted)
    /\ answer' = [answer EXCEPT ![c] =
                    [replication |-> GetReplicationFactor(c, counted),
                     ring |-> IF counted THEN ring ELSE Empty,
                     sound |-> ~Contradicted(c)]]
-----------------------------------------------------------------------------
(* The steps of a pass.                                                    *)

Goto(c, step) == pc' = [pc EXCEPT ![c] = step]
\* The pass is over, and with it all it has read.
Forget(c) ==
  /\ Goto(c, "idle")
  /\ target' = [target EXCEPT ![c] = Empty]
  /\ type' = [type EXCEPT ![c] = "clean"]
  /\ answer' = [answer EXCEPT ![c] = NoAnswer]
  /\ index' = [index EXCEPT ![c] = 1]
unfailing == <<schema, recorded, target, type, claims, edits>>
rest == <<unfailing, fails>>

\* Reconcile: the deploy type is that of the moment.
StartPass(c) ==
  /\ pc[c] = "idle"
  /\ schema[c][c] > 0 /\ schema[c] # recorded[c]
  /\ target' = [target EXCEPT ![c] = schema[c]]
  /\ type' = [type EXCEPT ![c] = IF c \in claims THEN "update" ELSE "clean"]
  /\ Goto(c, "createPVC")
  /\ UNCHANGED <<schema, recorded, answer, index, claims, sharedVars, edits, fails, history>>

CreatePVC(c) ==
  /\ pc[c] = "createPVC"
  /\ claims' = claims \cup {c}
  /\ Goto(c, "roll")
  /\ UNCHANGED <<schema, recorded, target, type, answer, index, sharedVars, edits,
                 fails, history>>

NodeJoins(c) ==
  /\ pc[c] = "roll"
  /\ ring[c] < target[c][c]
  /\ ring' = [ring EXCEPT ![c] = @ + 1]
  /\ UNCHANGED <<rest, pc, answer, index, replication, rebuilt, history>>

RolloutDone(c) ==
  /\ pc[c] = "roll"
  /\ ring[c] >= target[c][c]
  /\ Goto(c, "cleanup")
  /\ last' = IF recorded[c] = None THEN c ELSE last
  /\ UNCHANGED <<rest, answer, index, sharedVars, raced, misled, doubted, aborted>>

\* "nodetool cleanup" on every pod when the ring is complete; the data it
\* removes, and its failures, are nobody's concern here.
CleanupNodes(c) ==
  /\ pc[c] = "cleanup" /\ Session(c)
  /\ Goto(c, "topology")
  /\ UNCHANGED <<rest, answer, index, sharedVars, history>>

\* Mutant: only an update alters the system keyspaces.
UpdateSystemKeyspacesTopologyInverted(c) ==
  /\ pc[c] = "topology" /\ Session(c)
  /\ IF type[c] = "update"
       THEN /\ Ask(c)
            /\ index' = [index EXCEPT ![c] = 1]
            /\ Goto(c, "alter")
       ELSE /\ Goto(c, "reaper")
            /\ UNCHANGED <<answer, index, fails>>
  /\ UNCHANGED <<unfailing, sharedVars, history>>

\* Only a clean deployment alters the system keyspaces. The answer is read once.
UpdateSystemKeyspacesTopology(c) ==
  /\ pc[c] = "topology" /\ Session(c)
  /\ IF type[c] = "clean"
       THEN /\ Ask(c)
            /\ index' = [index EXCEPT ![c] = 1]
            /\ Goto(c, "alter")
       ELSE /\ Goto(c, "reaper")
            /\ UNCHANGED <<answer, index, fails>>
  /\ UNCHANGED <<unfailing, sharedVars, history>>

Alter(c, k) ==
  /\ replication' = [replication EXCEPT ![k] = answer[c].replication]
  /\ raced' = IF answer[c].ring = ring THEN raced \ {k} ELSE raced \cup {k}
  /\ misled' = IF answer[c].sound THEN misled \ {k} ELSE misled \cup {k}

\* Mutant: the loop runs past the last keyspace before it ends.
AlterSystemKeyspacePastEnd(c) ==
  /\ pc[c] = "alter"
  /\ IF index[c] <= Len(SystemKeyspaces)
       THEN /\ Alter(c, SystemKeyspaces[index[c]])
            /\ index' = [index EXCEPT ![c] = @ + 1]
            /\ UNCHANGED pc
       ELSE /\ Goto(c, "reaper")
            /\ UNCHANGED <<index, replication, raced, misled>>
  /\ UNCHANGED <<rest, answer, ring, rebuilt, doubted, aborted, last>>

\* The repair of every keyspace on every pod follows the last ALTER; its
\* failure is only logged.
AlterSystemKeyspace(c) ==
  /\ pc[c] = "alter"
  /\ Alter(c, SystemKeyspaces[index[c]])
  /\ IF index[c] = Len(SystemKeyspaces)
       THEN Goto(c, "reaper") /\ UNCHANGED index
       ELSE index' = [index EXCEPT ![c] = @ + 1] /\ UNCHANGED pc
  /\ UNCHANGED <<rest, answer, ring, rebuilt, doubted, aborted, last>>

\* In every pass, whatever its type.
CassandraReaper(c) ==
  /\ pc[c] = "reaper" /\ Session(c)
  /\ Ask(c)
  /\ Goto(c, "createReaper")
  /\ UNCHANGED <<unfailing, index, sharedVars, history>>

CreateReaperKeyspace(c) ==
  /\ pc[c] = "createReaper"
  /\ IF replication["reaper_db"] = None THEN Alter(c, "reaper_db")
                                        ELSE UNCHANGED <<replication, raced, misled>>
  /\ Goto(c, "alterReaper")
  /\ UNCHANGED <<rest, answer, index, ring, rebuilt, doubted, aborted, last>>

\* Mutant: the replication of an existing keyspace is left as it is.
AlterReaperKeyspaceNot(c) ==
  /\ pc[c] = "alterReaper"
  /\ Goto(c, "rebuildCheck")
  /\ UNCHANGED <<rest, answer, index, sharedVars, history>>

AlterReaperKeyspace(c) ==
  /\ pc[c] = "alterReaper"
  /\ Alter(c, "reaper_db")
  /\ answer' = [answer EXCEPT ![c] = NoAnswer]
  /\ Goto(c, "rebuildCheck")
  /\ UNCHANGED <<rest, index, ring, rebuilt, doubted, aborted, last>>

\* Mutant: updates rebuild, clean deployments do not.
RebuildWantedUpdate(c, counted) == type[c] = "update" /\ IsAllDCsDeployed(c, counted)

RebuildWanted(c, counted) == type[c] = "clean" /\ IsAllDCsDeployed(c, counted)

NodetoolRebuildCondition(c) ==
  /\ pc[c] = "rebuildCheck" /\ Session(c)
  /\ \E counted \in BOOLEAN :
       /\ Counting(c, counted)
       /\ Goto(c, IF RebuildWanted(c, counted) THEN "rebuild" ELSE "done")
       /\ doubted' = IF counted /\ ~Contradicted(c) THEN doubted ELSE doubted \cup {c}
  /\ index' = [index EXCEPT ![c] = 1]
  /\ UNCHANGED <<unfailing, answer, sharedVars, raced, misled, aborted, last>>

\* One pod after another.
NodetoolRebuild(c) ==
  /\ pc[c] = "rebuild"
  /\ IF index[c] = ring[c]
       THEN /\ rebuilt' = rebuilt \cup {c}
            /\ Goto(c, "done")
            /\ UNCHANGED index
       ELSE /\ index' = [index EXCEPT ![c] = @ + 1]
            /\ UNCHANGED <<rebuilt, pc>>
  /\ UNCHANGED <<rest, answer, ring, replication, history>>

Finish(c) ==
  /\ pc[c] = "done"
  /\ recorded' = [recorded EXCEPT ![c] = target[c]]
  /\ Forget(c)
  /\ UNCHANGED <<schema, claims, sharedVars, edits, fails, history>>

PassFails(c) ==
  /\ pc[c] # "idle"
  /\ fails < MaxFailures /\ fails' = fails + 1
  /\ Forget(c)
  /\ aborted' = IF recorded[c] = None /\ c \in claims THEN aborted \cup {c} ELSE aborted
  /\ UNCHANGED <<schema, recorded, claims, sharedVars, edits, raced, misled, doubted, last>>

\* The administrator adds data centres or nodes to the resource of a cluster,
\* or creates it.
Edit(c) ==
  /\ edits < MaxEdits /\ edits' = edits + 1
  /\ \E s \in Plan \ {schema[c]} :
       /\ s[c] > 0 /\ \A d \in Clusters : s[d] >= schema[c][d]
       /\ schema' = [schema EXCEPT ![c] = s]
  /\ UNCHANGED <<recorded, passVars, claims, sharedVars, fails, history>>

Step(c) ==
  \/ StartPass(c) \/ CreatePVC(c) \/ NodeJoins(c) \/ RolloutDone(c) \/ CleanupNodes(c)
  \/ UpdateSystemKeyspacesTopology(c) \/ AlterSystemKeyspace(c)
  \/ CassandraReaper(c) \/ CreateReaperKeyspace(c) \/ AlterReaperKeyspace(c)
  \/ NodetoolRebuildCondition(c) \/ NodetoolRebuild(c) \/ Finish(c)

Next == \E c \in Clusters : Step(c) \/ PassFails(c) \/ Edit(c)

Spec == Init /\ [][Next]_vars
-----------------------------------------------------------------------------
(* Properties, of a ring that has come to rest: every operator has applied *)
(* its resource, and all resources describe the ring.                      *)

AtRest ==
  /\ ring # Empty
  /\ \A c \in DataCenters(ring) :
       pc[c] = "idle" /\ recorded[c] = schema[c] /\ schema[c] = ring

(***************************************************************************)
(* The operator that completes the ring replicates the system keyspaces to *)
(* every data centre, and no other operator takes that back - unless it    *)
(* writes an answer that the ring has outgrown meanwhile, that was given   *)
(* without counting the ring or that its resource got wrong, or the        *)
(* operator that completed the ring failed in its first pass, which is not *)
(* repeated as a clean deployment.                                         *)
(***************************************************************************)
SystemKeyspacesSpanRing ==
  AtRest /\ last \notin aborted
    => \A k \in Keyspaces \ ({"reaper_db"} \cup raced \cup misled) :
         DataCenters(replication[k]) = DataCenters(ring)

(***************************************************************************)
(* The reaper's keyspace, which every pass alters, has exactly the nodes   *)
(* of the ring, however passes of several operators were interleaved and   *)
(* wherever they failed; again with the exception of an outdated answer or *)
(* one given without counting.                                             *)
(***************************************************************************)
ReaperSpansRing ==
  AtRest /\ "reaper_db" \notin raced => replication["reaper_db"] = ring

(***************************************************************************)
(* The data centre that completes a ring of several has been rebuilt from  *)
(* another one, although the operator asks for the size of the ring a      *)
(* second time, long after it altered the keyspaces - unless a failed      *)
(* count, or a resource that contradicts the ring by then, says no.        *)
(***************************************************************************)
NewDataCentreRebuilt ==
  ( /\ AtRest /\ Cardinality(DataCenters(ring)) > 1
    /\ last \notin aborted \cup doubted )
  => last \in rebuilt
=============================================================================
