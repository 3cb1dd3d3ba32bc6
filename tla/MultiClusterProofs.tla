-------------------------- MODULE MultiClusterProofs --------------------------
(***************************************************************************)
(* Theorems about MultiCluster for any number of Kubernetes clusters, any  *)
(* schemas and any number of edits and failures: type correctness, and     *)
(* what a ring that has come to rest looks like.                           *)
(***************************************************************************)
EXTENDS MultiCluster, FiniteSetTheorems, TLAPS

PostRoll == {"cleanup", "topology", "alter", "reaper", "createReaper", "alterReaper",
             "rebuildCheck", "rebuild", "done"}
\* Resources and the ring only grow.
Below(s, r) == \A d \in Clusters : s[d] <= r[d]

(***************************************************************************)
(* How a pass relates to the resource, the record, the claims and the      *)
(* ring. The pass of a cluster without a record is a clean one until it    *)
(* fails.                                                                  *)
(***************************************************************************)
PassInv(c) ==
  /\ pc[c] # "idle" => Below(target[c], schema[c]) /\ target[c][c] > 0
  /\ recorded[c] # None =>
       /\ c \in claims /\ last # None /\ Below(recorded[c], schema[c])
       /\ 0 < recorded[c][c] /\ recorded[c][c] <= ring[c]
  /\ pc[c] # "idle" /\ recorded[c] # None =>
       /\ Below(recorded[c], target[c]) /\ recorded[c] # target[c]
       /\ type[c] = "update"
  /\ pc[c] \notin {"idle", "createPVC"} => c \in claims
  /\ pc[c] \in PostRoll => ring[c] >= target[c][c] /\ last # None
  /\ ring[c] > 0 => c \in claims
  /\ c \in claims /\ recorded[c] = None /\ c \notin aborted =>
       pc[c] \notin {"idle", "createPVC"} /\ type[c] = "clean"
  /\ pc[c] = "createPVC" => (type[c] = "update" <=> c \in claims)
  /\ Below(answer[c].ring, ring)

LastInv ==
  last # None =>
    /\ ring[last] > 0
    /\ recorded[last] # None \/ pc[last] \in PostRoll \/ last \in aborted

RingInv == TypeOK /\ LastInv /\ \A c \in Clusters : PassInv(c)

(***************************************************************************)
(* The reaper's keyspace. An operator whose resource is the ring and that  *)
(* has applied it, or is about to record it, has altered the keyspace      *)
(* after the last node it added had joined.                                *)
(***************************************************************************)
Applied(c) ==
  /\ schema[c] = ring
  /\ \/ recorded[c] = ring
     \/ pc[c] \in {"rebuildCheck", "rebuild", "done"} /\ target[c] = ring

ReaperInv ==
  /\ \A c \in Clusters :
       pc[c] \in {"createReaper", "alterReaper"} /\ answer[c].ring = target[c] =>
         answer[c].replication = target[c]
  /\ "reaper_db" \notin raced /\ (\A c \in DataCenters(ring) : Applied(c)) =>
       ring = Empty \/ replication["reaper_db"] = ring

(***************************************************************************)
(* A first rollout that is still to be completed, and one for which nodes  *)
(* are still to join. While a data centre that is in the ring or in the    *)
(* resource of one in the ring is open, the ring is not at rest; when the  *)
(* last one is completed, its cluster is the last.                         *)
(***************************************************************************)
Open(d) == recorded[d] = None /\ pc[d] \notin PostRoll
WillJoin(d) ==
  /\ Open(d)
  /\ pc[d] = "idle" => ring[d] = 0 \/ ring[d] < schema[d][d]
  /\ pc[d] # "idle" => ring[d] < target[d][d]
Unfinished ==
  \E d \in Clusters :
    Open(d) /\ (ring[d] > 0 \/ \E c \in DataCenters(ring) : schema[c][d] > 0)

\* The operator of cluster c is through with the i-th keyspace.
PastAlter(c, i) ==
  \/ recorded[c] # None
  \/ pc[c] = "alter" /\ index[c] > i
  \/ pc[c] \in {"reaper", "createReaper", "alterReaper", "rebuildCheck", "rebuild", "done"}

SystemInv ==
  /\ \A c \in Clusters :
       pc[c] = "alter" /\ answer[c].sound /\ answer[c].ring = ring =>
         \/ DataCenters(answer[c].replication) = DataCenters(ring)
         \/ \E d \in Clusters : WillJoin(d) /\ target[c][d] > 0
  /\ \A i \in 1..Len(SystemKeyspaces) :
       ( /\ SystemKeyspaces[i] \notin raced \cup misled
         /\ last # None /\ last \notin aborted
         /\ PastAlter(last, i) /\ ~Unfinished )
       => DataCenters(replication[SystemKeyspaces[i]]) = DataCenters(ring)

RebuildInv ==
  ( /\ last # None /\ last \notin aborted \cup doubted
    /\ recorded[last] # None \/ pc[last] \in {"rebuild", "done"}
    /\ ~Unfinished )
  => \/ last \in rebuilt
     \/ pc[last] = "rebuild" /\ recorded[last] = None
     \/ DataCenters(ring) = {last}
-----------------------------------------------------------------------------
(* Types.                                                                  *)

\* The keyspaces, and the types of what actions compute.
LEMMA ConstantFacts ==
  /\ N \in Nat /\ MaxReplicas \in Nat /\ MaxReplicas > 0 /\ Clusters \subseteq Nat
  /\ MaxEdits \in Nat /\ MaxFailures \in Nat /\ Plan \subseteq Schemas
  /\ None \notin Clusters /\ None \notin Schemas /\ Empty \in Schemas
  /\ Len(SystemKeyspaces) = 3
  /\ \A i \in 1..3 : SystemKeyspaces[i] \in Keyspaces /\ SystemKeyspaces[i] # "reaper_db"
  /\ \A i, j \in 1..3 : SystemKeyspaces[i] = SystemKeyspaces[j] => i = j
  /\ "reaper_db" \in Keyspaces
<1>1. /\ N \in Nat /\ MaxReplicas \in Nat /\ MaxReplicas > 0 /\ Clusters \subseteq Nat
      /\ MaxEdits \in Nat /\ MaxFailures \in Nat /\ Plan \subseteq Schemas
      /\ None \notin Clusters /\ None \notin Schemas
  BY MultiClusterAssumption DEF Clusters, Schemas
<1>2. Empty \in Schemas
  BY <1>1 DEF Empty, Schemas
<1>3. Len(SystemKeyspaces) = 3
  BY DEF SystemKeyspaces
<1>4. /\ SystemKeyspaces[1] = "system_traces"
      /\ SystemKeyspaces[2] = "system_distributed"
      /\ SystemKeyspaces[3] = "system_auth"
  BY DEF SystemKeyspaces
<1>5. \A i \in 1..3 : i = 1 \/ i = 2 \/ i = 3
  OBVIOUS
<1>6. \A i \in 1..3 : SystemKeyspaces[i] \in Keyspaces
  BY <1>3 DEF Keyspaces
<1>7. \A i \in 1..3 : SystemKeyspaces[i] # "reaper_db"
  BY <1>4, <1>5
<1>8. \A i, j \in 1..3 : SystemKeyspaces[i] = SystemKeyspaces[j] => i = j
  BY <1>4, <1>5
<1>9. "reaper_db" \in Keyspaces
  BY DEF Keyspaces
<1> QED BY <1>1, <1>2, <1>3, <1>6, <1>7, <1>8, <1>9

\* A schema gives every data centre a number of replicas.
LEMMA SchemaValues ==
  \A s \in Schemas : \A d \in Clusters : s[d] \in Nat
<1>1. ASSUME NEW s \in Schemas, NEW d \in Clusters PROVE s[d] \in Nat
  <2>1. s[d] \in 0..MaxReplicas
    BY DEF Schemas
  <2> QED BY <2>1, ConstantFacts
<1> QED BY <1>1

\* The answer of GetReplicationFactor is a schema.
LEMMA AskTypes ==
  ASSUME TypeOK, NEW c \in Clusters, Ask(c)
  PROVE  /\ answer' \in [Clusters -> [replication : Schemas, ring : Schemas, sound : BOOLEAN]]
         /\ \A d \in Clusters \ {c} : answer'[d] = answer[d]
         /\ fails' \in 0..MaxFailures
         /\ \E counted \in BOOLEAN :
              /\ answer'[c].replication = GetReplicationFactor(c, counted)
              /\ answer'[c].ring = IF counted THEN ring ELSE Empty
              /\ answer'[c].sound <=> ~Contradicted(c)
<1>1. PICK counted \in BOOLEAN :
        /\ Counting(c, counted)
        /\ answer' = [answer EXCEPT ![c] =
                        [replication |-> GetReplicationFactor(c, counted),
                         ring |-> IF counted THEN ring ELSE Empty,
                         sound |-> ~Contradicted(c)]]
  BY DEF Ask
<1>2. GetReplicationFactor(c, counted) \in Schemas
  BY ConstantFacts DEF GetReplicationFactor, Schemas, TypeOK
<1>3. (IF counted THEN ring ELSE Empty) \in Schemas
  BY ConstantFacts DEF TypeOK
<1> DEFINE G == GetReplicationFactor(c, counted)
           R == IF counted THEN ring ELSE Empty
           S == ~Contradicted(c)
<1>4. answer' = [answer EXCEPT ![c] = [replication |-> G, ring |-> R, sound |-> S]]
  BY <1>1
<1>5. S \in BOOLEAN /\ G \in Schemas /\ R \in Schemas
  BY <1>2, <1>3
<1> HIDE DEF G, R, S
<1>6. answer' \in [Clusters -> [replication : Schemas, ring : Schemas, sound : BOOLEAN]]
      /\ answer'[c] = [replication |-> G, ring |-> R, sound |-> S]
      /\ \A d \in Clusters \ {c} : answer'[d] = answer[d]
  BY <1>4, <1>5 DEF TypeOK
<1>7. answer'[c].replication = G /\ answer'[c].ring = R /\ answer'[c].sound = S
  BY <1>6
<1>8. /\ answer'[c].replication = GetReplicationFactor(c, counted)
      /\ answer'[c].ring = IF counted THEN ring ELSE Empty
      /\ answer'[c].sound <=> ~Contradicted(c)
  BY <1>7 DEF G, R, S
<1>9. fails' \in 0..MaxFailures
  <2>1. fails \in 0..MaxFailures /\ MaxFailures \in Nat
    BY ConstantFacts DEF TypeOK
  <2>2. fails' = fails \/ (fails < MaxFailures /\ fails' = fails + 1)
    BY <1>1 DEF Counting
  <2> QED BY <2>1, <2>2
<1> QED BY <1>6, <1>8, <1>9

\* Every action keeps the types.
LEMMA TypeNext ==
  ASSUME RingInv, NEW c \in Clusters, Step(c) \/ PassFails(c) \/ Edit(c)
  PROVE  TypeOK'
<1> USE DEF Goto, passVars, sharedVars, history, unfailing, rest, Steps
<1>1. TypeOK /\ PassInv(c)
  BY DEF RingInv
<1>2. NoAnswer \in [replication : Schemas, ring : Schemas, sound : BOOLEAN]
  BY ConstantFacts DEF NoAnswer
<1>3. /\ 1 \in 1..Len(SystemKeyspaces) + MaxReplicas
      /\ Len(SystemKeyspaces) = 3
  BY ConstantFacts
<1>4. \A d \in Clusters, s \in Schemas : s[d] \in 0..MaxReplicas
  BY DEF Schemas
<1>5. CASE StartPass(c)
  BY <1>1, <1>5 DEF StartPass, TypeOK
<1>6. CASE CreatePVC(c)
  BY <1>1, <1>6 DEF CreatePVC, TypeOK
<1>7. CASE NodeJoins(c)
  <2>1. ring' \in Schemas /\ ring'[c] >= ring[c] /\ \A d \in Clusters \ {c} : ring'[d] = ring[d]
    BY <1>1, <1>4, <1>7, ConstantFacts DEF NodeJoins, TypeOK, Schemas
  <2>2. pc[c] = "roll"
    BY <1>7 DEF NodeJoins
  <2> QED BY <1>1, <1>7, <2>1, <2>2 DEF NodeJoins, TypeOK
<1>8. CASE RolloutDone(c)
  BY <1>1, <1>8 DEF RolloutDone, TypeOK
<1>9. CASE CleanupNodes(c)
  BY <1>1, <1>9 DEF CleanupNodes, TypeOK
<1>10. CASE UpdateSystemKeyspacesTopology(c)
  <2>1. CASE type[c] = "clean"
    <3>1. Ask(c) /\ index' = [index EXCEPT ![c] = 1] /\ pc' = [pc EXCEPT ![c] = "alter"]
          /\ UNCHANGED <<unfailing, sharedVars, history>>
      BY <1>10, <2>1 DEF UpdateSystemKeyspacesTopology
    <3>2. answer' \in [Clusters -> [replication : Schemas, ring : Schemas, sound : BOOLEAN]]
          /\ fails' \in 0..MaxFailures
      BY <1>1, <3>1, AskTypes
    <3>3. index' \in [Clusters -> 1..Len(SystemKeyspaces) + MaxReplicas] /\ index'[c] = 1
          /\ \A d \in Clusters \ {c} : index'[d] = index[d] /\ pc'[d] = pc[d]
      BY <1>1, <1>3, <3>1 DEF TypeOK
    <3> QED BY <1>1, <1>3, <3>1, <3>2, <3>3 DEF TypeOK
  <2>2. CASE type[c] # "clean"
    BY <1>1, <1>10, <2>2 DEF UpdateSystemKeyspacesTopology, TypeOK
  <2> QED BY <2>1, <2>2
<1>11. ASSUME NEW k \in Keyspaces, Alter(c, k)
       PROVE  /\ replication' \in [Keyspaces -> Schemas \cup {None}]
              /\ raced' \subseteq Keyspaces /\ misled' \subseteq Keyspaces
  <2>1. answer[c].replication \in Schemas
    BY <1>1 DEF TypeOK
  <2> QED BY <1>1, <1>11, <2>1 DEF Alter, TypeOK
<1>12. CASE AlterSystemKeyspace(c)
  <2>1. index[c] \in 1..3 /\ pc[c] = "alter" /\ Alter(c, SystemKeyspaces[index[c]])
    <3>1. pc[c] = "alter" /\ Alter(c, SystemKeyspaces[index[c]])
      BY <1>12 DEF AlterSystemKeyspace
    <3>2. index[c] \in 1..Len(SystemKeyspaces) + MaxReplicas /\ index[c] <= Len(SystemKeyspaces)
      BY <1>1, <3>1 DEF TypeOK
    <3> QED BY <1>3, <3>1, <3>2, ConstantFacts
  <2>2. /\ replication' \in [Keyspaces -> Schemas \cup {None}]
        /\ raced' \subseteq Keyspaces /\ misled' \subseteq Keyspaces
    BY <1>11, <2>1, ConstantFacts
  <2>3. CASE index[c] = Len(SystemKeyspaces)
    BY <1>1, <1>12, <2>2, <2>3 DEF AlterSystemKeyspace, TypeOK
  <2>4. CASE index[c] # Len(SystemKeyspaces)
    <3>1. index' = [index EXCEPT ![c] = @ + 1] /\ pc' = pc
      BY <1>12, <2>4 DEF AlterSystemKeyspace
    <3>2. index' \in [Clusters -> 1..Len(SystemKeyspaces) + MaxReplicas]
          /\ index'[c] <= Len(SystemKeyspaces)
          /\ \A d \in Clusters \ {c} : index'[d] = index[d]
      BY <1>1, <1>3, <2>1, <2>4, <3>1, ConstantFacts DEF TypeOK
    <3> QED BY <1>1, <1>12, <2>1, <2>2, <3>1, <3>2 DEF AlterSystemKeyspace, TypeOK
  <2> QED BY <2>3, <2>4
<1>13. CASE CassandraReaper(c)
  BY <1>1, <1>13, AskTypes DEF CassandraReaper, TypeOK
<1>14. CASE CreateReaperKeyspace(c)
  <2>1. /\ replication' \in [Keyspaces -> Schemas \cup {None}]
        /\ raced' \subseteq Keyspaces /\ misled' \subseteq Keyspaces
    BY <1>1, <1>11, <1>14, ConstantFacts DEF CreateReaperKeyspace, TypeOK
  <2> QED BY <1>1, <1>14, <2>1 DEF CreateReaperKeyspace, TypeOK
<1>15. CASE AlterReaperKeyspace(c)
  <2>1. /\ replication' \in [Keyspaces -> Schemas \cup {None}]
        /\ raced' \subseteq Keyspaces /\ misled' \subseteq Keyspaces
    BY <1>11, <1>15, ConstantFacts DEF AlterReaperKeyspace
  <2> QED BY <1>1, <1>2, <1>15, <2>1 DEF AlterReaperKeyspace, TypeOK
<1>16. CASE NodetoolRebuildCondition(c)
  <2>1. PICK counted \in BOOLEAN :
          /\ Counting(c, counted)
          /\ Goto(c, IF RebuildWanted(c, counted) THEN "rebuild" ELSE "done")
          /\ doubted' = IF counted /\ ~Contradicted(c) THEN doubted ELSE doubted \cup {c}
    BY <1>16 DEF NodetoolRebuildCondition
  <2>2. fails' \in 0..MaxFailures
    BY <1>1, <2>1, ConstantFacts DEF Counting, TypeOK
  <2>3. 1 <= ring[c]
    BY <1>1, <1>4, <1>16, ConstantFacts
      DEF NodetoolRebuildCondition, PassInv, PostRoll, TypeOK
  <2>4. index' = [index EXCEPT ![c] = 1] /\ pc[c] = "rebuildCheck"
    BY <1>16 DEF NodetoolRebuildCondition
  <2>5. pc' \in [Clusters -> Steps] /\ pc'[c] \in {"rebuild", "done"}
    BY <1>1, <2>1 DEF TypeOK
  <2>6. doubted' \subseteq Clusters
    BY <1>1, <2>1 DEF TypeOK
  <2> QED BY <1>1, <1>3, <1>16, <2>1, <2>2, <2>3, <2>4, <2>5, <2>6
       DEF NodetoolRebuildCondition, TypeOK
<1>17. CASE NodetoolRebuild(c)
  <2>1. pc[c] = "rebuild" /\ index[c] \in Nat /\ index[c] <= ring[c] /\ ring[c] \in 0..MaxReplicas
    BY <1>1, <1>3, <1>4, <1>17, ConstantFacts DEF NodetoolRebuild, TypeOK
  <2>2. CASE index[c] = ring[c]
    BY <1>1, <1>17, <2>2 DEF NodetoolRebuild, TypeOK
  <2>3. CASE index[c] # ring[c]
    <3>1. index' = [index EXCEPT ![c] = @ + 1] /\ pc' = pc
      BY <1>17, <2>3 DEF NodetoolRebuild
    <3>2. index' \in [Clusters -> 1..Len(SystemKeyspaces) + MaxReplicas]
          /\ index'[c] <= ring[c]
          /\ \A d \in Clusters \ {c} : index'[d] = index[d]
      BY <1>1, <1>3, <2>1, <2>3, <3>1, ConstantFacts DEF TypeOK
    <3> QED BY <1>1, <1>17, <2>1, <2>3, <3>1, <3>2 DEF NodetoolRebuild, TypeOK
  <2> QED BY <2>2, <2>3
<1>18. CASE Finish(c)
  BY <1>1, <1>2, <1>3, <1>18, ConstantFacts DEF Finish, Forget, TypeOK
<1>19. CASE PassFails(c)
  <2>1. fails' \in 0..MaxFailures /\ aborted' \subseteq Clusters
    <3>1. fails \in 0..MaxFailures /\ MaxFailures \in Nat /\ aborted \subseteq Clusters
      BY <1>1, ConstantFacts DEF TypeOK
    <3>2. fails < MaxFailures /\ fails' = fails + 1
          /\ (aborted' = aborted \/ aborted' = aborted \cup {c})
      BY <1>19 DEF PassFails
    <3> QED BY <3>1, <3>2
  <2> QED BY <1>1, <1>2, <1>3, <1>19, <2>1, ConstantFacts DEF PassFails, Forget, TypeOK
<1>20. CASE Edit(c)
  <2>1. edits' \in 0..MaxEdits
    BY <1>1, <1>20, ConstantFacts DEF Edit, TypeOK
  <2> QED BY <1>1, <1>20, <2>1, ConstantFacts DEF Edit, TypeOK
<1> QED BY <1>5, <1>6, <1>7, <1>8, <1>9, <1>10, <1>12, <1>13, <1>14, <1>15, <1>16, <1>17, <1>18,
           <1>19, <1>20 DEF Step
-----------------------------------------------------------------------------
(* What one operator leaves to the others.                                 *)

Frame(c) ==
  /\ \A d \in Clusters \ {c} :
       /\ schema'[d] = schema[d] /\ recorded'[d] = recorded[d] /\ target'[d] = target[d]
       /\ pc'[d] = pc[d] /\ type'[d] = type[d] /\ answer'[d] = answer[d]
       /\ index'[d] = index[d] /\ ring'[d] = ring[d]
       /\ d \in claims' <=> d \in claims
       /\ d \in aborted' <=> d \in aborted
  /\ ring'[c] >= ring[c]
  /\ claims \subseteq claims' /\ aborted \subseteq aborted'
  /\ rebuilt \subseteq rebuilt' /\ doubted \subseteq doubted'
  /\ last' = last \/ last' = c

\* A step of an operator, or an edit of its resource, is framed so.
LEMMA StepFrame ==
  ASSUME RingInv, NEW c \in Clusters, Step(c) \/ PassFails(c) \/ Edit(c)
  PROVE  Frame(c)
<1> USE DEF Goto, passVars, sharedVars, history, unfailing, rest, Frame
<1>1. /\ schema \in [Clusters -> Schemas] /\ target \in [Clusters -> Schemas]
      /\ recorded \in [Clusters -> Schemas \cup {None}]
      /\ pc \in [Clusters -> Steps] /\ type \in [Clusters -> {"clean", "update"}]
      /\ answer \in [Clusters -> [replication : Schemas, ring : Schemas, sound : BOOLEAN]]
      /\ index \in [Clusters -> 1..Len(SystemKeyspaces) + MaxReplicas]
      /\ ring \in [Clusters -> Int]
      /\ ring[c] >= ring[c] /\ ring[c] + 1 >= ring[c]
      /\ TypeOK
  BY ConstantFacts DEF RingInv, TypeOK, Schemas
<1>2. CASE StartPass(c)
  BY <1>1, <1>2 DEF StartPass
<1>3. CASE CreatePVC(c)
  BY <1>1, <1>3 DEF CreatePVC
<1>4. CASE NodeJoins(c)
  BY <1>1, <1>4 DEF NodeJoins
<1>5. CASE RolloutDone(c)
  BY <1>1, <1>5 DEF RolloutDone
<1>6. CASE CleanupNodes(c)
  BY <1>1, <1>6 DEF CleanupNodes
<1>7. CASE UpdateSystemKeyspacesTopology(c)
  <2>1. \A d \in Clusters \ {c} : answer'[d] = answer[d]
    BY <1>1, <1>7, AskTypes DEF UpdateSystemKeyspacesTopology
  <2>2. \A d \in Clusters \ {c} : pc'[d] = pc[d] /\ index'[d] = index[d]
    BY <1>1, <1>7 DEF UpdateSystemKeyspacesTopology
  <2> QED BY <1>1, <1>7, <2>1, <2>2 DEF UpdateSystemKeyspacesTopology
<1>8. CASE AlterSystemKeyspace(c)
  <2>1. \A d \in Clusters \ {c} : pc'[d] = pc[d] /\ index'[d] = index[d]
    BY <1>1, <1>8 DEF AlterSystemKeyspace
  <2> QED BY <1>1, <1>8, <2>1 DEF AlterSystemKeyspace
<1>9. CASE CassandraReaper(c)
  <2>1. \A d \in Clusters \ {c} : answer'[d] = answer[d]
    BY <1>1, <1>9, AskTypes DEF CassandraReaper
  <2> QED BY <1>1, <1>9, <2>1 DEF CassandraReaper
<1>10. CASE CreateReaperKeyspace(c)
  BY <1>1, <1>10 DEF CreateReaperKeyspace
<1>11. CASE AlterReaperKeyspace(c)
  BY <1>1, <1>11 DEF AlterReaperKeyspace
<1>12. CASE NodetoolRebuildCondition(c)
  <2>1. \A d \in Clusters \ {c} : pc'[d] = pc[d] /\ index'[d] = index[d]
    BY <1>1, <1>12 DEF NodetoolRebuildCondition
  <2>2. doubted \subseteq doubted'
    BY <1>12 DEF NodetoolRebuildCondition
  <2> QED BY <1>1, <1>12, <2>1, <2>2 DEF NodetoolRebuildCondition
<1>13. CASE NodetoolRebuild(c)
  <2>1. \A d \in Clusters \ {c} : pc'[d] = pc[d] /\ index'[d] = index[d]
    BY <1>1, <1>13 DEF NodetoolRebuild
  <2>2. rebuilt \subseteq rebuilt'
    BY <1>13 DEF NodetoolRebuild
  <2> QED BY <1>1, <1>13, <2>1, <2>2 DEF NodetoolRebuild
<1>14. CASE Finish(c)
  BY <1>1, <1>14 DEF Finish, Forget
<1>15. CASE PassFails(c)
  <2>1. aborted' = aborted \/ aborted' = aborted \cup {c}
    BY <1>15 DEF PassFails
  <2>2. aborted \subseteq aborted' /\ \A d \in Clusters \ {c} : d \in aborted' <=> d \in aborted
    BY <2>1
  <2>3. /\ pc' = [pc EXCEPT ![c] = "idle"] /\ target' = [target EXCEPT ![c] = Empty]
        /\ type' = [type EXCEPT ![c] = "clean"] /\ answer' = [answer EXCEPT ![c] = NoAnswer]
        /\ index' = [index EXCEPT ![c] = 1]
        /\ UNCHANGED <<schema, recorded, claims, ring, rebuilt, doubted, last>>
    BY <1>15 DEF PassFails, Forget
  <2>4. \A d \in Clusters \ {c} :
          /\ target'[d] = target[d] /\ pc'[d] = pc[d] /\ type'[d] = type[d]
          /\ answer'[d] = answer[d] /\ index'[d] = index[d]
    BY <1>1, <2>3
  <2>5. claims' = claims
    BY <2>3
  <2> QED BY <1>1, <2>2, <2>3, <2>4, <2>5 DEF Frame
<1>16. CASE Edit(c)
  BY <1>1, <1>16 DEF Edit
<1> QED BY <1>2, <1>3, <1>4, <1>5, <1>6, <1>7, <1>8, <1>9, <1>10, <1>11, <1>12, <1>13, <1>14,
           <1>15, <1>16 DEF Step

\* So PassInv of the others is kept.
LEMMA OthersKept ==
  ASSUME RingInv, TypeOK', NEW c \in Clusters, Frame(c), NEW d \in Clusters, d # c
  PROVE  PassInv(d)'
<1>1. PassInv(d) /\ TypeOK
  BY DEF RingInv
<1>2. \A e \in Clusters : ring[e] \in Int /\ ring'[e] \in Int /\ answer[d].ring[e] \in Int
      /\ ring[e] <= ring'[e]
  <2>1. ring \in Schemas /\ ring' \in Schemas /\ answer[d].ring \in Schemas
    BY <1>1 DEF TypeOK
  <2>2. \A e \in Clusters : ring[e] \in Int /\ ring'[e] \in Int /\ answer[d].ring[e] \in Int
    BY <2>1, SchemaValues
  <2>3. \A e \in Clusters : ring'[e] >= ring[e]
    BY <2>2 DEF Frame
  <2> QED BY <2>2, <2>3
<1>3. last # None => last' # None
  BY ConstantFacts DEF Frame
<1>4. Below(answer[d].ring, ring')
  BY <1>1, <1>2 DEF Below, PassInv
<1> QED BY <1>1, <1>3, <1>4 DEF PassInv, Frame, Below

\* Every step keeps PassInv of its own cluster.
LEMMA OwnKept ==
  ASSUME RingInv, TypeOK', NEW c \in Clusters, Step(c) \/ PassFails(c) \/ Edit(c)
  PROVE  PassInv(c)'
<1> USE DEF Goto, passVars, sharedVars, history, unfailing, rest, PostRoll
<1>1. PassInv(c) /\ TypeOK
  BY DEF RingInv
<1>2. /\ schema \in [Clusters -> Schemas] /\ target \in [Clusters -> Schemas]
      /\ recorded \in [Clusters -> Schemas \cup {None}]
      /\ pc \in [Clusters -> Steps] /\ type \in [Clusters -> {"clean", "update"}]
      /\ answer \in [Clusters -> [replication : Schemas, ring : Schemas, sound : BOOLEAN]]
      /\ ring \in Schemas /\ None \notin Schemas /\ None \notin Clusters
      /\ last \in Clusters \cup {None}
  BY <1>1, ConstantFacts DEF TypeOK
<1>3. \A s \in Schemas : \A d \in Clusters : s[d] \in Nat
  BY SchemaValues
<1>4. Below(NoAnswer.ring, ring)
  BY <1>2, <1>3 DEF NoAnswer, Below, Empty
<1>5. CASE StartPass(c)
  <2>1. /\ pc'[c] = "createPVC" /\ target'[c] = schema[c] /\ schema[c][c] > 0
        /\ schema[c] # recorded[c] /\ pc[c] = "idle"
        /\ type'[c] = IF c \in claims THEN "update" ELSE "clean"
        /\ UNCHANGED <<schema, recorded, answer, claims, ring, aborted, last>>
    BY <1>2, <1>5 DEF StartPass
  <2>2. Below(schema[c], schema[c])
    BY <1>2, <1>3 DEF Below
  <2> QED BY <1>1, <2>1, <2>2 DEF PassInv, Below
<1>6. CASE CreatePVC(c)
  <2>1. /\ pc'[c] = "roll" /\ pc[c] = "createPVC" /\ claims' = claims \cup {c}
        /\ UNCHANGED <<schema, recorded, target, type, answer, ring, aborted, last>>
    BY <1>2, <1>6 DEF CreatePVC
  <2>2. type[c] \in {"clean", "update"}
    BY <1>2
  <2>3. c \notin claims \/ type[c] # "clean"
    BY <1>1, <2>1 DEF PassInv
  <2>4. type[c] # "clean" => c \in claims
    BY <1>1, <2>1, <2>2 DEF PassInv
  <2> QED BY <1>1, <2>1, <2>2, <2>3, <2>4 DEF PassInv, Below
<1>7. CASE NodeJoins(c)
  <2>1. /\ pc[c] = "roll" /\ ring[c] < target[c][c] /\ ring' = [ring EXCEPT ![c] = @ + 1]
        /\ UNCHANGED <<schema, recorded, target, pc, type, answer, claims, aborted, last>>
    BY <1>7 DEF NodeJoins
  <2>2. ring'[c] = ring[c] + 1 /\ \A d \in Clusters : ring'[d] >= ring[d]
    BY <1>2, <1>3, <2>1 DEF Schemas
  <2>3. Below(answer[c].ring, ring')
    <3> SUFFICES ASSUME NEW d \in Clusters PROVE answer[c].ring[d] <= ring'[d]
      BY DEF Below
    <3>1. answer[c].ring[d] \in Nat /\ ring[d] \in Nat /\ answer[c].ring[d] <= ring[d]
      BY <1>1, <1>2, <1>3 DEF PassInv, Below
    <3>2. ring'[d] \in Nat /\ ring[d] <= ring'[d]
      BY <1>3, <2>2 DEF TypeOK
    <3> QED BY <3>1, <3>2
  <2>4. recorded[c] # None => recorded[c] \in Schemas
    BY <1>2
  <2>5. recorded[c] # None => 0 < recorded[c][c] /\ recorded[c][c] <= ring'[c]
    BY <1>1, <1>2, <1>3, <2>2, <2>4 DEF PassInv
  <2> QED BY <1>1, <2>1, <2>3, <2>5 DEF PassInv, Below
<1>8. CASE RolloutDone(c)
  <2>1. /\ pc[c] = "roll" /\ ring[c] >= target[c][c] /\ pc'[c] = "cleanup"
        /\ UNCHANGED <<schema, recorded, target, type, answer, claims, ring, aborted>>
        /\ last' = IF recorded[c] = None THEN c ELSE last
    BY <1>2, <1>8 DEF RolloutDone
  <2>2. last' # None
    BY <1>1, <1>2, <2>1 DEF PassInv
  <2> QED BY <1>1, <2>1, <2>2 DEF PassInv, Below
\* Steps of a pass from one point after the rollout to another.
<1>9. ASSUME pc[c] \in PostRoll, pc'[c] \in PostRoll,
             UNCHANGED <<schema, recorded, target, type, claims, ring, aborted, last>>,
             Below(answer'[c].ring, ring)
      PROVE  PassInv(c)'
  BY <1>1, <1>9 DEF PassInv, Below
<1>10. Below(answer[c].ring, ring)
  BY <1>1 DEF PassInv
<1>11. CASE CleanupNodes(c)
  BY <1>2, <1>9, <1>10, <1>11 DEF CleanupNodes
<1>12. ASSUME Ask(c) PROVE Below(answer'[c].ring, ring)
  <2>1. answer'[c].ring = ring \/ answer'[c].ring = Empty
    BY <1>1, <1>12, AskTypes
  <2> QED BY <1>2, <1>3, <2>1 DEF Below, Empty
<1>13. CASE UpdateSystemKeyspacesTopology(c)
  <2>1. pc[c] = "topology" /\ pc'[c] \in {"alter", "reaper"} /\ (Ask(c) \/ answer' = answer)
        /\ UNCHANGED <<schema, recorded, target, type, claims, ring, aborted, last>>
    BY <1>2, <1>13 DEF UpdateSystemKeyspacesTopology
  <2> QED BY <1>9, <1>10, <1>12, <2>1
<1>14. CASE AlterSystemKeyspace(c)
  <2>1. pc[c] = "alter" /\ pc'[c] \in {"alter", "reaper"} /\ answer' = answer
        /\ UNCHANGED <<schema, recorded, target, type, claims, ring, aborted, last>>
    BY <1>2, <1>14 DEF AlterSystemKeyspace
  <2> QED BY <1>9, <1>10, <2>1
<1>15. CASE CassandraReaper(c)
  <2>1. pc[c] = "reaper" /\ pc'[c] = "createReaper" /\ Ask(c)
        /\ UNCHANGED <<schema, recorded, target, type, claims, ring, aborted, last>>
    BY <1>2, <1>15 DEF CassandraReaper
  <2> QED BY <1>9, <1>12, <2>1
<1>16. CASE CreateReaperKeyspace(c)
  <2>1. pc[c] = "createReaper" /\ pc'[c] = "alterReaper" /\ answer' = answer
        /\ UNCHANGED <<schema, recorded, target, type, claims, ring, aborted, last>>
    BY <1>2, <1>16 DEF CreateReaperKeyspace
  <2> QED BY <1>9, <1>10, <2>1
<1>17. CASE AlterReaperKeyspace(c)
  <2>1. pc[c] = "alterReaper" /\ pc'[c] = "rebuildCheck" /\ answer'[c] = NoAnswer
        /\ UNCHANGED <<schema, recorded, target, type, claims, ring, aborted, last>>
    BY <1>2, <1>17 DEF AlterReaperKeyspace
  <2> QED BY <1>4, <1>9, <2>1
<1>18. CASE NodetoolRebuildCondition(c)
  <2>1. pc[c] = "rebuildCheck" /\ pc'[c] \in {"rebuild", "done"} /\ answer' = answer
        /\ UNCHANGED <<schema, recorded, target, type, claims, ring, aborted, last>>
    BY <1>2, <1>18 DEF NodetoolRebuildCondition
  <2> QED BY <1>9, <1>10, <2>1
<1>19. CASE NodetoolRebuild(c)
  <2>1. pc[c] = "rebuild" /\ pc'[c] \in {"rebuild", "done"} /\ answer' = answer
        /\ UNCHANGED <<schema, recorded, target, type, claims, ring, aborted, last>>
    BY <1>2, <1>19 DEF NodetoolRebuild
  <2> QED BY <1>9, <1>10, <2>1
<1>20. CASE Finish(c)
  <2>1. /\ pc[c] = "done" /\ pc'[c] = "idle" /\ recorded'[c] = target[c]
        /\ answer'[c] = NoAnswer
        /\ UNCHANGED <<schema, claims, ring, aborted, last>>
    BY <1>2, <1>20 DEF Finish, Forget
  <2>2. /\ c \in claims /\ last # None /\ Below(target[c], schema[c])
        /\ 0 < target[c][c] /\ ring[c] >= target[c][c] /\ target[c][c] <= ring[c]
    BY <1>1, <1>2, <1>3, <2>1 DEF PassInv
  <2>3. target[c] # None
    BY <1>2
  <2> QED BY <1>1, <1>4, <2>1, <2>2, <2>3 DEF PassInv, Below
<1>21. CASE PassFails(c)
  <2>1. /\ pc[c] # "idle" /\ pc'[c] = "idle" /\ answer'[c] = NoAnswer
        /\ UNCHANGED <<schema, recorded, claims, ring, last>>
        /\ aborted' = IF recorded[c] = None /\ c \in claims THEN aborted \cup {c} ELSE aborted
    BY <1>2, <1>21 DEF PassFails, Forget
  <2>2. recorded[c] = None /\ c \in claims => c \in aborted'
    BY <2>1
  <2> QED BY <1>1, <1>4, <2>1, <2>2 DEF PassInv, Below
<1>22. CASE Edit(c)
  <2>1. /\ schema'[c] \in Schemas /\ \A d \in Clusters : schema'[c][d] >= schema[c][d]
        /\ UNCHANGED <<recorded, target, pc, type, answer, claims, ring, aborted, last>>
    BY <1>2, <1>22, ConstantFacts DEF Edit
  <2>2. ASSUME NEW s \in Schemas, Below(s, schema[c]) PROVE Below(s, schema'[c])
    <3> SUFFICES ASSUME NEW d \in Clusters PROVE s[d] <= schema'[c][d]
      BY DEF Below
    <3>1. s[d] \in Nat /\ schema[c][d] \in Nat /\ schema'[c][d] \in Nat
      BY <1>2, <1>3, <2>1
    <3>2. s[d] <= schema[c][d] /\ schema'[c][d] >= schema[c][d]
      BY <2>1, <2>2 DEF Below
    <3> QED BY <3>1, <3>2
  <2>3. pc[c] # "idle" => Below(target[c], schema'[c])
    BY <1>1, <1>2, <2>2 DEF PassInv
  <2>4. recorded[c] # None => recorded[c] \in Schemas
    BY <1>2
  <2>5. recorded[c] # None => Below(recorded[c], schema'[c])
    BY <1>1, <2>2, <2>4 DEF PassInv
  <2> QED BY <1>1, <2>1, <2>3, <2>5 DEF PassInv, Below
<1> QED BY <1>5, <1>6, <1>7, <1>8, <1>11, <1>13, <1>14, <1>15, <1>16, <1>17, <1>18, <1>19,
           <1>20, <1>21, <1>22 DEF Step

\* Records are kept, and the pass of a cluster goes on after its rollout, ends
\* with a record or fails. The last cluster is one that has completed a rollout.
LEMMA OwnProgress ==
  ASSUME RingInv, NEW c \in Clusters, Step(c) \/ PassFails(c) \/ Edit(c)
  PROVE  /\ recorded[c] # None => recorded'[c] # None
         /\ pc[c] \in PostRoll =>
              recorded'[c] # None \/ pc'[c] \in PostRoll \/ c \in aborted'
         /\ last' = last \/ (last' = c /\ pc'[c] = "cleanup" /\ ring[c] > 0)
<1> USE DEF Goto, passVars, sharedVars, history, unfailing, rest, PostRoll
<1>1. PassInv(c) /\ TypeOK
  BY DEF RingInv
<1>2. /\ pc \in [Clusters -> Steps] /\ recorded \in [Clusters -> Schemas \cup {None}]
      /\ target[c] \in Schemas /\ None \notin Schemas
  BY <1>1, ConstantFacts DEF TypeOK
<1>3. CASE StartPass(c)
  BY <1>2, <1>3 DEF StartPass
<1>4. CASE CreatePVC(c)
  BY <1>2, <1>4 DEF CreatePVC
<1>5. CASE NodeJoins(c)
  BY <1>2, <1>5 DEF NodeJoins
<1>6. CASE RolloutDone(c)
  <2>1. pc[c] = "roll" /\ pc'[c] = "cleanup" /\ recorded' = recorded
        /\ ring[c] >= target[c][c] /\ (last' = c \/ last' = last)
    BY <1>2, <1>6 DEF RolloutDone
  <2>2. target[c][c] > 0 /\ target[c][c] \in Nat /\ ring[c] \in Nat
    BY <1>1, <1>2, <2>1, ConstantFacts DEF PassInv, TypeOK, Schemas
  <2> QED BY <2>1, <2>2
<1>7. CASE CleanupNodes(c)
  BY <1>2, <1>7 DEF CleanupNodes
<1>8. CASE UpdateSystemKeyspacesTopology(c)
  BY <1>2, <1>8 DEF UpdateSystemKeyspacesTopology
<1>9. CASE AlterSystemKeyspace(c)
  BY <1>2, <1>9 DEF AlterSystemKeyspace
<1>10. CASE CassandraReaper(c)
  BY <1>2, <1>10 DEF CassandraReaper
<1>11. CASE CreateReaperKeyspace(c)
  BY <1>2, <1>11 DEF CreateReaperKeyspace
<1>12. CASE AlterReaperKeyspace(c)
  BY <1>2, <1>12 DEF AlterReaperKeyspace
<1>13. CASE NodetoolRebuildCondition(c)
  <2>1. pc'[c] \in {"rebuild", "done"} /\ UNCHANGED <<recorded, last>>
    BY <1>2, <1>13 DEF NodetoolRebuildCondition
  <2> QED BY <2>1
<1>14. CASE NodetoolRebuild(c)
  BY <1>2, <1>14 DEF NodetoolRebuild
<1>15. CASE Finish(c)
  BY <1>2, <1>15 DEF Finish, Forget
<1>16. CASE PassFails(c)
  <2>1. pc[c] \in PostRoll => c \in claims
    BY <1>1 DEF PassInv
  <2> QED BY <1>2, <1>16, <2>1 DEF PassFails
<1>17. CASE Edit(c)
  BY <1>2, <1>17 DEF Edit
<1> QED BY <1>3, <1>4, <1>5, <1>6, <1>7, <1>8, <1>9, <1>10, <1>11, <1>12, <1>13, <1>14,
           <1>15, <1>16, <1>17 DEF Step

\* The last cluster keeps its nodes and its record, its pass or its failure.
LEMMA LastKept ==
  ASSUME RingInv, TypeOK', NEW c \in Clusters, Step(c) \/ PassFails(c) \/ Edit(c), Frame(c)
  PROVE  LastInv'
<1> SUFFICES ASSUME last' # None
             PROVE  /\ ring'[last'] > 0
                    /\ recorded'[last'] # None \/ pc'[last'] \in PostRoll \/ last' \in aborted'
  BY DEF LastInv
<1>1. TypeOK /\ LastInv /\ last' \in Clusters
  BY DEF RingInv, TypeOK
<1>2. \A d \in Clusters : ring[d] \in Nat /\ ring'[d] \in Nat
  BY <1>1, ConstantFacts DEF TypeOK, Schemas
<1>3. CASE last' = c /\ pc'[c] = "cleanup" /\ ring[c] > 0
  BY <1>2, <1>3 DEF Frame, PostRoll
<1>4. CASE last' = last
  <2>1. ring[last] > 0 /\ (recorded[last] # None \/ pc[last] \in PostRoll \/ last \in aborted)
    BY <1>1, <1>4 DEF LastInv
  <2>2. CASE last = c
    <3>1. ring'[c] > 0
      BY <1>2, <2>1, <2>2 DEF Frame
    <3>2. recorded'[c] # None \/ pc'[c] \in PostRoll \/ c \in aborted'
      BY <2>1, <2>2, OwnProgress DEF Frame
    <3> QED BY <1>4, <2>2, <3>1, <3>2
  <2>3. CASE last # c
    BY <1>1, <1>4, <2>1, <2>3 DEF Frame
  <2> QED BY <2>2, <2>3
<1> QED BY <1>3, <1>4, OwnProgress

\* RingInv holds in every reachable state.
LEMMA RingInvariant == Spec => []RingInv
<1>1. Init => RingInv
  <2> SUFFICES ASSUME Init PROVE RingInv
    OBVIOUS
  <2>1. /\ Empty \in Schemas /\ \A d \in Clusters : Empty[d] = 0
        /\ NoAnswer \in [replication : Schemas, ring : Schemas, sound : BOOLEAN]
        /\ NoAnswer.ring = Empty
    BY ConstantFacts DEF NoAnswer, Empty
  <2>2. TypeOK
    BY <2>1, ConstantFacts DEF Init, TypeOK, Steps
  <2>3. ASSUME NEW c \in Clusters PROVE PassInv(c)
    BY <2>1 DEF Init, PassInv, PostRoll, Below
  <2>4. LastInv
    BY DEF Init, LastInv
  <2> QED BY <2>2, <2>3, <2>4 DEF RingInv
<1>2. RingInv /\ [Next]_vars => RingInv'
  <2> SUFFICES ASSUME RingInv, [Next]_vars PROVE RingInv'
    OBVIOUS
  <2>1. CASE Next
    <3>1. PICK c \in Clusters : Step(c) \/ PassFails(c) \/ Edit(c)
      BY <2>1 DEF Next
    <3>2. TypeOK' /\ Frame(c)
      BY <3>1, TypeNext, StepFrame
    <3>3. \A d \in Clusters : PassInv(d)'
      BY <3>1, <3>2, OthersKept, OwnKept
    <3>4. LastInv'
      BY <3>1, <3>2, LastKept
    <3> QED BY <3>2, <3>3, <3>4 DEF RingInv
  <2>2. CASE UNCHANGED vars
    BY <2>2 DEF vars, passVars, sharedVars, history, RingInv, TypeOK, LastInv, PassInv, Below
  <2> QED BY <2>1, <2>2
<1> QED BY <1>1, <1>2, PTL DEF Spec

(***************************************************************************)
(* Every variable of the operators and of the ring keeps its type; in      *)
(* particular no loop over keyspaces or pods runs past its end.            *)
(***************************************************************************)
THEOREM TypeCorrect == Spec => []TypeOK
<1>1. RingInv => TypeOK
  BY DEF RingInv
<1> QED BY <1>1, RingInvariant, PTL
-----------------------------------------------------------------------------
(* The reaper's keyspace.                                                  *)

\* An operator whose resource is the ring it counts answers with the ring.
LEMMA CompleteAnswer ==
  ASSUME TypeOK, NEW c \in Clusters, ring = target[c]
  PROVE  GetReplicationFactor(c, TRUE) = target[c]
<1>1. target[c] \in Schemas
  BY DEF TypeOK
<1>2. target[c] = [d \in Clusters |-> target[c][d]]
  BY <1>1 DEF Schemas
<1>3. CASE NotDeployedHere(c) # {}
  <2>1. IsAllDCsDeployed(c, TRUE)
    BY <1>3 DEF IsAllDCsDeployed, ReplicasDeployed
  <2> QED BY <1>2, <2>1 DEF GetReplicationFactor
<1>4. CASE NotDeployedHere(c) = {}
  <2>1. ASSUME NEW d \in Clusters, d # c PROVE target[c][d] = 0
    <3>1. ~(target[c][d] > 0) /\ target[c][d] \in Nat
      BY <1>1, <1>4, <2>1, ConstantFacts DEF NotDeployedHere, DataCenters, Schemas
    <3> QED BY <3>1
  <2> QED BY <1>2, <2>1 DEF GetReplicationFactor
<1> QED BY <1>3, <1>4

\* A pass runs only while its resource is not yet recorded.
LEMMA RecordedAtRest ==
  ASSUME RingInv, NEW c \in Clusters, recorded[c] = schema[c]
  PROVE  pc[c] = "idle"
<1> SUFFICES ASSUME pc[c] # "idle" PROVE FALSE
  OBVIOUS
<1>1. PassInv(c) /\ TypeOK
  BY DEF RingInv
<1>2. /\ recorded[c] # None /\ recorded[c] \in Schemas
      /\ target[c] \in Schemas /\ schema[c] \in Schemas
  BY <1>1, ConstantFacts DEF TypeOK
<1>3. \A d \in Clusters : recorded[c][d] \in Int /\ target[c][d] \in Int
      /\ recorded[c][d] <= target[c][d] /\ target[c][d] <= recorded[c][d]
  BY <1>1, <1>2, ConstantFacts DEF PassInv, Below, Schemas
<1>4. \A d \in Clusters : recorded[c][d] = target[c][d]
  BY <1>3
<1>5. recorded[c] = target[c]
  BY <1>2, <1>4 DEF Schemas
<1> QED BY <1>1, <1>2, <1>5 DEF PassInv

\* What one operator has applied says nothing new unless the ring, the keyspace
\* or its own claim to have applied the ring changes.
LEMMA ReaperUntouched ==
  ASSUME ReaperInv, NEW c \in Clusters, Frame(c), ring' = ring, Applied(c)' => Applied(c),
         replication'["reaper_db"] = replication["reaper_db"],
         "reaper_db" \in raced' <=> "reaper_db" \in raced,
         "reaper_db" \notin raced', \A d \in DataCenters(ring') : Applied(d)'
  PROVE  ring' = Empty \/ replication'["reaper_db"] = ring'
<1>1. ASSUME NEW d \in DataCenters(ring) PROVE Applied(d)
  <2>1. d \in Clusters /\ d \in DataCenters(ring')
    BY <1>1 DEF DataCenters
  <2>2. Applied(d)'
    BY <2>1
  <2> QED BY <2>1, <2>2 DEF Applied, Frame
<1> QED BY <1>1 DEF ReaperInv

\* Every step keeps what the reaper's keyspace relies on.
LEMMA ReaperNext ==
  ASSUME RingInv, ReaperInv, RingInv', NEW c \in Clusters, Frame(c),
         Step(c) \/ PassFails(c) \/ Edit(c)
  PROVE  ReaperInv'
<1> USE DEF Goto, passVars, sharedVars, history, unfailing, rest
<1>1. PassInv(c) /\ TypeOK /\ TypeOK'
  BY DEF RingInv
<1>2. /\ schema \in [Clusters -> Schemas] /\ target \in [Clusters -> Schemas]
      /\ recorded \in [Clusters -> Schemas \cup {None}]
      /\ pc \in [Clusters -> Steps]
      /\ answer \in [Clusters -> [replication : Schemas, ring : Schemas, sound : BOOLEAN]]
      /\ ring \in Schemas /\ None \notin Schemas
      /\ replication \in [Keyspaces -> Schemas \cup {None}]
      /\ "reaper_db" \in Keyspaces
  BY <1>1, ConstantFacts DEF TypeOK
<1>3. \A s \in Schemas : \A d \in Clusters : s[d] \in Nat
  BY SchemaValues
<1> DEFINE Told(d) == pc[d] \in {"createReaper", "alterReaper"} /\ answer[d].ring = target[d] =>
                        answer[d].replication = target[d]
           Spans == "reaper_db" \notin raced /\ (\A d \in DataCenters(ring) : Applied(d)) =>
                      ring = Empty \/ replication["reaper_db"] = ring
<1>4. (\A d \in Clusters : Told(d)) /\ Spans
  BY DEF ReaperInv
<1>5. ASSUME Told(c)', Spans' PROVE ReaperInv'
  <2>1. ASSUME NEW d \in Clusters PROVE Told(d)'
    <3>1. CASE d = c
      BY <1>5, <3>1
    <3>2. CASE d # c
      BY <1>4, <3>2 DEF Frame
    <3> QED BY <3>1, <3>2
  <2> QED BY <1>5, <2>1 DEF ReaperInv
<1>6. ASSUME ring' = ring, Applied(c)' => Applied(c),
             replication'["reaper_db"] = replication["reaper_db"],
             "reaper_db" \in raced' <=> "reaper_db" \in raced
      PROVE  Spans'
  BY <1>6, ReaperUntouched
<1>7. ASSUME ring' = ring, schema' = schema, recorded' = recorded,
             pc'[c] \notin {"rebuildCheck", "rebuild", "done"}
      PROVE  Applied(c)' => Applied(c)
  BY <1>7 DEF Applied
<1> HIDE DEF Told, Spans
<1>8. ASSUME pc'[c] \notin {"createReaper", "alterReaper"} PROVE Told(c)'
  BY <1>8 DEF Told
<1>9. CASE StartPass(c)
  BY <1>2, <1>5, <1>6, <1>7, <1>8, <1>9 DEF StartPass
<1>10. CASE CreatePVC(c)
  BY <1>2, <1>5, <1>6, <1>7, <1>8, <1>10 DEF CreatePVC
<1>11. CASE NodeJoins(c)
  <2>1. /\ pc[c] = "roll" /\ ring' = [ring EXCEPT ![c] = @ + 1] /\ recorded' = recorded
        /\ pc' = pc
    BY <1>11 DEF NodeJoins
  <2>2. ring[c] \in Nat /\ ring'[c] = ring[c] + 1 /\ ring'[c] > 0
    BY <1>2, <1>3, <2>1 DEF Schemas
  <2>3. recorded[c] # ring'
    <3>1. CASE recorded[c] = None
      BY <1>1, <3>1, ConstantFacts DEF TypeOK
    <3>2. CASE recorded[c] # None
      <4>1. recorded[c][c] \in Nat /\ recorded[c][c] <= ring[c]
        BY <1>1, <1>2, <1>3, <3>2 DEF PassInv
      <4> QED BY <2>2, <4>1
    <3> QED BY <3>1, <3>2
  <2>4. ~Applied(c)'
    BY <2>1, <2>3 DEF Applied
  <2>5. c \in DataCenters(ring')
    BY <2>2 DEF DataCenters
  <2>6. Spans'
    BY <2>4, <2>5 DEF Spans
  <2> QED BY <1>5, <1>8, <2>1, <2>6
<1>12. CASE RolloutDone(c)
  BY <1>2, <1>5, <1>6, <1>7, <1>8, <1>12 DEF RolloutDone
<1>13. CASE CleanupNodes(c)
  BY <1>2, <1>5, <1>6, <1>7, <1>8, <1>13 DEF CleanupNodes
<1>14. CASE UpdateSystemKeyspacesTopology(c)
  <2>1. pc'[c] \in {"alter", "reaper"}
        /\ UNCHANGED <<schema, recorded, ring, replication, raced>>
    BY <1>2, <1>14 DEF UpdateSystemKeyspacesTopology
  <2> QED BY <1>5, <1>6, <1>7, <1>8, <2>1
<1>15. CASE AlterSystemKeyspace(c)
  <2>1. pc[c] = "alter" /\ pc'[c] \in {"alter", "reaper"} /\ UNCHANGED <<schema, recorded, ring>>
        /\ Alter(c, SystemKeyspaces[index[c]])
    BY <1>2, <1>15 DEF AlterSystemKeyspace
  <2>2. index[c] \in 1..3
    BY <1>1, <2>1, ConstantFacts DEF TypeOK
  <2>3. SystemKeyspaces[index[c]] # "reaper_db"
    BY <2>2, ConstantFacts
  <2>4. replication'["reaper_db"] = replication["reaper_db"]
        /\ ("reaper_db" \in raced' <=> "reaper_db" \in raced)
    BY <1>2, <2>1, <2>3 DEF Alter
  <2> QED BY <1>5, <1>6, <1>7, <1>8, <2>1, <2>4
<1>16. CASE CassandraReaper(c)
  <2>1. pc[c] = "reaper" /\ pc'[c] = "createReaper" /\ Ask(c)
        /\ UNCHANGED <<schema, recorded, target, ring, replication, raced>>
    BY <1>2, <1>16 DEF CassandraReaper
  <2>2. PICK counted \in BOOLEAN :
          /\ answer'[c].replication = GetReplicationFactor(c, counted)
          /\ answer'[c].ring = IF counted THEN ring ELSE Empty
    BY <1>1, <2>1, AskTypes
  <2>3. CASE counted
    <3>1. counted = TRUE
      BY <2>3
    <3>2. answer'[c].ring = target[c] => answer'[c].replication = target[c]
      BY <1>1, <2>2, <3>1, CompleteAnswer
    <3>3. Told(c)'
      BY <2>1, <3>2 DEF Told
    <3> QED BY <1>5, <1>6, <1>7, <2>1, <3>3
  <2>4. CASE ~counted
    <3>1. target[c][c] > 0 /\ Empty[c] = 0
      BY <1>1, <2>1 DEF PassInv, Empty
    <3>2. answer'[c].ring # target[c]
      BY <2>2, <2>4, <3>1
    <3>3. Told(c)'
      BY <2>1, <3>2 DEF Told
    <3> QED BY <1>5, <1>6, <1>7, <2>1, <3>3
  <2> QED BY <2>3, <2>4
\* Before its operator has altered the keyspace, the ring is not applied.
<1>17. ASSUME pc[c] \in {"createReaper", "alterReaper"},
              UNCHANGED <<schema, recorded, target, ring>>
       PROVE  /\ c \in DataCenters(ring')
              /\ Applied(c)' => target[c] = ring
  <2>1. ring[c] > 0
    <3>1. ring[c] >= target[c][c] /\ target[c][c] > 0
      BY <1>1, <1>17 DEF PassInv, PostRoll
    <3>2. ring[c] \in Nat /\ target[c][c] \in Nat
      BY <1>2, <1>3
    <3> QED BY <3>1, <3>2
  <2>2. ~(schema[c] = ring /\ recorded[c] = ring)
    BY <1>17, RecordedAtRest
  <2> QED BY <1>17, <2>1, <2>2 DEF Applied, DataCenters
<1>18. CASE CreateReaperKeyspace(c)
  <2>1. pc[c] = "createReaper" /\ pc'[c] = "alterReaper"
        /\ UNCHANGED <<schema, recorded, target, answer, ring>>
    BY <1>2, <1>18 DEF CreateReaperKeyspace
  <2>2. Told(c)'
    BY <1>4, <2>1 DEF Told
  <2>3. ~Applied(c)'
    BY <2>1, RecordedAtRest DEF Applied
  <2>4. c \in DataCenters(ring')
    BY <1>17, <2>1
  <2>5. Spans'
    BY <2>3, <2>4 DEF Spans
  <2> QED BY <1>5, <2>2, <2>5
<1>19. CASE AlterReaperKeyspace(c)
  <2>1. pc[c] = "alterReaper" /\ pc'[c] = "rebuildCheck" /\ Alter(c, "reaper_db")
        /\ UNCHANGED <<schema, recorded, target, ring>>
    BY <1>2, <1>19 DEF AlterReaperKeyspace
  <2>2. c \in DataCenters(ring') /\ (Applied(c)' => target[c] = ring)
    BY <1>17, <2>1
  <2>3. "reaper_db" \notin raced' => answer[c].ring = ring
    BY <2>1 DEF Alter
  <2>4. replication'["reaper_db"] = answer[c].replication
    BY <1>2, <2>1 DEF Alter
  <2>5. answer[c].ring = target[c] => answer[c].replication = target[c]
    BY <1>4, <2>1 DEF Told
  <2>6. Spans'
    BY <2>1, <2>2, <2>3, <2>4, <2>5 DEF Spans
  <2> QED BY <1>5, <1>8, <2>1, <2>6
<1>20. CASE NodetoolRebuildCondition(c)
  <2>1. pc[c] = "rebuildCheck" /\ pc'[c] \in {"rebuild", "done"}
        /\ UNCHANGED <<schema, recorded, target, ring, replication, raced>>
    BY <1>2, <1>20 DEF NodetoolRebuildCondition
  <2>2. Applied(c)' => Applied(c)
    BY <2>1 DEF Applied
  <2> QED BY <1>5, <1>6, <1>8, <2>1, <2>2
<1>21. CASE NodetoolRebuild(c)
  <2>1. pc[c] = "rebuild" /\ pc'[c] \in {"rebuild", "done"}
        /\ UNCHANGED <<schema, recorded, target, ring, replication, raced>>
    BY <1>2, <1>21 DEF NodetoolRebuild
  <2>2. Applied(c)' => Applied(c)
    BY <2>1 DEF Applied
  <2> QED BY <1>5, <1>6, <1>8, <2>1, <2>2
<1>22. CASE Finish(c)
  <2>1. pc[c] = "done" /\ pc'[c] = "idle" /\ recorded'[c] = target[c]
        /\ UNCHANGED <<schema, ring, replication, raced>>
    BY <1>2, <1>22 DEF Finish, Forget
  <2>2. Applied(c)' => Applied(c)
    BY <2>1 DEF Applied
  <2> QED BY <1>5, <1>6, <1>8, <2>1, <2>2
<1>23. CASE PassFails(c)
  <2>1. pc'[c] = "idle" /\ UNCHANGED <<schema, recorded, ring, replication, raced>>
    BY <1>2, <1>23 DEF PassFails, Forget
  <2> QED BY <1>5, <1>6, <1>7, <1>8, <2>1
<1>24. CASE Edit(c)
  <2>1. /\ UNCHANGED <<recorded, target, pc, answer, ring, replication, raced>>
        /\ schema'[c] \in Schemas /\ \A d \in Clusters : schema'[c][d] >= schema[c][d]
    BY <1>2, <1>24, ConstantFacts DEF Edit
  <2>2. ASSUME Below(ring, schema[c]), schema'[c] = ring PROVE schema[c] = ring
    <3>1. \A d \in Clusters : schema[c][d] = ring[d]
      <4> SUFFICES ASSUME NEW d \in Clusters PROVE schema[c][d] = ring[d]
        OBVIOUS
      <4>1. schema[c][d] \in Nat /\ ring[d] \in Nat
        BY <1>2, <1>3
      <4>2. schema[c][d] <= ring[d] /\ ring[d] <= schema[c][d]
        BY <2>1, <2>2, <4>1 DEF Below
      <4> QED BY <4>1, <4>2
    <3> QED BY <1>2, <3>1 DEF Schemas
  <2>3. Applied(c)' => Below(ring, schema[c])
    BY <1>1, <1>2, <2>1 DEF Applied, PassInv
  <2>4. Applied(c)' => Applied(c)
    BY <2>1, <2>2, <2>3 DEF Applied
  <2>5. Told(c)'
    BY <1>4, <2>1 DEF Told
  <2> QED BY <1>5, <1>6, <2>1, <2>4, <2>5
<1> QED BY <1>9, <1>10, <1>11, <1>12, <1>13, <1>14, <1>15, <1>16, <1>18, <1>19, <1>20, <1>21,
           <1>22, <1>23, <1>24 DEF Step

(***************************************************************************)
(* When every operator of the ring has applied a resource that describes   *)
(* the ring, the reaper's keyspace is replicated over exactly that ring,   *)
(* unless the last operator to write it had counted another ring.          *)
(***************************************************************************)
THEOREM ReaperReplication == Spec => []ReaperSpansRing
<1>1. Init => ReaperInv
  BY DEF Init, ReaperInv
<1>2. RingInv /\ RingInv' /\ ReaperInv /\ [Next]_vars => ReaperInv'
  <2> SUFFICES ASSUME RingInv, RingInv', ReaperInv, [Next]_vars PROVE ReaperInv'
    OBVIOUS
  <2>1. CASE Next
    BY <2>1, StepFrame, ReaperNext DEF Next
  <2>2. CASE UNCHANGED vars
    BY <2>2 DEF vars, passVars, sharedVars, history, ReaperInv, Applied, DataCenters
  <2> QED BY <2>1, <2>2
<1>3. RingInv /\ ReaperInv => ReaperSpansRing
  BY DEF ReaperInv, ReaperSpansRing, AtRest, Applied
<1> QED BY <1>1, <1>2, <1>3, RingInvariant, PTL DEF Spec
-----------------------------------------------------------------------------
(* The system keyspaces. What a step of cluster c can do to the facts that *)
(* SystemInv and RebuildInv are about.                                     *)

\* Only a joining node changes the ring, and only the loop over the system
\* keyspaces alters one of them.
LEMMA SharedMoves ==
  ASSUME RingInv, NEW c \in Clusters, Step(c) \/ PassFails(c) \/ Edit(c)
  PROVE  /\ ring' = ring \/ NodeJoins(c)
         /\ \A i \in 1..3 :
              \/ AlterSystemKeyspace(c) /\ index[c] = i
              \/ /\ replication'[SystemKeyspaces[i]] = replication[SystemKeyspaces[i]]
                 /\ SystemKeyspaces[i] \in raced' <=> SystemKeyspaces[i] \in raced
                 /\ SystemKeyspaces[i] \in misled' <=> SystemKeyspaces[i] \in misled
<1> USE DEF Goto, passVars, sharedVars, history, unfailing, rest
<1>1. /\ TypeOK /\ replication \in [Keyspaces -> Schemas \cup {None}]
      /\ \A i \in 1..3 : SystemKeyspaces[i] \in Keyspaces /\ SystemKeyspaces[i] # "reaper_db"
      /\ "reaper_db" \in Keyspaces
  BY ConstantFacts DEF RingInv, TypeOK
<1> DEFINE Kept == \A i \in 1..3 :
                     /\ replication'[SystemKeyspaces[i]] = replication[SystemKeyspaces[i]]
                     /\ SystemKeyspaces[i] \in raced' <=> SystemKeyspaces[i] \in raced
                     /\ SystemKeyspaces[i] \in misled' <=> SystemKeyspaces[i] \in misled
<1>2. ASSUME UNCHANGED <<replication, raced, misled>> PROVE Kept
  BY <1>2
<1>3. ASSUME Alter(c, "reaper_db") PROVE Kept
  BY <1>1, <1>3 DEF Alter
<1>4. CASE AlterSystemKeyspace(c)
  <2>1. ring' = ring /\ pc[c] = "alter" /\ Alter(c, SystemKeyspaces[index[c]])
    BY <1>4 DEF AlterSystemKeyspace
  <2>2. index[c] \in 1..3
    BY <1>1, <2>1, ConstantFacts DEF TypeOK
  <2>3. ASSUME NEW i \in 1..3, index[c] # i
        PROVE  /\ replication'[SystemKeyspaces[i]] = replication[SystemKeyspaces[i]]
               /\ SystemKeyspaces[i] \in raced' <=> SystemKeyspaces[i] \in raced
               /\ SystemKeyspaces[i] \in misled' <=> SystemKeyspaces[i] \in misled
    <3>1. SystemKeyspaces[index[c]] # SystemKeyspaces[i]
      BY <2>2, <2>3, ConstantFacts
    <3> QED BY <1>1, <2>1, <3>1 DEF Alter
  <2> QED BY <1>4, <2>1, <2>3
<1>5. CASE CreateReaperKeyspace(c)
  <2>1. ring' = ring /\ (Alter(c, "reaper_db") \/ UNCHANGED <<replication, raced, misled>>)
    BY <1>5 DEF CreateReaperKeyspace
  <2> QED BY <1>2, <1>3, <2>1
<1>6. CASE AlterReaperKeyspace(c)
  <2>1. ring' = ring /\ Alter(c, "reaper_db")
    BY <1>6 DEF AlterReaperKeyspace
  <2> QED BY <1>3, <2>1
<1>7. CASE \/ StartPass(c) \/ CreatePVC(c) \/ NodeJoins(c) \/ RolloutDone(c) \/ CleanupNodes(c)
           \/ UpdateSystemKeyspacesTopology(c) \/ CassandraReaper(c)
           \/ NodetoolRebuildCondition(c) \/ NodetoolRebuild(c) \/ Finish(c)
           \/ PassFails(c) \/ Edit(c)
  <2>1. UNCHANGED <<replication, raced, misled>> /\ (ring' = ring \/ NodeJoins(c))
    BY <1>7 DEF StartPass, CreatePVC, NodeJoins, RolloutDone, CleanupNodes,
       UpdateSystemKeyspacesTopology, CassandraReaper, NodetoolRebuildCondition,
       NodetoolRebuild, Finish, PassFails, Edit
  <2> QED BY <1>2, <2>1
<1> QED BY <1>4, <1>5, <1>6, <1>7 DEF Step

\* A first rollout ends in one way only, and makes its cluster the last.
LEMMA OpenMoves ==
  ASSUME RingInv, NEW c \in Clusters, Step(c) \/ PassFails(c) \/ Edit(c)
  PROVE  /\ Open(c) => Open(c)' \/ (last' = c /\ pc'[c] = "cleanup" /\ recorded'[c] = None)
         /\ WillJoin(c) /\ ring' = ring => WillJoin(c)'
<1> USE DEF Goto, passVars, sharedVars, history, unfailing, rest, PostRoll
<1>1. PassInv(c) /\ TypeOK
  BY DEF RingInv
<1>2. /\ pc \in [Clusters -> Steps] /\ recorded \in [Clusters -> Schemas \cup {None}]
      /\ target \in [Clusters -> Schemas] /\ schema \in [Clusters -> Schemas]
      /\ ring \in Schemas
  BY <1>1 DEF TypeOK
<1>3. \A s \in Schemas : \A d \in Clusters : s[d] \in Nat
  BY SchemaValues
<1>4. ring[c] \in Nat /\ target[c][c] \in Nat /\ schema[c][c] \in Nat
  BY <1>2, <1>3
<1>5. ASSUME pc[c] \in PostRoll
      PROVE  ~Open(c) /\ ~WillJoin(c)
  BY <1>5 DEF Open, WillJoin
<1>6. CASE StartPass(c)
  <2>1. /\ pc[c] = "idle" /\ pc'[c] = "createPVC" /\ target'[c] = schema[c]
        /\ schema[c][c] > 0 /\ UNCHANGED <<recorded, ring>>
    BY <1>2, <1>6 DEF StartPass
  <2> QED BY <1>4, <2>1 DEF Open, WillJoin
<1>7. CASE CreatePVC(c)
  <2>1. pc[c] = "createPVC" /\ pc'[c] = "roll" /\ UNCHANGED <<recorded, target, ring>>
    BY <1>2, <1>7 DEF CreatePVC
  <2> QED BY <2>1 DEF Open, WillJoin
<1>8. CASE NodeJoins(c)
  <2>1. UNCHANGED <<pc, recorded, target, schema>>
    BY <1>8 DEF NodeJoins
  <2> QED BY <2>1 DEF Open, WillJoin
<1>9. CASE RolloutDone(c)
  <2>1. /\ pc[c] = "roll" /\ ring[c] >= target[c][c] /\ pc'[c] = "cleanup"
        /\ recorded' = recorded /\ (recorded[c] = None => last' = c)
    BY <1>2, <1>9 DEF RolloutDone
  <2>2. ~WillJoin(c)
    BY <1>4, <2>1 DEF WillJoin
  <2> QED BY <2>1, <2>2 DEF Open
<1>10. CASE \/ CleanupNodes(c) \/ UpdateSystemKeyspacesTopology(c) \/ AlterSystemKeyspace(c)
            \/ CassandraReaper(c) \/ CreateReaperKeyspace(c) \/ AlterReaperKeyspace(c)
            \/ NodetoolRebuildCondition(c) \/ NodetoolRebuild(c) \/ Finish(c)
  <2>1. pc[c] \in PostRoll
    BY <1>10 DEF CleanupNodes, UpdateSystemKeyspacesTopology, AlterSystemKeyspace,
       CassandraReaper, CreateReaperKeyspace, AlterReaperKeyspace,
       NodetoolRebuildCondition, NodetoolRebuild, Finish
  <2> QED BY <1>5, <2>1
<1>11. CASE PassFails(c)
  <2>1. pc[c] # "idle" /\ pc'[c] = "idle" /\ UNCHANGED <<recorded, schema, ring>>
    BY <1>2, <1>11 DEF PassFails, Forget
  <2>2. target[c][c] <= schema[c][c]
    BY <1>1, <2>1 DEF PassInv, Below
  <2> QED BY <1>4, <2>1, <2>2 DEF Open, WillJoin
<1>12. CASE Edit(c)
  <2>1. /\ UNCHANGED <<recorded, target, pc, ring>>
        /\ schema'[c] \in Schemas /\ \A d \in Clusters : schema'[c][d] >= schema[c][d]
    BY <1>2, <1>12, ConstantFacts DEF Edit
  <2>2. schema'[c][c] \in Nat /\ schema[c][c] <= schema'[c][c]
    BY <1>3, <1>4, <2>1
  <2> QED BY <1>4, <2>1, <2>2 DEF Open, WillJoin
<1> QED BY <1>6, <1>7, <1>8, <1>9, <1>10, <1>11, <1>12 DEF Step

\* The resources and the ring only grow, so a first rollout that was to be
\* completed still is, until it makes its cluster the last.
LEMMA UnfinishedKept ==
  ASSUME RingInv, RingInv', NEW c \in Clusters, Step(c) \/ PassFails(c) \/ Edit(c), Frame(c),
         Unfinished
  PROVE  Unfinished' \/ (last' = c /\ pc'[c] = "cleanup" /\ recorded'[c] = None)
<1>1. PICK d \in Clusters :
        Open(d) /\ (ring[d] > 0 \/ \E e \in DataCenters(ring) : schema[e][d] > 0)
  BY DEF Unfinished
<1>2. TypeOK /\ TypeOK'
  BY DEF RingInv
<1>3. \A e, f \in Clusters : /\ ring[e] \in Nat /\ ring'[e] \in Nat
                             /\ schema[e][f] \in Nat /\ schema'[e][f] \in Nat
  BY <1>2, ConstantFacts DEF TypeOK, Schemas
<1>4. \A e \in Clusters : ring[e] > 0 => ring'[e] > 0
  BY <1>3 DEF Frame
<1>5. \A e, f \in Clusters : schema[e][f] > 0 => schema'[e][f] > 0
  <2>1. schema' = schema \/ Edit(c)
    BY DEF Step, StartPass, CreatePVC, NodeJoins, RolloutDone, CleanupNodes,
       UpdateSystemKeyspacesTopology, AlterSystemKeyspace, CassandraReaper,
       CreateReaperKeyspace, AlterReaperKeyspace, NodetoolRebuildCondition,
       NodetoolRebuild, Finish, PassFails, rest, unfailing
  <2>2. Edit(c) => \A f \in Clusters : schema'[c][f] >= schema[c][f]
    BY <1>2 DEF Edit, TypeOK
  <2> QED BY <1>3, <2>1, <2>2 DEF Frame
<1>6. ring'[d] > 0 \/ \E e \in DataCenters(ring') : schema'[e][d] > 0
  BY <1>1, <1>4, <1>5 DEF DataCenters
<1>7. CASE d = c
  <2>1. Open(c)' \/ (last' = c /\ pc'[c] = "cleanup" /\ recorded'[c] = None)
    BY <1>1, <1>7, OpenMoves
  <2> QED BY <1>6, <1>7, <2>1 DEF Unfinished
<1>8. CASE d # c
  <2>1. Open(d)'
    BY <1>1, <1>8 DEF Open, Frame
  <2> QED BY <1>6, <2>1 DEF Unfinished
<1> QED BY <1>7, <1>8

\* A joining node opens a data centre that is not finished, or joins one that
\* is there.
LEMMA JoiningNode ==
  ASSUME RingInv, RingInv', NEW c \in Clusters, NodeJoins(c), ~Unfinished'
  PROVE  DataCenters(ring') = DataCenters(ring)
<1>1. /\ PassInv(c) /\ TypeOK /\ pc[c] = "roll" /\ ring' = [ring EXCEPT ![c] = @ + 1]
      /\ pc' = pc /\ recorded' = recorded
  BY DEF NodeJoins, RingInv, rest, unfailing
<1>2. ring \in [Clusters -> Nat] /\ (recorded[c] # None => recorded[c][c] \in Nat)
  BY <1>1, ConstantFacts DEF TypeOK, Schemas
<1>3. ring'[c] = ring[c] + 1 /\ \A d \in Clusters \ {c} : ring'[d] = ring[d]
  BY <1>1, <1>2
<1>4. ring[c] > 0
  <2> SUFFICES ASSUME ~(ring[c] > 0) PROVE FALSE
    OBVIOUS
  <2>1. recorded[c] = None
    BY <1>1, <1>2 DEF PassInv
  <2>2. Open(c)' /\ ring'[c] > 0
    BY <1>1, <1>2, <1>3, <2>1 DEF Open, PostRoll
  <2> QED BY <2>2 DEF Unfinished
<1> QED BY <1>2, <1>3, <1>4 DEF DataCenters

(***************************************************************************)
(* A resource that does not contradict the ring describes it, or a data    *)
(* centre of it will still join; and then the ring is not finished.        *)
(***************************************************************************)
LEMMA NotContradicted ==
  ASSUME RingInv, NEW c \in Clusters, ~Contradicted(c), ring # target[c]
  PROVE  \E d \in Clusters : WillJoin(d) /\ target[c][d] > 0
<1>1. TypeOK /\ ring \in Schemas /\ target \in [Clusters -> Schemas]
  BY DEF RingInv, TypeOK
<1>2. PICK d \in Clusters : ring[d] # target[c][d]
  BY <1>1 DEF Schemas
<1>3. ring[d] \in Nat /\ target[c][d] \in Nat
  BY <1>1, ConstantFacts DEF Schemas
<1>4. ring[d] < target[c][d] /\ Coming(c, d)
  BY <1>2, <1>3 DEF Contradicted
<1>5. PassInv(d)
  BY DEF RingInv
<1>6. CASE d \notin claims /\ pc[d] = "idle"
  <2>1. recorded[d] = None /\ ~(ring[d] > 0)
    BY <1>5, <1>6 DEF PassInv
  <2>2. WillJoin(d)
    BY <1>3, <1>6, <2>1 DEF WillJoin, Open, PostRoll
  <2> QED BY <1>3, <1>4, <2>2
<1>7. CASE /\ type[d] = "clean" /\ pc[d] \in {"createPVC", "roll"}
           /\ target[d][d] = target[c][d]
  <2>1. recorded[d] = None
    BY <1>5, <1>7 DEF PassInv
  <2>2. WillJoin(d)
    BY <1>4, <1>7, <2>1 DEF WillJoin, Open, PostRoll
  <2> QED BY <1>3, <1>4, <2>2
<1> QED BY <1>4, <1>6, <1>7 DEF Coming

\* A node that will join leaves the ring unfinished.
LEMMA WillJoinUnfinished ==
  ASSUME RingInv, NEW c \in Clusters, pc[c] \in PostRoll,
         NEW d \in Clusters, WillJoin(d), target[c][d] > 0
  PROVE  Unfinished
<1>1. /\ Below(target[c], schema[c]) /\ target[c][c] > 0 /\ ring[c] >= target[c][c]
  BY DEF RingInv, PassInv, PostRoll
<1>2. /\ target[c][d] \in Nat /\ schema[c][d] \in Nat /\ target[c][c] \in Nat /\ ring[c] \in Nat
  BY ConstantFacts DEF RingInv, TypeOK, Schemas
<1>3. schema[c][d] > 0 /\ ring[c] > 0
  BY <1>1, <1>2 DEF Below
<1> QED BY <1>3 DEF Unfinished, WillJoin, DataCenters

\* An answer that is about to be written is right about the ring it counted, or
\* a data centre will still join.
AnswerTells(c) ==
  pc[c] = "alter" /\ answer[c].sound /\ answer[c].ring = ring =>
    \/ DataCenters(answer[c].replication) = DataCenters(ring)
    \/ \E d \in Clusters : WillJoin(d) /\ target[c][d] > 0

\* Every step keeps what the answers tell.
LEMMA AnswersKept ==
  ASSUME RingInv, RingInv', NEW c \in Clusters, Step(c) \/ PassFails(c) \/ Edit(c), Frame(c),
         NEW e \in Clusters, AnswerTells(e)
  PROVE  AnswerTells(e)'
<1> USE DEF Goto, passVars, sharedVars, history, unfailing, rest
<1>1. /\ TypeOK /\ PassInv(e) /\ PassInv(c)
      /\ \A d \in Clusters : answer[e].ring[d] \in Nat /\ ring[d] \in Nat
      /\ pc \in [Clusters -> Steps] /\ target \in [Clusters -> Schemas]
      /\ answer \in [Clusters -> [replication : Schemas, ring : Schemas, sound : BOOLEAN]]
      /\ ring \in [Clusters -> Nat]
  BY ConstantFacts DEF RingInv, TypeOK, Schemas
<1>2. ASSUME ring' = ring, NEW d \in Clusters, WillJoin(d) PROVE WillJoin(d)'
  <2>1. CASE d = c
    BY <1>2, <2>1, OpenMoves
  <2>2. CASE d # c
    BY <1>2, <2>2 DEF WillJoin, Open, Frame
  <2> QED BY <2>1, <2>2
<1>3. ASSUME ring' = ring, pc[e] = pc'[e], answer'[e] = answer[e], target'[e] = target[e]
      PROVE  AnswerTells(e)'
  BY <1>2, <1>3 DEF AnswerTells
<1>4. CASE NodeJoins(c)
  <2>1. answer' = answer /\ ring'[c] = ring[c] + 1
    BY <1>1, <1>4 DEF NodeJoins
  <2>2. answer[e].ring[c] <= ring[c]
    BY <1>1 DEF PassInv, Below
  <2>3. answer'[e].ring # ring'
    BY <1>1, <2>1, <2>2
  <2> QED BY <2>3 DEF AnswerTells
<1>5. CASE ~NodeJoins(c) /\ e # c
  <2>1. ring' = ring
    BY <1>5, SharedMoves
  <2> QED BY <1>3, <1>5, <2>1 DEF Frame
<1>6. CASE ~NodeJoins(c) /\ e = c
  <2>1. ring' = ring
    BY <1>6, SharedMoves
  <2>2. CASE \/ StartPass(c) \/ CreatePVC(c) \/ RolloutDone(c) \/ CleanupNodes(c)
             \/ CassandraReaper(c) \/ CreateReaperKeyspace(c) \/ AlterReaperKeyspace(c)
             \/ NodetoolRebuildCondition(c) \/ NodetoolRebuild(c) \/ Finish(c) \/ PassFails(c)
    <3>1. pc'[c] # "alter"
      BY <1>1, <2>2 DEF StartPass, CreatePVC, RolloutDone, CleanupNodes, CassandraReaper,
         CreateReaperKeyspace, AlterReaperKeyspace, NodetoolRebuildCondition, NodetoolRebuild,
         Finish, PassFails, Forget
    <3> QED BY <1>6, <3>1 DEF AnswerTells
  <2>3. CASE UpdateSystemKeyspacesTopology(c)
    <3>1. CASE type[c] = "clean"
      <4>1. /\ pc[c] = "topology" /\ Ask(c) /\ pc'[c] = "alter"
            /\ UNCHANGED <<schema, recorded, target, ring>>
        BY <1>1, <2>3, <3>1 DEF UpdateSystemKeyspacesTopology
      <4>2. PICK counted \in BOOLEAN :
              /\ answer'[c].replication = GetReplicationFactor(c, counted)
              /\ answer'[c].ring = IF counted THEN ring ELSE Empty
              /\ answer'[c].sound <=> ~Contradicted(c)
        BY <1>1, <4>1, AskTypes
      <4> SUFFICES ASSUME answer'[c].sound, answer'[c].ring = ring
                   PROVE  \/ DataCenters(answer'[c].replication) = DataCenters(ring)
                          \/ \E d \in Clusters : WillJoin(d)' /\ target[c][d] > 0
        BY <1>6, <2>1, <4>1 DEF AnswerTells, DataCenters
      <4>3. counted = TRUE
        <5>1. ring[c] > 0
          <6>1. ring[c] >= target[c][c] /\ target[c][c] > 0
            BY <1>1, <4>1 DEF PassInv, PostRoll
          <6>2. ring[c] \in Nat /\ target[c][c] \in Nat
            BY <1>1, ConstantFacts DEF Schemas
          <6> QED BY <6>1, <6>2
        <5>2. Empty[c] = 0
          BY DEF Empty
        <5> QED BY <4>2, <5>1, <5>2
      <4>4. CASE ring = target[c]
        BY <1>1, <4>2, <4>3, <4>4, CompleteAnswer
      <4>5. CASE ring # target[c]
        <5>1. PICK d \in Clusters : WillJoin(d) /\ target[c][d] > 0
          BY <4>2, <4>5, NotContradicted
        <5>2. WillJoin(d)'
          BY <1>2, <2>1, <5>1
        <5> QED BY <5>1, <5>2
      <4> QED BY <4>4, <4>5
    <3>2. CASE type[c] # "clean"
      <4>1. pc'[c] = "reaper"
        BY <1>1, <2>3, <3>2 DEF UpdateSystemKeyspacesTopology
      <4> QED BY <1>6, <4>1 DEF AnswerTells
    <3> QED BY <3>1, <3>2
  <2>4. CASE AlterSystemKeyspace(c)
    <3>1. pc[c] = "alter" /\ pc'[c] \in {"alter", "reaper"} /\ UNCHANGED <<answer, target>>
      BY <1>1, <2>4 DEF AlterSystemKeyspace
    <3>2. CASE pc'[c] = "alter"
      BY <1>3, <1>6, <2>1, <3>1, <3>2
    <3>3. CASE pc'[c] = "reaper"
      BY <1>6, <3>3 DEF AnswerTells
    <3> QED BY <3>1, <3>2, <3>3
  <2>5. CASE Edit(c)
    <3>1. UNCHANGED <<pc, answer, target>>
      BY <2>5 DEF Edit
    <3> QED BY <1>3, <2>1, <3>1
  <2> QED BY <1>6, <2>2, <2>3, <2>4, <2>5 DEF Step
<1> QED BY <1>4, <1>5, <1>6

\* An operator that is not yet through with the i-th keyspace gets there only by
\* altering it, unless its first pass has failed.
LEMMA PastAlterMoves ==
  ASSUME RingInv, NEW c \in Clusters, Step(c) \/ PassFails(c) \/ Edit(c),
         NEW i \in 1..3, PastAlter(c, i)', c \notin aborted
  PROVE  PastAlter(c, i) \/ (AlterSystemKeyspace(c) /\ index[c] = i)
<1> USE DEF Goto, passVars, sharedVars, history, unfailing, rest
<1>1. /\ PassInv(c) /\ TypeOK /\ pc \in [Clusters -> Steps]
      /\ recorded \in [Clusters -> Schemas \cup {None}]
      /\ index \in [Clusters -> Nat]
  BY ConstantFacts DEF RingInv, TypeOK
<1>2. CASE \/ StartPass(c) \/ CreatePVC(c) \/ RolloutDone(c) \/ CleanupNodes(c) \/ PassFails(c)
  <2>1. recorded' = recorded /\ pc'[c] \in {"createPVC", "roll", "cleanup", "topology", "idle"}
    BY <1>1, <1>2 DEF StartPass, CreatePVC, RolloutDone, CleanupNodes, PassFails, Forget
  <2> QED BY <2>1 DEF PastAlter
<1>3. CASE NodeJoins(c) \/ Edit(c)
  <2>1. recorded' = recorded /\ pc' = pc /\ index' = index
    BY <1>3 DEF NodeJoins, Edit
  <2> QED BY <2>1 DEF PastAlter
<1>4. CASE UpdateSystemKeyspacesTopology(c)
  <2>1. CASE type[c] = "clean"
    <3>1. recorded' = recorded /\ pc'[c] = "alter" /\ index'[c] = 1
      BY <1>1, <1>4, <2>1 DEF UpdateSystemKeyspacesTopology
    <3>2. ~(1 > i)
      OBVIOUS
    <3> QED BY <3>1, <3>2 DEF PastAlter
  <2>2. CASE type[c] # "clean"
    <3>1. pc[c] = "topology"
      BY <1>4 DEF UpdateSystemKeyspacesTopology
    <3>2. recorded[c] # None
      BY <1>1, <2>2, <3>1 DEF PassInv
    <3> QED BY <3>2 DEF PastAlter
  <2> QED BY <2>1, <2>2
<1>5. CASE AlterSystemKeyspace(c)
  <2>1. pc[c] = "alter" /\ index[c] \in Nat /\ index[c] <= 3 /\ recorded' = recorded
    BY <1>1, <1>5, ConstantFacts DEF AlterSystemKeyspace, TypeOK
  <2>2. CASE index[c] = 3
    BY <1>5, <2>1, <2>2 DEF PastAlter
  <2>3. CASE index[c] # 3
    <3>1. index'[c] = index[c] + 1 /\ pc' = pc
      BY <1>1, <1>5, <2>3, ConstantFacts DEF AlterSystemKeyspace
    <3>2. recorded[c] # None \/ index[c] + 1 > i
      BY <2>1, <3>1 DEF PastAlter
    <3>3. index[c] + 1 > i => index[c] > i \/ index[c] = i
      BY <2>1
    <3> QED BY <1>5, <2>1, <3>2, <3>3 DEF PastAlter
  <2> QED BY <2>2, <2>3
<1>6. CASE \/ CassandraReaper(c) \/ CreateReaperKeyspace(c) \/ AlterReaperKeyspace(c)
           \/ NodetoolRebuildCondition(c) \/ NodetoolRebuild(c) \/ Finish(c)
  <2>1. pc[c] \in {"reaper", "createReaper", "alterReaper", "rebuildCheck", "rebuild", "done"}
    BY <1>6 DEF CassandraReaper, CreateReaperKeyspace, AlterReaperKeyspace,
       NodetoolRebuildCondition, NodetoolRebuild, Finish
  <2> QED BY <2>1 DEF PastAlter
<1> QED BY <1>2, <1>3, <1>4, <1>5, <1>6 DEF Step

\* Every step keeps what the system keyspaces rely on.
LEMMA SystemNext ==
  ASSUME RingInv, RingInv', SystemInv, NEW c \in Clusters, Frame(c),
         Step(c) \/ PassFails(c) \/ Edit(c)
  PROVE  SystemInv'
<1>1. \A e \in Clusters : AnswerTells(e)'
  BY AnswersKept DEF SystemInv, AnswerTells
<1>2. Len(SystemKeyspaces) = 3
  BY ConstantFacts
<1>3. ASSUME NEW i \in 1..3,
             SystemKeyspaces[i] \notin raced' \cup misled', last' # None, last' \notin aborted',
             PastAlter(last, i)', ~Unfinished'
      PROVE  DataCenters(replication'[SystemKeyspaces[i]]) = DataCenters(ring')
  <2> DEFINE k == SystemKeyspaces[i]
  <2>1. last' = last /\ ~Unfinished
    <3>1. ~(last' = c /\ pc'[c] = "cleanup" /\ recorded'[c] = None)
      BY <1>3 DEF PastAlter
    <3>2. ~Unfinished
      BY <1>3, <3>1, UnfinishedKept
    <3>3. last' = last
      <4>1. last' = last \/ (RolloutDone(c) /\ last' = c /\ recorded[c] = None)
        BY DEF Step, StartPass, CreatePVC, NodeJoins, RolloutDone, CleanupNodes,
           UpdateSystemKeyspacesTopology, AlterSystemKeyspace, CassandraReaper,
           CreateReaperKeyspace, AlterReaperKeyspace, NodetoolRebuildCondition,
           NodetoolRebuild, Finish, PassFails, Edit, history
      <4>2. RolloutDone(c) => pc'[c] = "cleanup" /\ recorded' = recorded
        BY DEF RolloutDone, Goto, RingInv, TypeOK, rest, unfailing
      <4> QED BY <3>1, <4>1, <4>2
    <3> QED BY <3>2, <3>3
  <2>2. last \in Clusters /\ last \notin aborted
    BY <1>3, <2>1 DEF RingInv, TypeOK, Frame
  <2>3. CASE AlterSystemKeyspace(c) /\ index[c] = i
    <3>1. pc[c] = "alter" /\ Alter(c, k) /\ ring' = ring
      BY <2>3 DEF AlterSystemKeyspace
    <3>2. replication'[k] = answer[c].replication /\ answer[c].ring = ring /\ answer[c].sound
      BY <1>3, <3>1, ConstantFacts DEF Alter, RingInv, TypeOK
    <3>3. \/ DataCenters(answer[c].replication) = DataCenters(ring)
          \/ \E d \in Clusters : WillJoin(d) /\ target[c][d] > 0
      BY <3>1, <3>2 DEF SystemInv
    <3>4. ~\E d \in Clusters : WillJoin(d) /\ target[c][d] > 0
      BY <2>1, <3>1, WillJoinUnfinished DEF PostRoll
    <3> QED BY <3>1, <3>2, <3>3, <3>4
  <2>4. CASE ~(AlterSystemKeyspace(c) /\ index[c] = i)
    <3>1. replication'[k] = replication[k] /\ k \notin raced \cup misled
      BY <1>3, <2>4, SharedMoves
    <3>2. PastAlter(last, i)
      <4>1. CASE last = c
        <5>1. PastAlter(c, i)'
          BY <1>3, <2>1, <4>1 DEF PastAlter
        <5> QED BY <2>2, <2>4, <4>1, <5>1, PastAlterMoves
      <4>2. CASE last # c
        BY <1>3, <2>1, <2>2, <4>2 DEF PastAlter, Frame
      <4> QED BY <4>1, <4>2
    <3>3. DataCenters(replication[k]) = DataCenters(ring)
      BY <1>2, <1>3, <2>1, <2>2, <3>1, <3>2 DEF SystemInv
    <3>4. DataCenters(ring') = DataCenters(ring)
      BY <1>3, SharedMoves, JoiningNode DEF DataCenters
    <3> QED BY <3>1, <3>3, <3>4
  <2> QED BY <2>3, <2>4
<1> QED BY <1>1, <1>2, <1>3 DEF SystemInv, AnswerTells


\* At rest nothing is unfinished, and the last cluster has its record.
LEMMA RestFacts ==
  ASSUME RingInv, AtRest
  PROVE  /\ last \in Clusters /\ recorded[last] # None /\ pc[last] = "idle"
         /\ ~Unfinished
<1>1. TypeOK /\ LastInv /\ \A c \in Clusters : PassInv(c)
  BY DEF RingInv
<1>2. \A c \in DataCenters(ring) : /\ c \in Clusters /\ pc[c] = "idle"
                                   /\ recorded[c] # None /\ schema[c] = ring
  BY <1>1, ConstantFacts DEF AtRest, DataCenters, TypeOK
<1>3. ring \in Schemas /\ ring # Empty /\ \A d \in Clusters : ring[d] \in Nat
  BY <1>1, ConstantFacts DEF AtRest, TypeOK, Schemas
<1>4. PICK d \in Clusters : ring[d] # 0
  BY <1>3 DEF Schemas, Empty
<1>5. d \in DataCenters(ring)
  BY <1>3, <1>4 DEF DataCenters
<1>6. last # None
  BY <1>1, <1>2, <1>5 DEF PassInv
<1>7. last \in Clusters /\ ring[last] > 0
  BY <1>1, <1>6 DEF TypeOK, LastInv
<1>8. last \in DataCenters(ring)
  BY <1>7 DEF DataCenters
<1>9. ~Unfinished
  <2> SUFFICES ASSUME NEW e \in Clusters, Open(e),
                      ring[e] > 0 \/ \E c \in DataCenters(ring) : schema[c][e] > 0
               PROVE  FALSE
    BY DEF Unfinished
  <2>1. ring[e] > 0
    BY <1>2
  <2>2. e \in DataCenters(ring)
    BY <2>1 DEF DataCenters
  <2> QED BY <1>2, <2>2 DEF Open
<1> QED BY <1>2, <1>7, <1>8, <1>9

(***************************************************************************)
(* The operator that completes the ring, whichever it is, has the last     *)
(* word on the system keyspaces: at rest each of them spans the ring,      *)
(* unless it was last altered on an answer the ring had outgrown or on a   *)
(* resource that contradicted the ring, or the first pass of that operator *)
(* failed.                                                                 *)
(***************************************************************************)
THEOREM SystemReplication == Spec => []SystemKeyspacesSpanRing
<1>1. Init => SystemInv
  BY DEF Init, SystemInv
<1>2. RingInv /\ RingInv' /\ SystemInv /\ [Next]_vars => SystemInv'
  <2> SUFFICES ASSUME RingInv, RingInv', SystemInv, [Next]_vars PROVE SystemInv'
    OBVIOUS
  <2>1. CASE Next
    BY <2>1, StepFrame, SystemNext DEF Next
  <2>2. CASE UNCHANGED vars
    BY <2>2 DEF vars, passVars, sharedVars, history, SystemInv, WillJoin, Open, PastAlter,
       Unfinished, DataCenters
  <2> QED BY <2>1, <2>2
<1>3. RingInv /\ SystemInv => SystemKeyspacesSpanRing
  <2> SUFFICES ASSUME RingInv, SystemInv, AtRest, last \notin aborted,
                      NEW k \in Keyspaces \ ({"reaper_db"} \cup raced \cup misled)
               PROVE  DataCenters(replication[k]) = DataCenters(ring)
    BY DEF SystemKeyspacesSpanRing
  <2>1. PICK i \in 1..Len(SystemKeyspaces) : k = SystemKeyspaces[i]
    BY DEF Keyspaces
  <2>2. last \in Clusters /\ last # None /\ PastAlter(last, i) /\ ~Unfinished
    BY RestFacts, ConstantFacts DEF PastAlter
  <2> QED BY <2>1, <2>2 DEF SystemInv
<1> QED BY <1>1, <1>2, <1>3, RingInvariant, PTL DEF Spec
-----------------------------------------------------------------------------
(* The rebuild of the data centre that completes the ring.                 *)

\* Every step keeps what the rebuild relies on.
LEMMA RebuildNext ==
  ASSUME RingInv, RingInv', RebuildInv, NEW c \in Clusters, Frame(c),
         Step(c) \/ PassFails(c) \/ Edit(c)
  PROVE  RebuildInv'
<1> USE DEF Goto, passVars, sharedVars, history, unfailing, rest
<1> DEFINE Through(d) == recorded[d] # None \/ pc[d] \in {"rebuild", "done"}
<1> SUFFICES ASSUME last' # None, last' \notin aborted' \cup doubted', Through(last)',
                    ~Unfinished'
             PROVE  \/ last' \in rebuilt'
                    \/ pc'[last'] = "rebuild" /\ recorded'[last'] = None
                    \/ DataCenters(ring') = {last'}
  BY DEF RebuildInv
<1>1. /\ PassInv(c) /\ TypeOK /\ pc \in [Clusters -> Steps]
      /\ recorded \in [Clusters -> Schemas \cup {None}] /\ target \in [Clusters -> Schemas]
      /\ ring \in Schemas /\ \A d \in Clusters : ring[d] \in Nat
  BY ConstantFacts DEF RingInv, TypeOK, Schemas
<1>2. last' = last /\ ~Unfinished
  <2>1. ~(last' = c /\ pc'[c] = "cleanup" /\ recorded'[c] = None)
    OBVIOUS
  <2>2. ~Unfinished
    BY <2>1, UnfinishedKept
  <2>3. last' = last \/ (RolloutDone(c) /\ last' = c /\ recorded[c] = None)
    BY DEF Step, StartPass, CreatePVC, NodeJoins, RolloutDone, CleanupNodes,
       UpdateSystemKeyspacesTopology, AlterSystemKeyspace, CassandraReaper,
       CreateReaperKeyspace, AlterReaperKeyspace, NodetoolRebuildCondition,
       NodetoolRebuild, Finish, PassFails, Edit
  <2>4. RolloutDone(c) => pc'[c] = "cleanup" /\ recorded' = recorded
    BY <1>1 DEF RolloutDone
  <2> QED BY <2>1, <2>2, <2>3, <2>4
<1>3. /\ last \in Clusters /\ last # None /\ last \notin aborted \cup doubted
      /\ last \in rebuilt => last \in rebuilt'
  BY <1>2 DEF RingInv, TypeOK, Frame
<1>4. DataCenters(ring') = DataCenters(ring)
  BY SharedMoves, JoiningNode DEF DataCenters
<1>5. CASE Through(last)
  <2>1. \/ last \in rebuilt
        \/ pc[last] = "rebuild" /\ recorded[last] = None
        \/ DataCenters(ring) = {last}
    BY <1>2, <1>3, <1>5 DEF RebuildInv
  <2>2. CASE last = c /\ pc[c] = "rebuild" /\ recorded[c] = None
    <3>1. CASE NodetoolRebuild(c)
      BY <1>1, <1>2, <2>2, <3>1 DEF NodetoolRebuild
    <3>2. CASE PassFails(c)
      <4>1. c \in claims
        BY <1>1, <2>2 DEF PassInv
      <4>2. c \in aborted'
        BY <2>2, <3>2, <4>1 DEF PassFails
      <4> QED BY <1>2, <2>2, <4>2
    <3>3. CASE Edit(c)
      BY <1>2, <2>2, <3>3 DEF Edit
    <3> QED BY <2>2, <3>1, <3>2, <3>3 DEF Step, StartPass, CreatePVC, NodeJoins, RolloutDone,
         CleanupNodes, UpdateSystemKeyspacesTopology, AlterSystemKeyspace, CassandraReaper,
         CreateReaperKeyspace, AlterReaperKeyspace, NodetoolRebuildCondition, Finish
  <2>3. CASE last # c /\ pc[last] = "rebuild" /\ recorded[last] = None
    BY <1>2, <1>3, <2>3 DEF Frame
  <2> QED BY <1>2, <1>3, <1>4, <2>1, <2>2, <2>3
<1>6. CASE ~Through(last)
  <2>1. last = c
    BY <1>2, <1>3, <1>6 DEF Frame
  <2>2. recorded[c] = None /\ pc[c] \notin {"rebuild", "done"}
        /\ (recorded'[c] # None \/ pc'[c] \in {"rebuild", "done"})
    BY <1>2, <1>6, <2>1
  <2>3. NodetoolRebuildCondition(c)
    BY <1>1, <2>2 DEF Step, StartPass, CreatePVC, NodeJoins, RolloutDone, CleanupNodes,
       UpdateSystemKeyspacesTopology, AlterSystemKeyspace, CassandraReaper,
       CreateReaperKeyspace, AlterReaperKeyspace, NodetoolRebuild, Finish, PassFails, Forget,
       Edit
  <2>4. PICK counted \in BOOLEAN :
          /\ pc' = [pc EXCEPT ![c] = IF RebuildWanted(c, counted) THEN "rebuild" ELSE "done"]
          /\ doubted' = IF counted /\ ~Contradicted(c) THEN doubted ELSE doubted \cup {c}
    BY <2>3 DEF NodetoolRebuildCondition
  <2>5. counted = TRUE /\ ~Contradicted(c)
    BY <1>2, <2>1, <2>4
  <2>6. pc[c] = "rebuildCheck" /\ recorded' = recorded
    BY <2>3 DEF NodetoolRebuildCondition
  <2>7. type[c] = "clean"
    BY <1>1, <1>3, <2>1, <2>2, <2>6 DEF PassInv
  <2>8. ring = target[c]
    BY <1>2, <2>5, <2>6, NotContradicted, WillJoinUnfinished DEF PostRoll
  <2>9. CASE NotDeployedHere(c) # {}
    <3>1. RebuildWanted(c, TRUE)
      BY <2>7, <2>8, <2>9 DEF RebuildWanted, IsAllDCsDeployed, ReplicasDeployed
    <3>2. pc'[c] = "rebuild"
      BY <1>1, <2>4, <2>5, <3>1
    <3> QED BY <1>2, <2>1, <2>2, <2>6, <3>2
  <2>10. CASE NotDeployedHere(c) = {}
    <3>1. DataCenters(ring) \subseteq {c}
      BY <2>8, <2>10 DEF NotDeployedHere
    <3>2. c \in DataCenters(ring)
      BY <1>1, <2>6, <2>8 DEF DataCenters, PassInv
    <3>3. DataCenters(ring) = {c}
      BY <3>1, <3>2
    <3> QED BY <1>2, <1>4, <2>1, <3>3
  <2> QED BY <2>9, <2>10
<1> QED BY <1>5, <1>6

(***************************************************************************)
(* A ring of several data centres that has come to rest had the data       *)
(* centre that completed it rebuilt from another one, unless the operator  *)
(* could not count, its resource contradicted the ring by then, or its     *)
(* first pass failed.                                                      *)
(***************************************************************************)
THEOREM LastDataCentreRebuilt == Spec => []NewDataCentreRebuilt
<1>1. Init => RebuildInv
  BY DEF Init, RebuildInv
<1>2. RingInv /\ RingInv' /\ RebuildInv /\ [Next]_vars => RebuildInv'
  <2> SUFFICES ASSUME RingInv, RingInv', RebuildInv, [Next]_vars PROVE RebuildInv'
    OBVIOUS
  <2>1. CASE Next
    BY <2>1, StepFrame, RebuildNext DEF Next
  <2>2. CASE UNCHANGED vars
    BY <2>2 DEF vars, passVars, sharedVars, history, RebuildInv, Open, Unfinished, DataCenters
  <2> QED BY <2>1, <2>2
<1>3. RingInv /\ RebuildInv => NewDataCentreRebuilt
  <2> SUFFICES ASSUME RingInv, RebuildInv, AtRest, Cardinality(DataCenters(ring)) > 1,
                      last \notin aborted \cup doubted
               PROVE  last \in rebuilt
    BY DEF NewDataCentreRebuilt
  <2>1. /\ last \in Clusters /\ last # None /\ recorded[last] # None /\ pc[last] = "idle"
        /\ ~Unfinished
    BY RestFacts, ConstantFacts
  <2>2. Cardinality({last}) = 1
    BY FS_Singleton
  <2>3. DataCenters(ring) # {last}
    BY <2>2
  <2> QED BY <2>1, <2>3 DEF RebuildInv
<1> QED BY <1>1, <1>2, <1>3, RingInvariant, PTL DEF Spec
=============================================================================
