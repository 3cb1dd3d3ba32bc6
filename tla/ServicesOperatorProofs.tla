------------------------ MODULE ServicesOperatorProofs ------------------------
(***************************************************************************)
(* Theorems about ServicesOperator for any versions of the custom          *)
(* resource, any number of pods, key pairs and attempts, and any number of *)
(* edits and failures: type correctness, that keys in use are never        *)
(* replaced, that the ports of what was deployed agree, and that the       *)
(* backup daemon can reach every node.                                     *)
(***************************************************************************)
EXTENDS ServicesOperator, SequenceTheorems, WellFoundedInduction, TLAPS

(***************************************************************************)
(* The order of the steps in a program: within a component one step is     *)
(* followed by another of the same, and after the last one the first step  *)
(* of another component comes.                                             *)
(***************************************************************************)
SshSteps == {"selectKeys", "alterKeyspace", "createKeyspace", "insertPublic", "insertPrivate",
             "createSecret", "listPods", "writeKeys"}
Follow ==
  { <<"createPVC", "deleteService">>, <<"deleteService", "createService">>,
    <<"createService", "selectKeys">>, <<"createService", "deleteDeployment">>,
    <<"createKeyspace", "insertPublic">>, <<"insertPublic", "insertPrivate">>,
    <<"insertPrivate", "createSecret">>, <<"alterKeyspace", "createSecret">>,
    <<"createSecret", "listPods">>, <<"selectKeys", "deleteDeployment">>,
    <<"listPods", "deleteDeployment">>, <<"writeKeys", "deleteDeployment">>,
    <<"deleteDeployment", "createDeployment">>, <<"createDeployment", "waitReady">> }
FirstSteps(c) == IF c = "robot" THEN {"deleteDeployment"} ELSE {"createPVC", "deleteService"}
Link(x, y, s) ==
  IF x[2] = "waitReady"
    THEN y[2] \in FirstSteps(y[1])
    ELSE /\ y[1] = x[1] /\ <<x[2], y[2]>> \in Follow
         /\ x[1] = "backup" /\ x[2] = "createService" /\ ~s.common.aws => y[2] = "selectKeys"
Linked(p, s) ==
  /\ p \in Seq(Names \X StepNames)
  /\ \A i \in 1..Len(p) : /\ p[i][2] \in SshSteps => p[i][1] = "backup"
                          /\ p[i][2] # "waitReady" => i < Len(p)
  /\ \A i \in 1..Len(p) - 1 : Link(p[i], p[i + 1], s)

Pending(c) == \E i \in 1..Len(program) : program[i][1] = c

\* The program of a pass, and the components it is for.
ProgramInv ==
  /\ phase # "run" => program = <<>>
  /\ phase = "run" =>
       /\ Linked(program, target) /\ ran = Selected(target)
       /\ \A i \in 1..Len(program) : program[i][1] \in ran

Complete(pair) == pair.public # None /\ pair.public = pair.private
HeadIs(steps) == phase = "run" /\ program # <<>> /\ Head(program)[2] \in steps

(***************************************************************************)
(* While no stored key was misread: a private key is stored only after its *)
(* public one, the secret is copied from complete rows, and pods are given *)
(* the key of the secret. The pair in the hands of the ssh step is a new   *)
(* one until it is stored, and the stored one from then on.                *)
(***************************************************************************)
KeysInv ==
  ~misread =>
    /\ rows.private # None => rows.public = rows.private
    /\ sshSecret # NoPair => sshSecret = rows /\ Complete(rows)
    /\ \A n \in Nodes : auth[n] # None => sshSecret # NoPair /\ auth[n] = sshSecret.public
    /\ HeadIs({"createKeyspace", "insertPublic"}) => Complete(keys) /\ rows.private = None
    /\ HeadIs({"insertPrivate"}) =>
         Complete(keys) /\ rows.private = None /\ rows.public = keys.public
    /\ HeadIs({"alterKeyspace", "createSecret"}) => Complete(keys) /\ keys = rows
    /\ HeadIs({"listPods", "writeKeys"}) =>
         Complete(keys) /\ keys = rows /\ sshSecret = keys

\* What a pass has established about a component when it is through with it.
ServiceOk(c, s) == c # "robot" => services[c] = GetHTTPPort(TLSOf(c, s))
KeysDone(s) ==
  ~s.common.aws /\ ~misread /\ ~unseen =>
    /\ Complete(sshSecret) /\ sshSecret = rows
    /\ \A n \in 0..Replicas(s) - 1 : auth[n] = sshSecret.public
KeyspaceDone(s) ==
  ~s.common.aws /\ generated <= 1 => replication = s.common.dcs
Done(c, s) ==
  /\ c \in ready /\ ServiceOk(c, s)
  /\ \E t \in Specs : t.common = s.common /\ t[c] = s[c] /\ deployments[c] = Template(c, t)
  /\ c = "backup" => KeysDone(s) /\ KeyspaceDone(s)

(***************************************************************************)
(* While at most one key pair was generated: the keyspace is created by    *)
(* the pass that generated it, and for the schema of that pass; past its   *)
(* creation, or its alteration, it has the schema of the running one.      *)
(***************************************************************************)
PastKeyspace == {"insertPublic", "insertPrivate", "createSecret", "listPods", "writeKeys"}
KeyspaceInv ==
  /\ generated = 0 =>
       /\ replication = None /\ rows = NoPair
       /\ ~HeadIs({"createKeyspace", "alterKeyspace"} \cup PastKeyspace)
  /\ HeadIs({"createKeyspace"}) /\ generated <= 1 => replication = None
  /\ HeadIs(PastKeyspace) /\ generated <= 1 => replication = target.common.dcs

\* The progress of a pass within the component it is at.
HeadInv ==
  /\ phase = "run" /\ program # <<>> =>
       /\ ~HeadIs({"createPVC", "deleteService", "createService"}) => ServiceOk(Here, target)
       /\ HeadIs({"deleteDeployment", "createDeployment", "waitReady"}) /\ Here = "backup" =>
            KeysDone(target) /\ KeyspaceDone(target)
       /\ HeadIs({"waitReady"}) => deployments[Here] = Template(Here, target)
  /\ HeadIs({"writeKeys"}) =>
       /\ listed # {}
       /\ ~unseen => \A n \in 0..Replicas(target) - 1 : n \in listed \/ auth[n] = keys.public

\* Cassandra has the nodes of the schema unless the pass was misled.
PodsInv ==
  phase = "run" /\ "backup" \in ran /\ ~unseen => Replicas(target) <= cassandra.pods

AppliedInv ==
  /\ \A c \in Names :
       ( /\ recorded # None /\ recorded[c].install /\ c \notin dirty
         /\ phase # "run" \/ c \notin ran )
       => Done(c, recorded)
  /\ phase = "run" => \A c \in ran : Pending(c) \/ Done(c, target)
-----------------------------------------------------------------------------
(* Nodes of one data centre.                                               *)

\* The replicas of a single data centre are the nodes of the schema: the fold
\* that adds them up has one element.
LEMMA OneDataCentre ==
  ASSUME NEW s, s.common.dcs \in Seq(Nat), Len(s.common.dcs) = 1
  PROVE  Replicas(s) = s.common.dcs[1]
<1> DEFINE q == s.common.dcs
           Body(f) == [t \in SUBSET DOMAIN q |->
                         IF t = {} THEN 0
                         ELSE LET x == CHOOSE x \in t : TRUE IN q[x] + f[t \ {x}]]
           iter == CHOOSE f : f = Body(f)
           g == [t \in SUBSET DOMAIN q |-> IF t = {} THEN 0 ELSE q[1]]
<1>1. DOMAIN q = {1}
  OBVIOUS
<1>2. Replicas(s) = iter[DOMAIN q]
  BY DEF Replicas, FoldSeq, FoldFunction, FoldFunctionOnSet, MapThenFoldSet
<1>3. \A t \in SUBSET DOMAIN q : t = {} \/ t = {1}
  BY <1>1
<1>4. (CHOOSE x \in {1} : TRUE) = 1
  OBVIOUS
<1>5. q[1] \in Nat
  <2>1. q \in Seq(Nat) /\ 1 \in 1..Len(q)
    OBVIOUS
  <2> HIDE DEF q
  <2> QED BY <2>1
<1>6. g = Body(g)
  <2>1. ASSUME NEW t \in SUBSET DOMAIN q PROVE g[t] = Body(g)[t]
    BY <1>1, <1>3, <1>4, <1>5
  <2> QED BY <2>1
<1>7. iter = Body(iter)
  <2> HIDE DEF Body, g
  <2>1. \E f : f = Body(f)
    BY <1>6
  <2> QED BY <2>1, Zenon
<1> HIDE DEF iter
<1>8. iter[{}] = 0
  BY <1>1, <1>7
<1>9. iter[{1}] = q[1] + iter[{}]
  <2>1. Body(iter)[{1}] = q[1] + iter[{1} \ {1}]
    BY <1>1, <1>4
  <2> QED BY <1>7, <2>1
<1> QED BY <1>1, <1>2, <1>5, <1>8, <1>9

\* The next pod the keys are written to is one that is left.
LEMMA ThisPodIsListed ==
  ASSUME listed \subseteq Nat, listed # {}
  PROVE  ThisPod \in listed
<1> DEFINE R == {ss \in Nat \X Nat : ss[1] < ss[2]}
<1>1. IsWellFoundedOn(R, Nat)
  BY NatLessThanWellFounded DEF OpToRel
<1>2. PICK x \in listed : \A y \in listed : ~(<<y, x>> \in R)
  <2> HIDE DEF R
  <2> QED BY <1>1, WFMin
<1>3. ASSUME NEW y \in listed PROVE x <= y
  <2>1. <<y, x>> \in Nat \X Nat /\ x \in Nat /\ y \in Nat
    OBVIOUS
  <2>2. ~(y < x)
    BY <1>2, <2>1
  <2> QED BY <2>1, <2>2
<1> QED BY <1>3 DEF ThisPod

-----------------------------------------------------------------------------
(* Programs.                                                               *)

\* The names, spelled out.
LEMMA NameFacts ==
  /\ Names = {"backup", "dbaas", "robot"}
  /\ Components[1] = "backup" /\ Components[2] = "dbaas" /\ Components[3] = "robot"
<1>1. /\ Len(Components) = 3
      /\ Components[1] = "backup" /\ Components[2] = "dbaas" /\ Components[3] = "robot"
  BY DEF Components
<1>2. 1..3 = {1, 2, 3}
  OBVIOUS
<1> QED BY <1>1, <1>2 DEF Names

\* A step taken from the front leaves a program in order.
LEMMA TailLinked ==
  ASSUME NEW p, NEW s, Linked(p, s), p # <<>>
  PROVE  /\ Linked(Tail(p), s) /\ Len(Tail(p)) = Len(p) - 1 /\ Len(p) \in Nat \ {0}
         /\ Head(p) = p[1] /\ Head(p) \in Names \X StepNames
         /\ \A i \in 1..Len(p) - 1 : Tail(p)[i] = p[i + 1]
<1>1. p \in Seq(Names \X StepNames)
  BY DEF Linked
<1>2. /\ Tail(p) \in Seq(Names \X StepNames) /\ Len(Tail(p)) = Len(p) - 1
      /\ \A i \in 1..Len(p) - 1 : Tail(p)[i] = p[i + 1]
      /\ Len(p) \in Nat \ {0} /\ Head(p) = p[1] /\ Head(p) \in Names \X StepNames
  BY <1>1, HeadTailProperties, EmptySeq
<1>3. \A i \in 1..Len(p) - 1 : /\ i + 1 \in 1..Len(p) /\ Tail(p)[i] = p[i + 1]
                               /\ i < Len(p) - 1 <=> i + 1 < Len(p)
  BY <1>2
<1>4. \A i \in 1..Len(Tail(p)) :
        /\ Tail(p)[i][2] \in SshSteps => Tail(p)[i][1] = "backup"
        /\ Tail(p)[i][2] # "waitReady" => i < Len(Tail(p))
  BY <1>2, <1>3 DEF Linked
<1>5. ASSUME NEW i \in 1..Len(Tail(p)) - 1 PROVE Link(Tail(p)[i], Tail(p)[i + 1], s)
  <2>1. i + 1 \in 1..Len(p) - 1 /\ Tail(p)[i] = p[i + 1] /\ Tail(p)[i + 1] = p[(i + 1) + 1]
    BY <1>2
  <2>2. Link(p[i + 1], p[(i + 1) + 1], s)
    BY <2>1 DEF Linked
  <2> QED BY <2>1, <2>2
<1> QED BY <1>2, <1>4, <1>5 DEF Linked

\* Programs of two components can be put one after the other.
LEMMA ConcatLinked ==
  ASSUME NEW p, NEW q, NEW s, Linked(p, s), Linked(q, s),
         q # <<>> => q[1][2] \in FirstSteps(q[1][1])
  PROVE  /\ Linked(p \o q, s) /\ Len(p \o q) = Len(p) + Len(q)
         /\ Len(p) \in Nat /\ Len(q) \in Nat
         /\ \A i \in 1..Len(p) : (p \o q)[i] = p[i]
         /\ \A i \in 1..Len(q) : (p \o q)[Len(p) + i] = q[i]
<1> DEFINE r == p \o q
           m == Len(p)
           n == Len(q)
<1>1. p \in Seq(Names \X StepNames) /\ q \in Seq(Names \X StepNames)
  BY DEF Linked
<1>2. m \in Nat /\ n \in Nat
  BY <1>1, LenProperties
<1>3. /\ r \in Seq(Names \X StepNames) /\ Len(r) = m + n
      /\ \A i \in 1..m + n : r[i] = IF i <= m THEN p[i] ELSE q[i - m]
  BY <1>1, ConcatProperties
<1>4. \A i \in 1..m : /\ p[i][2] \in SshSteps => p[i][1] = "backup"
                      /\ p[i][2] # "waitReady" => i < m
  BY DEF Linked
<1>5. \A i \in 1..n : /\ q[i][2] \in SshSteps => q[i][1] = "backup"
                      /\ q[i][2] # "waitReady" => i < n
  BY DEF Linked
<1>6. \A i \in 1..m - 1 : Link(p[i], p[i + 1], s)
  BY DEF Linked
<1>7. \A i \in 1..n - 1 : Link(q[i], q[i + 1], s)
  BY DEF Linked
<1>8. n # 0 => q[1][2] \in FirstSteps(q[1][1])
  BY <1>1, EmptySeq
<1> HIDE DEF r, m, n
<1>9. /\ \A i \in 1..m : r[i] = p[i]
      /\ \A i \in 1..n : r[m + i] = q[i]
  <2>1. \A i \in 1..m : i \in 1..m + n /\ i <= m
    BY <1>2
  <2>2. \A i \in 1..n : m + i \in 1..m + n /\ ~(m + i <= m) /\ (m + i) - m = i
    BY <1>2
  <2> QED BY <1>3, <2>1, <2>2
<1>10. ASSUME NEW i \in 1..m + n
       PROVE  /\ r[i][2] \in SshSteps => r[i][1] = "backup"
              /\ r[i][2] # "waitReady" => i < m + n
  <2>1. CASE i <= m
    <3>1. i \in 1..m
      BY <1>2, <2>1
    <3> QED BY <1>2, <1>4, <1>9, <3>1
  <2>2. CASE ~(i <= m)
    <3>1. i - m \in 1..n /\ r[i] = q[i - m] /\ (i - m < n => i < m + n)
      BY <1>2, <1>3, <2>2
    <3> QED BY <1>5, <3>1
  <2> QED BY <2>1, <2>2
<1>11. ASSUME NEW i \in 1..m + n - 1 PROVE Link(r[i], r[i + 1], s)
  <2>1. CASE i < m
    <3>1. i \in 1..m - 1 /\ i \in 1..m /\ i + 1 \in 1..m
      BY <1>2, <2>1
    <3>2. Link(p[i], p[i + 1], s) /\ r[i] = p[i] /\ r[i + 1] = p[i + 1]
      BY <1>6, <1>9, <3>1
    <3> QED BY <3>2
  <2>2. CASE i = m
    <3>1. m \in 1..m /\ 1 \in 1..n /\ n # 0 /\ ~(m < m) /\ i + 1 = m + 1
      BY <1>2, <2>2
    <3>2. p[m][2] = "waitReady" /\ r[i] = p[m] /\ r[i + 1] = q[1]
      BY <1>4, <1>9, <2>2, <3>1
    <3> QED BY <1>8, <3>1, <3>2 DEF Link
  <2>3. CASE i > m
    <3>1. i - m \in 1..n - 1 /\ i - m \in 1..n /\ (i - m) + 1 \in 1..n
          /\ m + (i - m) = i /\ m + ((i - m) + 1) = i + 1
      BY <1>2, <2>3
    <3>2. r[i] = q[i - m] /\ r[i + 1] = q[(i - m) + 1] /\ Link(q[i - m], q[(i - m) + 1], s)
      BY <1>7, <1>9, <3>1
    <3> QED BY <3>2
  <2> QED BY <1>2, <2>1, <2>2, <2>3
<1>12. Linked(r, s)
  <2>1. \A i \in 1..Len(r) : /\ r[i][2] \in SshSteps => r[i][1] = "backup"
                             /\ r[i][2] # "waitReady" => i < Len(r)
    BY <1>3, <1>10
  <2>2. ASSUME NEW i \in 1..Len(r) - 1 PROVE Link(r[i], r[i + 1], s)
    <3>1. i \in 1..m + n - 1
      BY <1>2, <1>3
    <3> QED BY <1>11, <3>1
  <2> QED BY <1>3, <2>1, <2>2 DEF Linked
<1> QED BY <1>2, <1>3, <1>9, <1>12 DEF r, m, n

\* The steps of one component, in order.
StepList(b, c, s) ==
  /\ b \in Seq(StepNames) /\ Len(b) \in Nat \ {0} /\ b[1] \in FirstSteps(c)
  /\ \A i \in 1..Len(b) : /\ b[i] \in SshSteps => c = "backup"
                          /\ b[i] # "waitReady" => i < Len(b)
  /\ \A i \in 1..Len(b) - 1 :
       /\ b[i] # "waitReady" /\ <<b[i], b[i + 1]>> \in Follow
       /\ c = "backup" /\ b[i] = "createService" /\ ~s.common.aws => b[i + 1] = "selectKeys"

\* Every builder puts the steps of its component in order.
LEMMA BuildInOrder ==
  ASSUME NEW c \in Names, NEW s
  PROVE  StepList(Build(c, s), c, s)
<1> USE DEF ServiceSteps, DeploymentSteps, StepNames, FirstSteps, SshSteps, Follow
<1>1. CASE c = "robot"
  <2> DEFINE b == <<"deleteDeployment", "createDeployment", "waitReady">>
  <2>1. Build(c, s) = b
    BY <1>1 DEF Build, RobotBuilder
  <2>2. b \in Seq(StepNames) /\ Len(b) = 3
        /\ b[1] = "deleteDeployment" /\ b[2] = "createDeployment" /\ b[3] = "waitReady"
    OBVIOUS
  <2> HIDE DEF b
  <2>3. StepList(b, c, s)
    BY <1>1, <2>2 DEF StepList
  <2> QED BY <2>1, <2>3
<1>2. CASE c = "dbaas"
  <2> DEFINE b == ServiceSteps \o DeploymentSteps
  <2>1. Build(c, s) = b
    BY <1>2 DEF Build, DbaasBuilder
  <2>2. b \in Seq(StepNames) /\ Len(b) = 5
        /\ b[1] = "deleteService" /\ b[2] = "createService"
        /\ b[3] = "deleteDeployment" /\ b[4] = "createDeployment" /\ b[5] = "waitReady"
    OBVIOUS
  <2> HIDE DEF b
  <2>3. StepList(b, c, s)
    BY <1>2, <2>2 DEF StepList
  <2> QED BY <2>1, <2>3
<1>3. CASE c = "backup"
  <2> DEFINE b == BackupBuilder(s)
  <2>1. Build(c, s) = b
    BY <1>3 DEF Build
  <2>2. CASE s.backup.emptyDir /\ s.common.aws
    <3>1. b \in Seq(StepNames) /\ Len(b) = 5
          /\ b[1] = "deleteService" /\ b[2] = "createService"
          /\ b[3] = "deleteDeployment" /\ b[4] = "createDeployment" /\ b[5] = "waitReady"
      BY <2>2 DEF BackupBuilder
    <3> HIDE DEF b
    <3>2. StepList(b, c, s)
      BY <1>3, <2>2, <3>1 DEF StepList
    <3> QED BY <2>1, <3>2
  <2>3. CASE s.backup.emptyDir /\ ~s.common.aws
    <3>1. b \in Seq(StepNames) /\ Len(b) = 6
          /\ b[1] = "deleteService" /\ b[2] = "createService" /\ b[3] = "selectKeys"
          /\ b[4] = "deleteDeployment" /\ b[5] = "createDeployment" /\ b[6] = "waitReady"
      BY <2>3 DEF BackupBuilder
    <3> HIDE DEF b
    <3>2. StepList(b, c, s)
      BY <1>3, <2>3, <3>1 DEF StepList
    <3> QED BY <2>1, <3>2
  <2>4. CASE ~s.backup.emptyDir /\ s.common.aws
    <3>1. b \in Seq(StepNames) /\ Len(b) = 6
          /\ b[1] = "createPVC" /\ b[2] = "deleteService" /\ b[3] = "createService"
          /\ b[4] = "deleteDeployment" /\ b[5] = "createDeployment" /\ b[6] = "waitReady"
      BY <2>4 DEF BackupBuilder
    <3> HIDE DEF b
    <3>2. StepList(b, c, s)
      BY <1>3, <2>4, <3>1 DEF StepList
    <3> QED BY <2>1, <3>2
  <2>5. CASE ~s.backup.emptyDir /\ ~s.common.aws
    <3>1. b \in Seq(StepNames) /\ Len(b) = 7
          /\ b[1] = "createPVC" /\ b[2] = "deleteService" /\ b[3] = "createService"
          /\ b[4] = "selectKeys"
          /\ b[5] = "deleteDeployment" /\ b[6] = "createDeployment" /\ b[7] = "waitReady"
      BY <2>5 DEF BackupBuilder
    <3> HIDE DEF b
    <3>2. StepList(b, c, s)
      BY <1>3, <2>5, <3>1 DEF StepList
    <3> QED BY <2>1, <3>2
  <2> QED BY <2>2, <2>3, <2>4, <2>5
<1> QED BY <1>1, <1>2, <1>3, NameFacts

\* So the part of a component is a program in order, of that component.
LEMMA PartLinked ==
  ASSUME NEW c \in Names, NEW s
  PROVE  /\ Linked(Part(c, s), s)
         /\ Part(c, s) # <<>> => Part(c, s)[1][2] \in FirstSteps(Part(c, s)[1][1])
         /\ \A i \in 1..Len(Part(c, s)) : Part(c, s)[i][1] = c
         /\ c \in Selected(s) <=> Len(Part(c, s)) # 0
         /\ Len(Part(c, s)) \in Nat
<1>1. CASE c \notin Selected(s)
  <2>1. Part(c, s) = <<>> /\ Len(Part(c, s)) = 0
    BY <1>1 DEF Part
  <2> QED BY <1>1, <2>1 DEF Linked
<1>2. CASE c \in Selected(s)
  <2> DEFINE b == Build(c, s)
             p == [i \in 1..Len(b) |-> <<c, b[i]>>]
  <2>1. StepList(b, c, s)
    BY BuildInOrder
  <2>2. Part(c, s) = p
    BY <1>2 DEF Part
  <2>3. b \in Seq(StepNames) /\ Len(b) \in Nat \ {0} /\ \A i \in 1..Len(b) : b[i] \in StepNames
    BY <2>1, ElementOfSeq DEF StepList
  <2> HIDE DEF b
  <2>4. p \in Seq(Names \X StepNames) /\ Len(p) = Len(b)
        /\ \A i \in 1..Len(b) : p[i] = <<c, b[i]>> /\ p[i][1] = c /\ p[i][2] = b[i]
    BY <2>3
  <2> HIDE DEF p
  <2>5. \A i \in 1..Len(p) : /\ p[i][2] \in SshSteps => p[i][1] = "backup"
                             /\ p[i][2] # "waitReady" => i < Len(p)
    BY <2>1, <2>4 DEF StepList
  <2>6. ASSUME NEW i \in 1..Len(p) - 1 PROVE Link(p[i], p[i + 1], s)
    <3>1. i \in 1..Len(b) /\ i + 1 \in 1..Len(b) /\ i \in 1..Len(b) - 1
      BY <2>3, <2>4
    <3>2. /\ b[i] # "waitReady" /\ <<b[i], b[i + 1]>> \in Follow
          /\ c = "backup" /\ b[i] = "createService" /\ ~s.common.aws => b[i + 1] = "selectKeys"
      BY <2>1, <3>1 DEF StepList
    <3>3. /\ p[i][1] = c /\ p[i][2] = b[i] /\ p[i + 1][1] = c /\ p[i + 1][2] = b[i + 1]
      BY <2>4, <3>1
    <3> QED BY <3>2, <3>3 DEF Link
  <2>7. p[1][2] \in FirstSteps(p[1][1])
    <3>1. 1 \in 1..Len(b) /\ b[1] \in FirstSteps(c)
      BY <2>1, <2>3 DEF StepList
    <3> QED BY <2>4, <3>1
  <2>8. Linked(p, s)
    BY <2>4, <2>5, <2>6 DEF Linked
  <2> QED BY <1>2, <2>2, <2>3, <2>4, <2>7, <2>8
<1> QED BY <1>1, <1>2

\* The program of a pass is in order, and works on the selected components.
LEMMA BuilderLinked ==
  ASSUME NEW s
  PROVE  LET p == CassandraServiceBuilder(s)
         IN  /\ Linked(p, s)
             /\ p # <<>> => Head(p)[2] \in FirstSteps(Head(p)[1])
             /\ \A i \in 1..Len(p) : p[i][1] \in Selected(s)
             /\ \A c \in Selected(s) : \E i \in 1..Len(p) : p[i][1] = c
<1> DEFINE A == Part("backup", s)
           B == Part("dbaas", s)
           C == Part("robot", s)
           AB == A \o B
           P == AB \o C
           Starts(p) == p # <<>> => p[1][2] \in FirstSteps(p[1][1])
           Own(p, c) == /\ \A i \in 1..Len(p) : p[i][1] = c
                        /\ c \in Selected(s) <=> Len(p) # 0
<1>1. CassandraServiceBuilder(s) = P
  BY NameFacts DEF CassandraServiceBuilder
<1>2. /\ Linked(A, s) /\ Starts(A) /\ Own(A, "backup") /\ Len(A) \in Nat
      /\ Linked(B, s) /\ Starts(B) /\ Own(B, "dbaas") /\ Len(B) \in Nat
      /\ Linked(C, s) /\ Starts(C) /\ Own(C, "robot") /\ Len(C) \in Nat
  BY PartLinked, NameFacts
<1> HIDE DEF A, B, C
<1>3. /\ Linked(AB, s) /\ Len(AB) = Len(A) + Len(B)
      /\ \A i \in 1..Len(A) : AB[i] = A[i]
      /\ \A i \in 1..Len(B) : AB[Len(A) + i] = B[i]
  BY <1>2, ConcatLinked
<1> HIDE DEF AB
<1>4. /\ Linked(P, s) /\ Len(P) = Len(AB) + Len(C)
      /\ \A i \in 1..Len(AB) : P[i] = AB[i]
      /\ \A i \in 1..Len(C) : P[Len(AB) + i] = C[i]
  <2>1. Linked(AB, s) /\ Linked(C, s) /\ (C # <<>> => C[1][2] \in FirstSteps(C[1][1]))
    BY <1>2, <1>3
  <2> QED BY <2>1, ConcatLinked
<1> HIDE DEF P
<1>5. /\ A \in Seq(Names \X StepNames) /\ B \in Seq(Names \X StepNames)
      /\ C \in Seq(Names \X StepNames) /\ P \in Seq(Names \X StepNames)
  BY <1>2, <1>4 DEF Linked
<1>6. ASSUME NEW i \in 1..Len(P) PROVE P[i][1] \in Selected(s)
  <2>1. CASE i <= Len(A)
    <3>1. i \in 1..Len(A) /\ i \in 1..Len(AB) /\ Len(A) # 0
      BY <1>2, <1>3, <2>1
    <3> QED BY <1>2, <1>3, <1>4, <3>1
  <2>2. CASE ~(i <= Len(A)) /\ i <= Len(A) + Len(B)
    <3>1. i - Len(A) \in 1..Len(B) /\ i \in 1..Len(AB) /\ Len(B) # 0 /\ Len(A) + (i - Len(A)) = i
      BY <1>2, <1>3, <2>2
    <3>2. P[i] = B[i - Len(A)]
      BY <1>3, <1>4, <3>1
    <3> QED BY <1>2, <3>1, <3>2
  <2>3. CASE ~(i <= Len(A) + Len(B))
    <3>1. i - Len(AB) \in 1..Len(C) /\ Len(C) # 0 /\ Len(AB) + (i - Len(AB)) = i
      BY <1>2, <1>3, <1>4, <2>3
    <3>2. P[i] = C[i - Len(AB)]
      BY <1>4, <3>1
    <3> QED BY <1>2, <3>1, <3>2
  <2> QED BY <2>1, <2>2, <2>3
<1>7. ASSUME NEW c \in Selected(s) PROVE \E i \in 1..Len(P) : P[i][1] = c
  <2>1. c = "backup" \/ c = "dbaas" \/ c = "robot"
    BY NameFacts DEF Selected
  <2>2. CASE c = "backup"
    <3>1. 1 \in 1..Len(A) /\ 1 \in 1..Len(AB) /\ 1 \in 1..Len(P)
      BY <1>2, <1>3, <1>4, <2>2
    <3> QED BY <1>2, <1>3, <1>4, <2>2, <3>1
  <2>3. CASE c = "dbaas"
    <3>1. 1 \in 1..Len(B) /\ Len(A) + 1 \in 1..Len(AB) /\ Len(A) + 1 \in 1..Len(P)
      BY <1>2, <1>3, <1>4, <2>3
    <3> QED BY <1>2, <1>3, <1>4, <2>3, <3>1
  <2>4. CASE c = "robot"
    <3>1. 1 \in 1..Len(C) /\ Len(AB) + 1 \in 1..Len(P)
      BY <1>2, <1>3, <1>4, <2>4
    <3> QED BY <1>2, <1>4, <2>4, <3>1
  <2> QED BY <2>1, <2>2, <2>3, <2>4
<1>8. P # <<>> => Head(P)[2] \in FirstSteps(Head(P)[1])
  <2> SUFFICES ASSUME P # <<>> PROVE P[1][2] \in FirstSteps(P[1][1])
    BY <1>5
  <2>1. Len(P) \in Nat \ {0}
    BY <1>5, EmptySeq
  <2>2. CASE Len(A) # 0
    <3>1. A # <<>> /\ 1 \in 1..Len(A) /\ 1 \in 1..Len(AB)
      BY <1>2, <1>3, <2>2
    <3> QED BY <1>2, <1>3, <1>4, <3>1
  <2>3. CASE Len(A) = 0 /\ Len(B) # 0
    <3>1. B # <<>> /\ 1 \in 1..Len(B) /\ 1 \in 1..Len(AB) /\ Len(A) + 1 = 1
      BY <1>2, <1>3, <2>3
    <3> QED BY <1>2, <1>3, <1>4, <3>1
  <2>4. CASE Len(A) = 0 /\ Len(B) = 0
    <3>1. C # <<>> /\ 1 \in 1..Len(C) /\ Len(AB) + 1 = 1
      BY <1>2, <1>3, <1>4, <2>1, <2>4
    <3> QED BY <1>2, <1>4, <3>1
  <2> QED BY <2>2, <2>3, <2>4
<1> QED BY <1>1, <1>4, <1>6, <1>7, <1>8

\* The ssh step goes on with other steps of its own in the place of the first.
LEMMA ThenLinked ==
  ASSUME NEW p, NEW s, Linked(p, s), p # <<>>, Head(p)[2] \in {"selectKeys", "listPods"},
         NEW steps \in Seq(SshSteps), Len(steps) \in Nat \ {0},
         \A i \in 1..Len(steps) - 1 : <<steps[i], steps[i + 1]>> \in Follow,
         steps[Len(steps)] \in {"listPods", "writeKeys"}
  PROVE  LET q == [i \in 1..Len(steps) |-> <<Head(p)[1], steps[i]>>] \o Tail(p)
         IN  /\ Linked(q, s) /\ q # <<>> /\ Head(q) = <<Head(p)[1], steps[1]>>
             /\ \A i \in 1..Len(q) : \E j \in 1..Len(p) : q[i][1] = p[j][1]
             /\ \A j \in 1..Len(p) : \E i \in 1..Len(q) : q[i][1] = p[j][1]
<1> DEFINE m == Len(steps)
           a == [i \in 1..Len(steps) |-> <<Head(p)[1], steps[i]>>]
           t == Tail(p)
           n == Len(p) - 1
           q == a \o t
<1>1. /\ Linked(t, s) /\ Len(t) = n /\ n \in Nat /\ Head(p) = p[1]
      /\ p[1] \in Names \X StepNames
      /\ \A i \in 1..n : t[i] = p[i + 1]
  <2>1. /\ Linked(Tail(p), s) /\ Len(Tail(p)) = Len(p) - 1 /\ Len(p) \in Nat \ {0}
        /\ Head(p) = p[1] /\ Head(p) \in Names \X StepNames
        /\ \A i \in 1..Len(p) - 1 : Tail(p)[i] = p[i + 1]
    BY TailLinked
  <2>2. Len(p) - 1 \in Nat
    BY <2>1
  <2> QED BY <2>1, <2>2
<1>2. /\ p[1][1] = "backup" /\ 0 < n /\ Link(p[1], p[2], s)
  <2>1. 1 \in 1..Len(p) /\ (1 < Len(p) => 0 < n /\ 1 \in 1..Len(p) - 1)
    BY TailLinked
  <2> QED BY <1>1, <2>1 DEF Linked, SshSteps
<1>3. t[1] = p[2] /\ p[2][1] = "backup" /\ p[2][2] = "deleteDeployment"
  BY <1>1, <1>2 DEF Link, Follow
<1>4. \A i \in 1..m : steps[i] \in SshSteps /\ steps[i] \in StepNames /\ steps[i] # "waitReady"
  BY ElementOfSeq DEF SshSteps, StepNames
<1>5. /\ a \in Seq(Names \X StepNames) /\ Len(a) = m
      /\ \A i \in 1..m : a[i] = <<"backup", steps[i]>>
  BY <1>1, <1>2, <1>4, NameFacts
<1>6. t \in Seq(Names \X StepNames)
  BY <1>1 DEF Linked
<1>7. /\ q \in Seq(Names \X StepNames) /\ Len(q) = m + n
      /\ \A i \in 1..m + n : q[i] = IF i <= m THEN a[i] ELSE t[i - m]
  BY <1>1, <1>5, <1>6, ConcatProperties
<1>8. /\ \A i \in 1..n : /\ t[i][2] \in SshSteps => t[i][1] = "backup"
                         /\ t[i][2] # "waitReady" => i < n
      /\ \A i \in 1..n - 1 : Link(t[i], t[i + 1], s)
  BY <1>1 DEF Linked
<1>9. /\ m \in Nat \ {0} /\ steps[m] \in {"listPods", "writeKeys"}
      /\ \A i \in 1..m - 1 : <<steps[i], steps[i + 1]>> \in Follow
  OBVIOUS
<1> HIDE DEF a, t, q, m, n
<1>10. /\ \A i \in 1..m : q[i] = <<"backup", steps[i]>> /\ i \in 1..m + n
       /\ \A i \in 1..n : q[m + i] = t[i] /\ m + i \in 1..m + n
  <2>1. \A i \in 1..m : i \in 1..m + n /\ i <= m
    BY <1>1, <1>9
  <2>2. \A i \in 1..n : m + i \in 1..m + n /\ ~(m + i <= m) /\ (m + i) - m = i
    BY <1>1, <1>9
  <2> QED BY <1>5, <1>7, <2>1, <2>2
<1>11. ASSUME NEW i \in 1..m + n
       PROVE  /\ q[i][2] \in SshSteps => q[i][1] = "backup"
              /\ q[i][2] # "waitReady" => i < m + n
  <2>1. CASE i <= m
    <3>1. i \in 1..m /\ i < m + n
      BY <1>1, <1>2, <1>9, <2>1
    <3> QED BY <1>10, <3>1
  <2>2. CASE ~(i <= m)
    <3>1. i - m \in 1..n /\ m + (i - m) = i /\ (i - m < n => i < m + n)
      BY <1>1, <1>9, <2>2
    <3> QED BY <1>8, <1>10, <3>1
  <2> QED BY <2>1, <2>2
<1>12. ASSUME NEW i \in 1..m + n - 1 PROVE Link(q[i], q[i + 1], s)
  <2>1. CASE i < m
    <3>1. i \in 1..m - 1 /\ i \in 1..m /\ i + 1 \in 1..m
      BY <1>9, <2>1
    <3>2. q[i] = <<"backup", steps[i]>> /\ q[i + 1] = <<"backup", steps[i + 1]>>
          /\ <<steps[i], steps[i + 1]>> \in Follow /\ steps[i] # "waitReady"
          /\ steps[i] # "createService"
      BY <1>4, <1>9, <1>10, <3>1 DEF SshSteps
    <3> QED BY <3>2 DEF Link
  <2>2. CASE i = m
    <3>1. m \in 1..m /\ 1 \in 1..n /\ i + 1 = m + 1
      BY <1>1, <1>2, <1>9, <2>2
    <3>2. q[i] = <<"backup", steps[m]>> /\ q[i + 1] = p[2]
      BY <1>3, <1>10, <2>2, <3>1
    <3> QED BY <1>3, <1>9, <3>2 DEF Link, Follow
  <2>3. CASE i > m
    <3>1. i - m \in 1..n - 1 /\ i - m \in 1..n /\ (i - m) + 1 \in 1..n
          /\ m + (i - m) = i /\ m + ((i - m) + 1) = i + 1
      BY <1>1, <1>9, <2>3
    <3>2. q[i] = t[i - m] /\ q[i + 1] = t[(i - m) + 1] /\ Link(t[i - m], t[(i - m) + 1], s)
      BY <1>8, <1>10, <3>1
    <3> QED BY <3>2
  <2> QED BY <1>1, <1>9, <2>1, <2>2, <2>3
<1>13. Linked(q, s)
  <2>1. \A i \in 1..Len(q) : /\ q[i][2] \in SshSteps => q[i][1] = "backup"
                             /\ q[i][2] # "waitReady" => i < Len(q)
    BY <1>7, <1>11
  <2>2. ASSUME NEW i \in 1..Len(q) - 1 PROVE Link(q[i], q[i + 1], s)
    <3>1. i \in 1..m + n - 1
      BY <1>1, <1>7, <1>9
    <3> QED BY <1>12, <3>1
  <2> QED BY <1>7, <2>1, <2>2 DEF Linked
<1>14. q # <<>> /\ Head(q) = <<Head(p)[1], steps[1]>>
  <2>1. Len(q) \in Nat \ {0} /\ 1 \in 1..m
    BY <1>1, <1>7, <1>9
  <2>2. q # <<>>
    BY <2>1
  <2>3. Head(q) = q[1]
    BY <1>7, <2>2
  <2> QED BY <1>1, <1>2, <1>10, <2>1, <2>2, <2>3
<1>15. ASSUME NEW i \in 1..Len(q) PROVE \E j \in 1..Len(p) : q[i][1] = p[j][1]
  <2>1. CASE i <= m
    <3>1. i \in 1..m /\ 1 \in 1..Len(p)
      BY <1>1, <1>7, <1>9, <2>1 DEF n
    <3> QED BY <1>2, <1>10, <3>1
  <2>2. CASE ~(i <= m)
    <3>1. i - m \in 1..n /\ m + (i - m) = i /\ (i - m) + 1 \in 1..Len(p)
      BY <1>1, <1>7, <1>9, <2>2 DEF n
    <3>2. q[i] = p[(i - m) + 1]
      BY <1>1, <1>10, <3>1
    <3> QED BY <3>1, <3>2
  <2> QED BY <2>1, <2>2
<1>16. ASSUME NEW j \in 1..Len(p) PROVE \E i \in 1..Len(q) : q[i][1] = p[j][1]
  <2>1. CASE j = 1
    <3>1. 1 \in 1..m /\ 1 \in 1..Len(q)
      BY <1>1, <1>7, <1>9
    <3> QED BY <1>2, <1>10, <2>1, <3>1
  <2>2. CASE j # 1
    <3>1. j - 1 \in 1..n /\ (j - 1) + 1 = j /\ m + (j - 1) \in 1..Len(q)
      BY <1>1, <1>7, <1>9, <2>2 DEF n
    <3>2. q[m + (j - 1)] = p[j]
      BY <1>1, <1>10, <3>1
    <3> QED BY <3>1, <3>2
  <2> QED BY <2>1, <2>2
<1> QED BY <1>13, <1>14, <1>15, <1>16 DEF a, t, q

-----------------------------------------------------------------------------
(* Types, and the program.                                                 *)

\* What a step that has been executed leaves: the next one of the same component,
\* or the first one of another.
LEMMA AfterNext1 ==
  ASSUME ProgramInv, phase = "run", program # <<>>, Next1, target' = target
  PROVE  /\ Here \in Names /\ Here \in ran /\ Pending(Here)
         /\ Head(program)[2] \in StepNames
         /\ Head(program)[2] \in SshSteps => Here = "backup"
         /\ Linked(program', target')
         /\ \A i \in 1..Len(program') : program'[i][1] \in ran
         /\ \A c : c # Here \/ Head(program)[2] # "waitReady" => (Pending(c) => Pending(c)')
         /\ Head(program)[2] # "waitReady" =>
              /\ program' # <<>> /\ Here' = Here
              /\ <<Head(program)[2], Head(program')[2]>> \in Follow
              /\ Here = "backup" /\ Head(program)[2] = "createService" /\ ~target.common.aws
                   => Head(program')[2] = "selectKeys"
         /\ Head(program)[2] = "waitReady" /\ program' # <<>> =>
              Head(program')[2] \in FirstSteps(Head(program')[1])
<1> DEFINE p == program
           q == program'
<1>1. Linked(p, target) /\ p # <<>> /\ q = Tail(p) /\ \A i \in 1..Len(p) : p[i][1] \in ran
  BY DEF ProgramInv, Next1
<1>2. /\ Linked(q, target) /\ Len(q) = Len(p) - 1 /\ Len(p) \in Nat \ {0}
      /\ Head(p) = p[1] /\ Head(p) \in Names \X StepNames
      /\ \A i \in 1..Len(p) - 1 : q[i] = p[i + 1]
  BY <1>1, TailLinked
<1>3. q \in Seq(Names \X StepNames)
  BY <1>2 DEF Linked
<1>4. /\ \A i \in 1..Len(p) : /\ p[i][2] \in SshSteps => p[i][1] = "backup"
                              /\ p[i][2] # "waitReady" => i < Len(p)
      /\ \A i \in 1..Len(p) - 1 : Link(p[i], p[i + 1], target)
  BY <1>1 DEF Linked
<1>5. 1 \in 1..Len(p) /\ Here = p[1][1] /\ Head(program)[2] = p[1][2]
  BY <1>2 DEF Here
<1>6. Here \in Names /\ p[1][2] \in StepNames
  BY <1>2 DEF Here
<1>7. ASSUME NEW i \in 1..Len(q) PROVE q[i][1] \in ran
  <2>1. i \in 1..Len(p) - 1 /\ i + 1 \in 1..Len(p)
    BY <1>2
  <2> QED BY <1>1, <1>2, <2>1
<1>8. ASSUME p[1][2] # "waitReady"
      PROVE  /\ q # <<>> /\ Head(q) = p[2] /\ Link(p[1], p[2], target) /\ Len(q) > 0
             /\ q[1] = p[2]
  <2>1. 1 < Len(p)
    BY <1>4, <1>5, <1>8
  <2>2. 1 \in 1..Len(p) - 1 /\ Len(q) > 0 /\ Len(q) \in Nat
    BY <1>2, <2>1
  <2>3. q # <<>>
    BY <2>2
  <2>4. Head(q) = q[1] /\ q[1] = p[2]
    BY <1>2, <1>3, <2>2, <2>3
  <2> QED BY <1>4, <2>2, <2>3, <2>4
<1>9. ASSUME NEW c, c # Here \/ p[1][2] # "waitReady", Pending(c) PROVE Pending(c)'
  <2>1. PICK i \in 1..Len(p) : p[i][1] = c
    BY <1>9 DEF Pending
  <2>2. CASE i = 1
    <3>1. q[1] = p[2] /\ Link(p[1], p[2], target) /\ Len(q) > 0 /\ p[1][2] # "waitReady"
      BY <1>5, <1>8, <1>9, <2>1, <2>2
    <3>2. q[1][1] = c /\ 1 \in 1..Len(q)
      BY <1>2, <2>1, <2>2, <3>1 DEF Link
    <3> QED BY <3>2 DEF Pending
  <2>3. CASE i # 1
    <3>1. i - 1 \in 1..Len(p) - 1 /\ i - 1 \in 1..Len(q) /\ (i - 1) + 1 = i
      BY <1>2, <2>3
    <3>2. q[i - 1] = p[i]
      BY <1>2, <3>1
    <3> QED BY <2>1, <3>1, <3>2 DEF Pending
  <2> QED BY <2>2, <2>3
<1>10. ASSUME p[1][2] = "waitReady", q # <<>> PROVE Head(q)[2] \in FirstSteps(Head(q)[1])
  <2>1. Len(q) \in Nat \ {0} /\ Head(q) = q[1]
    BY <1>3, <1>10, EmptySeq
  <2>2. 1 \in 1..Len(p) - 1
    BY <1>2, <2>1
  <2>3. q[1] = p[2] /\ Link(p[1], p[2], target)
    BY <1>2, <1>4, <2>2
  <2> QED BY <1>10, <2>1, <2>3 DEF Link
<1>11. p[1][2] # "waitReady" =>
         /\ q # <<>> /\ Here' = Here /\ <<p[1][2], Head(q)[2]>> \in Follow
         /\ Here = "backup" /\ p[1][2] = "createService" /\ ~target.common.aws
              => Head(q)[2] = "selectKeys"
  BY <1>5, <1>8 DEF Link, Here
<1>12. Here \in ran /\ Pending(Here)
  BY <1>1, <1>5 DEF Pending
<1>13. p[1][2] \in SshSteps => Here = "backup"
  BY <1>4, <1>5
<1>14. Linked(program', target')
  BY <1>2
<1> HIDE DEF p, q
<1> QED BY <1>5, <1>6, <1>7, <1>9, <1>10, <1>11, <1>12, <1>13, <1>14 DEF p, q

\* The same when the ssh step goes on with other steps.
LEMMA AfterThen ==
  ASSUME ProgramInv, phase = "run", program # <<>>,
         Head(program)[2] \in {"selectKeys", "listPods"},
         NEW steps \in Seq(SshSteps), Len(steps) \in Nat \ {0},
         \A i \in 1..Len(steps) - 1 : <<steps[i], steps[i + 1]>> \in Follow,
         steps[Len(steps)] \in {"listPods", "writeKeys"}, Then(steps), target' = target
  PROVE  /\ Here = "backup" /\ Here' = Here /\ Here \in ran
         /\ Linked(program', target')
         /\ \A i \in 1..Len(program') : program'[i][1] \in ran
         /\ \A c : Pending(c) => Pending(c)'
         /\ program' # <<>> /\ Head(program')[2] = steps[1]
<1>1. Linked(program, target) /\ \A i \in 1..Len(program) : program[i][1] \in ran
  BY DEF ProgramInv
<1>2. /\ Linked(program', target) /\ program' # <<>>
      /\ Head(program') = <<Head(program)[1], steps[1]>>
      /\ \A i \in 1..Len(program') : \E j \in 1..Len(program) : program'[i][1] = program[j][1]
      /\ \A j \in 1..Len(program) : \E i \in 1..Len(program') : program'[i][1] = program[j][1]
  <2> DEFINE q == [i \in 1..Len(steps) |-> <<Head(program)[1], steps[i]>>] \o Tail(program)
  <2>1. program' = q
    BY DEF Then, Here
  <2>2. /\ Linked(q, target) /\ q # <<>> /\ Head(q) = <<Head(program)[1], steps[1]>>
        /\ \A i \in 1..Len(q) : \E j \in 1..Len(program) : q[i][1] = program[j][1]
        /\ \A j \in 1..Len(program) : \E i \in 1..Len(q) : q[i][1] = program[j][1]
    BY <1>1, ThenLinked
  <2> HIDE DEF q
  <2> QED BY <2>1, <2>2
<1>3. Head(program) = program[1] /\ 1 \in 1..Len(program)
  BY <1>1, TailLinked
<1>4. Here = "backup" /\ Here \in ran
  <2>1. Here = program[1][1]
    BY <1>3 DEF Here
  <2>2. program[1][2] \in SshSteps
    <3>1. {"selectKeys", "listPods"} \subseteq SshSteps
      BY DEF SshSteps
    <3> QED BY <1>3, <3>1
  <2>3. program[1][2] \in SshSteps => program[1][1] = "backup"
    BY <1>1, <1>3 DEF Linked
  <2>4. Here = "backup"
    BY <2>1, <2>2, <2>3
  <2> QED BY <1>1, <1>3, <2>1, <2>4
<1>5. \A c : Pending(c) => Pending(c)'
  BY <1>2 DEF Pending
<1>6. Linked(program', target')
  BY <1>2
<1>7. \A i \in 1..Len(program') : program'[i][1] \in ran
  BY <1>1, <1>2
<1>8. Here' = Here /\ Head(program')[2] = steps[1]
  BY <1>2 DEF Here
<1> QED BY <1>2, <1>4, <1>5, <1>6, <1>7, <1>8

\* What the parts of a version of the custom resource are.
LEMMA SpecFacts ==
  ASSUME NEW s \in Specs
  PROVE  /\ s.common.tls \in BOOLEAN /\ s.common.aws \in BOOLEAN /\ s.common.dcs \in Seq(Nat)
         /\ s.backup.install \in BOOLEAN /\ s.backup.emptyDir \in BOOLEAN
         /\ s.dbaas.install \in BOOLEAN /\ s.dbaas.https \in BOOLEAN
         /\ Replicas(s) \in 1..MaxNodes /\ s # None
<1>1. s \in CassandraServiceSpec /\ Replicas(s) \in 1..MaxNodes /\ s # None
  BY ServicesAssumption
<1>2. /\ s.common \in [dcs : Seq(Nat), tls : BOOLEAN, aws : BOOLEAN]
      /\ s.backup \in [install : BOOLEAN, emptyDir : BOOLEAN, rev : Nat]
      /\ s.dbaas \in [install : BOOLEAN, https : BOOLEAN, rev : Nat]
  BY <1>1 DEF CassandraServiceSpec
<1>3. s.common.tls \in BOOLEAN /\ s.common.aws \in BOOLEAN /\ s.common.dcs \in Seq(Nat)
  BY <1>2
<1>4. s.backup.install \in BOOLEAN /\ s.backup.emptyDir \in BOOLEAN
  BY <1>2
<1>5. s.dbaas.install \in BOOLEAN /\ s.dbaas.https \in BOOLEAN
  BY <1>2
<1> QED BY <1>1, <1>3, <1>4, <1>5

\* A template is rendered to a deployment.
LEMMA TemplateType ==
  ASSUME NEW c \in Names, NEW s \in Specs
  PROVE  Template(c, s) \in Deployments
<1>1. c = "backup" \/ c = "dbaas" \/ c = "robot"
  BY NameFacts
<1>2. \A b : GetHTTPPort(b) \in Ports
  BY DEF GetHTTPPort, Ports
<1>3. BackupHosts(s) \subseteq Nat
  <2>1. ASSUME NEW d \in 1..Len(s.common.dcs) PROVE 0..s.common.dcs[d] - 1 \subseteq Nat
    <3>1. s.common.dcs[d] \in Nat
      BY SpecFacts, ElementOfSeq
    <3> QED BY <3>1
  <2> QED BY <2>1 DEF BackupHosts
<1>4. (~s.backup.emptyDir) \in BOOLEAN
  BY SpecFacts
<1>5. CASE c = "backup"
  <2>1. Template(c, s) = LegacyBackupDeploymentTemplate(s)
    BY <1>5 DEF Template
  <2>2. BackupSecrets(s) \cup TLSClientSpecUpdate(s.common.tls)
          \cup TLSServerSpecUpdate(s.common.tls, Cert.backup) \in SUBSET Secrets
    BY DEF BackupSecrets, TLSClientSpecUpdate, TLSServerSpecUpdate, Cert, Secrets
  <2> QED BY <1>2, <1>3, <1>4, <2>1, <2>2 DEF LegacyBackupDeploymentTemplate, Deployments
<1>6. CASE c = "dbaas"
  <2>1. Template(c, s) = DbaasDeploymentTemplate(s)
    BY <1>6 DEF Template
  <2>2. DbaasSecrets(s) \cup TLSClientSpecUpdate(s.common.tls)
          \cup TLSServerSpecUpdate(IsTLSEnableForDBAAS(s), Cert.dbaas) \in SUBSET Secrets
    BY DEF DbaasSecrets, TLSClientSpecUpdate, TLSServerSpecUpdate, Cert, Secrets
  <2>3. BackupAddress(s) \in Ports \cup {None}
    BY <1>2 DEF BackupAddress
  <2> QED BY <1>2, <2>1, <2>2, <2>3 DEF DbaasDeploymentTemplate, Deployments
<1>7. CASE c = "robot"
  <2>1. Template(c, s) = RobotTemplate(s)
    BY <1>7 DEF Template
  <2>2. RobotSecrets(s) \cup TLSClientSpecUpdate(s.common.tls) \in SUBSET Secrets
    BY DEF RobotSecrets, TLSClientSpecUpdate, Secrets
  <2> QED BY <1>2, <2>1, <2>2 DEF RobotTemplate, Deployments
<1> QED BY <1>1, <1>5, <1>6, <1>7


\* A program that has lost its first step, or whose ssh step has gone on, keeps
\* the invariant of programs.
LEMMA ProgramGoesOn ==
  ASSUME ProgramInv, phase = "run", program # <<>>, Next1,
         UNCHANGED <<phase, target, recorded, ran>>
  PROVE  ProgramInv'
<1>1. Linked(program', target') /\ \A i \in 1..Len(program') : program'[i][1] \in ran
  BY AfterNext1
<1>2. Selected(target)' = Selected(target)
  BY DEF Selected, Condition, CommonChanged
<1> QED BY <1>1, <1>2 DEF ProgramInv

\* The lists of steps the ssh step goes on with.
LEMMA SshLists ==
  ASSUME NEW steps,
         \/ steps = <<"alterKeyspace", "createSecret", "listPods">>
         \/ steps = <<"createKeyspace", "insertPublic", "insertPrivate", "createSecret", "listPods">>
         \/ steps = <<"writeKeys">>
  PROVE  /\ steps \in Seq(SshSteps) /\ Len(steps) \in Nat \ {0}
         /\ \A i \in 1..Len(steps) - 1 : <<steps[i], steps[i + 1]>> \in Follow
         /\ steps[Len(steps)] \in {"listPods", "writeKeys"}
<1>1. CASE steps = <<"alterKeyspace", "createSecret", "listPods">>
  <2>1. Len(steps) = 3 /\ steps[1] = "alterKeyspace" /\ steps[2] = "createSecret"
        /\ steps[3] = "listPods" /\ steps \in Seq(SshSteps)
    BY <1>1 DEF SshSteps
  <2> QED BY <2>1 DEF Follow
<1>2. CASE steps = <<"createKeyspace", "insertPublic", "insertPrivate", "createSecret", "listPods">>
  <2>1. Len(steps) = 5 /\ steps[1] = "createKeyspace" /\ steps[2] = "insertPublic"
        /\ steps[3] = "insertPrivate" /\ steps[4] = "createSecret" /\ steps[5] = "listPods"
        /\ steps \in Seq(SshSteps)
    BY <1>2 DEF SshSteps
  <2> QED BY <2>1 DEF Follow
<1>3. CASE steps = <<"writeKeys">>
  <2>1. Len(steps) = 1 /\ steps[1] = "writeKeys" /\ steps \in Seq(SshSteps)
    BY <1>3 DEF SshSteps
  <2> QED BY <2>1
<1> QED BY <1>1, <1>2, <1>3

\* The invariant of programs when the ssh step goes on.
LEMMA ProgramBranches ==
  ASSUME ProgramInv, phase = "run", program # <<>>,
         Head(program)[2] \in {"selectKeys", "listPods"},
         NEW steps, Then(steps), UNCHANGED <<phase, target, recorded, ran>>,
         \/ steps = <<"alterKeyspace", "createSecret", "listPods">>
         \/ steps = <<"createKeyspace", "insertPublic", "insertPrivate", "createSecret", "listPods">>
         \/ steps = <<"writeKeys">>
  PROVE  /\ ProgramInv'
         /\ Here = "backup" /\ Here' = Here /\ Here \in ran
         /\ \A c : Pending(c) => Pending(c)'
         /\ program' # <<>> /\ Head(program')[2] = steps[1]
<1>1. /\ Here = "backup" /\ Here' = Here /\ Here \in ran
      /\ Linked(program', target')
      /\ \A i \in 1..Len(program') : program'[i][1] \in ran
      /\ \A c : Pending(c) => Pending(c)'
      /\ program' # <<>> /\ Head(program')[2] = steps[1]
  BY SshLists, AfterThen
<1>2. Selected(target)' = Selected(target)
  BY DEF Selected, Condition, CommonChanged
<1> QED BY <1>1, <1>2 DEF ProgramInv

\* The empty program of a pass that is over.
LEMMA EmptyProgram == <<>> \in Seq(Names \X StepNames) /\ Len(<<>>) = 0
  OBVIOUS

\* What is where when a step is executed.
LEMMA StepFacts ==
  ASSUME ProgramInv, phase = "run", program # <<>>
  PROVE  /\ Here \in Names /\ Here \in ran /\ Pending(Here)
         /\ Head(program)[2] \in StepNames
         /\ Head(program)[2] \in SshSteps => Here = "backup"
<1>1. Linked(program, target) /\ \A i \in 1..Len(program) : program[i][1] \in ran
  BY DEF ProgramInv
<1>2. Head(program) = program[1] /\ 1 \in 1..Len(program) /\ Head(program) \in Names \X StepNames
  <2>1. /\ Len(program) \in Nat \ {0} /\ Head(program) = program[1]
        /\ Head(program) \in Names \X StepNames
    BY <1>1, TailLinked
  <2> QED BY <2>1
<1>3. Here = program[1][1] /\ Head(program)[2] = program[1][2]
  BY <1>2 DEF Here
<1>4. Here \in Names /\ Head(program)[2] \in StepNames
  BY <1>2 DEF Here
<1>5. Here \in ran /\ Pending(Here)
  BY <1>1, <1>2, <1>3 DEF Pending
<1>6. Head(program)[2] \in SshSteps => Here = "backup"
  BY <1>1, <1>2, <1>3 DEF Linked
<1> QED BY <1>4, <1>5, <1>6

\* Each step keeps the invariant of programs.
LEMMA ProgramNext ==
  ASSUME ProgramInv, [Next]_vars
  PROVE  ProgramInv'
<1> USE DEF passRest, worldRest, passVars, k8sVars, dbVars, history, At
<1>1. CASE Reconcile
  BY <1>1 DEF Reconcile, ProgramInv
<1>2. CASE CassandraOperatorReady
  <2>1. /\ Linked(program', cr)
        /\ \A i \in 1..Len(program') : program'[i][1] \in ran'
    BY <1>2, BuilderLinked DEF CassandraOperatorReady
  <2>2. Selected(target)' = Selected(cr)
    BY <1>2 DEF CassandraOperatorReady, Selected, Condition, CommonChanged
  <2> QED BY <1>2, <2>1, <2>2 DEF CassandraOperatorReady, ProgramInv
<1>3. CASE CassandraOperatorNotReady
  BY <1>3 DEF CassandraOperatorNotReady, ProgramInv
<1>4. CASE CreatePVC \/ DeleteService \/ CreateService \/ CreateKeyspace \/ AlterKeyspace
           \/ InsertPublic \/ InsertPrivate \/ CreateSecret
           \/ DeleteDeploymentAndPods \/ CreateDeployment \/ WaitForPodsReady \/ ListPodsFails
  <2>1. phase = "run" /\ program # <<>> /\ Next1 /\ UNCHANGED <<phase, target, recorded, ran>>
    BY <1>4 DEF CreatePVC, DeleteService, CreateService, CreateKeyspace, AlterKeyspace,
         InsertPublic, InsertPrivate, CreateSecret, DeleteDeploymentAndPods, CreateDeployment,
         WaitForPodsReady, ListPodsFails
  <2> QED BY <2>1, ProgramGoesOn
<1>5. CASE SelectKeys
  BY <1>5, ProgramBranches DEF SelectKeys
<1>6. CASE GenerateMissingKeys
  BY <1>6, ProgramBranches DEF GenerateMissingKeys, GenerateKeyPair
<1>7. CASE SelectKeysFails
  BY <1>7, ProgramBranches DEF SelectKeysFails, GenerateKeyPair
<1>8. CASE ListPods
  <2>1. CASE Next1
    BY <1>8, <2>1, ProgramGoesOn DEF ListPods
  <2>2. CASE Then(<<"writeKeys">>)
    BY <1>8, <2>2, ProgramBranches DEF ListPods
  <2> QED BY <1>8, <2>1, <2>2 DEF ListPods
<1>9. CASE WriteKeys
  <2>1. CASE Next1
    BY <1>9, <2>1, ProgramGoesOn DEF WriteKeys
  <2>2. CASE UNCHANGED program
    BY <1>9, <2>2 DEF WriteKeys, ProgramInv, Selected, Condition, CommonChanged
  <2> QED BY <1>9, <2>1, <2>2 DEF WriteKeys
<1>10. CASE WriteKeysFails
  <2>1. CASE tried + 1 < Tries
    BY <1>10, <2>1 DEF WriteKeysFails, ProgramInv, Selected, Condition, CommonChanged
  <2>2. CASE ~(tried + 1 < Tries)
    BY <1>10, <2>2 DEF WriteKeysFails, ProgramInv
  <2> QED BY <2>1, <2>2
<1>11. CASE WaitTimesOut
  BY <1>11 DEF WaitTimesOut, ProgramInv
<1>12. CASE Finish
  BY <1>12 DEF Finish, ProgramInv
<1>13. CASE PassFails
  BY <1>13 DEF PassFails, ProgramInv
<1>14. CASE PodReady \/ CassandraStarts \/ CassandraRolls \/ CassandraFails \/ EditCassandra
            \/ EditServices \/ UNCHANGED vars
  <2>1. UNCHANGED <<phase, program, target, recorded, ran>>
    BY <1>14 DEF PodReady, CassandraStarts, CassandraRolls, CassandraFails, EditCassandra,
         EditServices, vars
  <2> QED BY <2>1 DEF ProgramInv, Selected, Condition, CommonChanged
<1> QED BY <1>1, <1>2, <1>3, <1>4, <1>5, <1>6, <1>7, <1>8, <1>9, <1>10, <1>11, <1>12, <1>13,
           <1>14 DEF Next, Operator

\* The keys of a pair, and the numbers the steps count with.
LEMMA NumberFacts ==
  /\ MaxNodes \in Nat /\ MaxKeys \in Nat /\ MaxFailures \in Nat /\ MaxEdits \in Nat
  /\ Tries \in Nat \ {0} /\ 0 \in 0..Tries - 1
  /\ NoPair \in Pair
<1>1. /\ MaxNodes \in Nat /\ MaxKeys \in Nat /\ MaxFailures \in Nat /\ MaxEdits \in Nat
      /\ Tries \in Nat /\ Tries > 0
  BY ServicesAssumption
<1> QED BY <1>1 DEF NoPair, Pair

\* Each step keeps the types.
LEMMA TypeNext ==
  ASSUME TypeOK, ProgramInv, [Next]_vars
  PROVE  TypeOK'
<1> USE DEF passRest, worldRest, passVars, k8sVars, dbVars, history, At
<1>1. program' \in Seq(Names \X StepNames)
  BY ProgramNext, EmptyProgram DEF ProgramInv, Linked
<1>2. phase = "run" /\ program # <<>> => Here \in Names
  BY StepFacts
<1> USE NumberFacts
<1>3. CASE Reconcile \/ CassandraOperatorNotReady \/ PassFails \/ WaitTimesOut \/ Finish
  <2>1. /\ program' \in Seq(Names \X StepNames) /\ phase' \in {"idle", "poll"}
        /\ recorded' \in {recorded, target}
        /\ fails' \in 0..MaxFailures /\ dirty' \subseteq Names
    BY <1>1, <1>3 DEF TypeOK, Reconcile, CassandraOperatorNotReady, PassFails, WaitTimesOut, Finish
  <2>2. UNCHANGED <<cr, target, keys, listed, tried, k8sVars, dbVars, cassandra, edits,
                    misread, unseen, ran>>
    BY <1>3 DEF Reconcile, CassandraOperatorNotReady, PassFails, WaitTimesOut, Finish
  <2> QED BY <1>1, <2>1, <2>2 DEF TypeOK
<1>4. CASE CassandraOperatorReady
  <2>1. /\ ran' \subseteq Names /\ unseen' \in BOOLEAN
    BY <1>4 DEF CassandraOperatorReady, Selected, TypeOK
  <2> QED BY <1>1, <1>4, <2>1 DEF CassandraOperatorReady, TypeOK
<1>5. CASE CreatePVC \/ CreateKeyspace \/ AlterKeyspace \/ WaitForPodsReady
  <2>1. UNCHANGED <<cr, recorded, phase, target, keys, listed, tried, services, deployments,
                    ready, sshSecret, auth, rows, generated, cassandra, fails, edits, history>>
        /\ claim' \in BOOLEAN
    BY <1>5 DEF CreatePVC, CreateKeyspace, AlterKeyspace, WaitForPodsReady, TypeOK
  <2> QED BY <1>1, <2>1 DEF TypeOK
<1>6. CASE DeleteService
  BY <1>1, <1>2, <1>6 DEF DeleteService, TypeOK
<1>7. CASE CreateService
  <2>1. GetHTTPPort(TLSOf(Here, target)) \in Ports
    BY DEF GetHTTPPort, Ports
  <2> QED BY <1>1, <1>2, <1>7, <2>1 DEF CreateService, TypeOK
<1>8. CASE SelectKeys
  BY <1>1, <1>8 DEF SelectKeys, TypeOK
<1>9. CASE GenerateMissingKeys \/ SelectKeysFails
  <2>1. generated' \in 0..MaxKeys /\ keys' \in Pair
    BY <1>9 DEF GenerateMissingKeys, SelectKeysFails, GenerateKeyPair, TypeOK, Pair, Keys
  <2>2. fails' \in 0..MaxFailures /\ misread' \in BOOLEAN
    <3>1. CASE GenerateMissingKeys
      BY <3>1 DEF GenerateMissingKeys, TypeOK
    <3>2. CASE SelectKeysFails
      <4>1. fails \in 0..MaxFailures /\ fails < MaxFailures /\ fails' = fails + 1 /\ misread' = TRUE
        BY <3>2 DEF SelectKeysFails, TypeOK
      <4> QED BY <4>1
    <3> QED BY <1>9, <3>1, <3>2
  <2>3. UNCHANGED <<cr, recorded, phase, target, cassandra, edits, unseen, ran, dirty,
                    listed, tried, k8sVars, rows, replication>>
    BY <1>9 DEF GenerateMissingKeys, SelectKeysFails
  <2> QED BY <1>1, <2>1, <2>2, <2>3 DEF TypeOK
<1>10. CASE InsertPublic \/ InsertPrivate
  <2>1. rows' \in Pair
    BY <1>10 DEF InsertPublic, InsertPrivate, TypeOK, Pair
  <2>2. UNCHANGED <<cr, recorded, phase, target, cassandra, fails, edits, unseen, ran, dirty,
                    keys, listed, tried, k8sVars, generated, misread>>
    BY <1>10 DEF InsertPublic, InsertPrivate
  <2> QED BY <1>1, <2>1, <2>2 DEF TypeOK
<1>11. CASE CreateSecret
  BY <1>1, <1>11 DEF CreateSecret, TypeOK
<1>12. CASE ListPods
  <2>1. listed' \subseteq Nodes
    BY <1>12 DEF ListPods, TypeOK, Nodes
  <2> QED BY <1>1, <1>12, <2>1 DEF ListPods, TypeOK
<1>13. CASE ListPodsFails
  BY <1>1, <1>13 DEF ListPodsFails, TypeOK
<1>14. CASE WriteKeys \/ WriteKeysFails
  <2>1. auth' \in [Nodes -> Keys \cup {None}]
    <3>1. keys.public \in Keys \cup {None}
      BY DEF TypeOK, Pair
    <3> QED BY <1>14, <3>1 DEF WriteKeys, WriteKeysFails, TypeOK
  <2>2. listed' \subseteq Nodes
    BY <1>14 DEF WriteKeys, WriteKeysFails, TypeOK
  <2>3. tried' \in 0..Tries - 1
    <3>1. tried \in 0..Tries - 1 /\ Tries \in Nat \ {0}
      BY ServicesAssumption DEF TypeOK
    <3> QED BY <1>14, <3>1 DEF WriteKeys, WriteKeysFails
  <2>4. phase' \in {"run", "idle"}
    BY <1>14 DEF WriteKeys, WriteKeysFails
  <2>5. fails' \in 0..MaxFailures
    <3>1. fails \in 0..MaxFailures
      BY DEF TypeOK
    <3> QED BY <1>14, <3>1 DEF WriteKeys, WriteKeysFails
  <2>6. dirty' \subseteq Names
    BY <1>14 DEF WriteKeys, WriteKeysFails, TypeOK
  <2>7. UNCHANGED <<cr, recorded, target, cassandra, edits, unseen, ran, keys,
                    services, deployments, ready, claim, sshSecret, dbVars, misread>>
    BY <1>14 DEF WriteKeys, WriteKeysFails
  <2> QED BY <1>1, <2>1, <2>2, <2>3, <2>4, <2>5, <2>6, <2>7 DEF TypeOK
<1>15. CASE DeleteDeploymentAndPods
  BY <1>1, <1>2, <1>15 DEF DeleteDeploymentAndPods, TypeOK
<1>16. CASE CreateDeployment
  <2>1. Here \in Names /\ Template(Here, target) \in Deployments /\ Template(Here, target) # None
    BY <1>2, <1>16, TemplateType, ServicesAssumption DEF CreateDeployment, TypeOK
  <2>2. deployments' \in [Names -> Deployments \cup {None}]
        /\ ready' \subseteq {c \in Names : deployments'[c] # None}
    BY <1>16, <2>1 DEF CreateDeployment, TypeOK
  <2> QED BY <1>1, <1>16, <2>2 DEF CreateDeployment, TypeOK
<1>17. CASE PodReady
  BY <1>1, <1>17 DEF PodReady, TypeOK
<1>18. CASE CassandraStarts \/ CassandraRolls \/ CassandraFails
  <2>1. cassandra' \in [want : 1..MaxNodes, pods : 0..MaxNodes,
                        status : {"none", "inProgress", "failed", "successful"}]
        /\ cassandra'.pods <= cassandra'.want
    <3>1. cassandra \in [want : 1..MaxNodes, pods : 0..MaxNodes,
                         status : {"none", "inProgress", "failed", "successful"}]
          /\ cassandra.pods <= cassandra.want
      BY DEF TypeOK
    <3>2. CASE CassandraStarts
      BY <3>1, <3>2 DEF CassandraStarts
    <3>3. CASE CassandraFails
      BY <3>1, <3>3 DEF CassandraFails
    <3>4. CASE CassandraRolls /\ cassandra.pods < cassandra.want
      <4>1. cassandra' = [cassandra EXCEPT !.pods = cassandra.pods + 1]
        BY <3>4 DEF CassandraRolls
      <4>2. cassandra.pods + 1 \in 0..MaxNodes
        BY <3>1, <3>4
      <4> QED BY <3>1, <3>4, <4>1, <4>2
    <3>5. CASE CassandraRolls /\ ~(cassandra.pods < cassandra.want)
      BY <3>1, <3>5 DEF CassandraRolls
    <3> QED BY <1>18, <3>2, <3>3, <3>4, <3>5
  <2>2. fails' \in 0..MaxFailures
    BY <1>18 DEF CassandraStarts, CassandraRolls, CassandraFails, TypeOK
  <2>3. UNCHANGED <<cr, worldRest, k8sVars, edits>>
    BY <1>18 DEF CassandraStarts, CassandraRolls, CassandraFails
  <2> QED BY <1>1, <2>1, <2>2, <2>3 DEF TypeOK
<1>19. CASE EditCassandra
  <2>1. PICK s \in Specs : /\ Replicas(s) > cassandra.want
                           /\ cassandra' = [cassandra EXCEPT !.want = Replicas(s)]
    BY <1>19 DEF EditCassandra
  <2>2. Replicas(s) \in 1..MaxNodes
    BY ServicesAssumption
  <2>3. cassandra' \in [want : 1..MaxNodes, pods : 0..MaxNodes,
                        status : {"none", "inProgress", "failed", "successful"}]
        /\ cassandra'.pods <= cassandra'.want
    <3>1. cassandra \in [want : 1..MaxNodes, pods : 0..MaxNodes,
                         status : {"none", "inProgress", "failed", "successful"}]
          /\ cassandra.pods <= cassandra.want
      BY DEF TypeOK
    <3> QED BY <2>1, <2>2, <3>1
  <2>4. edits' \in 0..MaxEdits
    BY <1>19 DEF EditCassandra, TypeOK
  <2>5. UNCHANGED <<cr, worldRest, k8sVars, fails>>
    BY <1>19 DEF EditCassandra
  <2> QED BY <1>1, <2>3, <2>4, <2>5 DEF TypeOK
<1>20. CASE EditServices
  BY <1>1, <1>20 DEF EditServices, TypeOK
<1>21. CASE UNCHANGED vars
  BY <1>21 DEF vars, TypeOK
<1> QED BY <1>3, <1>4, <1>5, <1>6, <1>7, <1>8, <1>9, <1>10, <1>11, <1>12, <1>13, <1>14, <1>15,
           <1>16, <1>17, <1>18, <1>19, <1>20, <1>21 DEF Next, Operator

\* Types and programs as invariants.
LEMMA TypeInvariant == Spec => [](TypeOK /\ ProgramInv)
<1>1. Init => TypeOK /\ ProgramInv
  <2> SUFFICES ASSUME Init PROVE TypeOK /\ ProgramInv
    OBVIOUS
  <2>1. Replicas(InitialSpec) \in 1..MaxNodes
    BY ServicesAssumption
  <2>2. cassandra \in [want : 1..MaxNodes, pods : 0..MaxNodes,
                       status : {"none", "inProgress", "failed", "successful"}]
        /\ cassandra.pods <= cassandra.want
    BY <2>1, NumberFacts DEF Init
  <2>3. /\ cr \in Specs /\ target \in Specs /\ recorded \in Specs \cup {None}
        /\ keys \in Pair /\ rows \in Pair /\ sshSecret \in Pair
        /\ program \in Seq(Names \X StepNames)
    BY NumberFacts, EmptyProgram, ServicesAssumption DEF Init
  <2>4. /\ services \in [Names -> Ports \cup {None}]
        /\ deployments \in [Names -> Deployments \cup {None}]
        /\ auth \in [Nodes -> Keys \cup {None}]
    BY DEF Init
  <2>5. /\ tried \in 0..Tries - 1 /\ generated \in 0..MaxKeys
        /\ fails \in 0..MaxFailures /\ edits \in 0..MaxEdits
    BY NumberFacts DEF Init
  <2> QED BY <2>2, <2>3, <2>4, <2>5 DEF Init, TypeOK, ProgramInv
<1>2. TypeOK /\ ProgramInv /\ [Next]_vars => (TypeOK /\ ProgramInv)'
  BY TypeNext, ProgramNext
<1> QED BY <1>1, <1>2, PTL DEF Spec

\* Every variable keeps its type, whatever the steps of the operator, failures,
\* edits and the other operator do in whichever order: the program only holds
\* steps of known components, a deployment is one a template renders to, no pod
\* is ready without its deployment.
THEOREM TypeCorrect == Spec => []TypeOK
  BY TypeInvariant, PTL






-----------------------------------------------------------------------------
(* Keys.                                                                   *)

\* Which step can come after which.
LEMMA NextHead ==
  ASSUME ProgramInv, phase = "run", program # <<>>, Next1, UNCHANGED <<phase, target>>
  PROVE  /\ ~HeadIs({"createKeyspace", "alterKeyspace", "writeKeys"})'
         /\ HeadIs({"insertPublic"})' => Head(program)[2] = "createKeyspace"
         /\ HeadIs({"insertPrivate"})' => Head(program)[2] = "insertPublic"
         /\ HeadIs({"createSecret"})' => Head(program)[2] \in {"insertPrivate", "alterKeyspace"}
         /\ HeadIs({"listPods"})' => Head(program)[2] = "createSecret"
<1>1. CASE Head(program)[2] = "waitReady"
  <2>1. program' # <<>> => Head(program')[2] \in {"createPVC", "deleteService", "deleteDeployment"}
    BY <1>1, AfterNext1 DEF FirstSteps
  <2> QED BY <2>1 DEF HeadIs
<1>2. CASE Head(program)[2] # "waitReady"
  <2>1. <<Head(program)[2], Head(program')[2]>> \in Follow
    BY <1>2, AfterNext1
  <2> QED BY <2>1 DEF HeadIs, Follow
<1> QED BY <1>1, <1>2

\* Steps that leave the keys alone, when they do not lead into the ssh step.
LEMMA KeysUntouched ==
  ASSUME KeysInv, UNCHANGED <<rows, sshSecret, auth, misread>>,
         ~HeadIs(SshSteps \ {"selectKeys"})'
  PROVE  KeysInv'
<1>1. /\ ~HeadIs({"createKeyspace", "insertPublic"})' /\ ~HeadIs({"insertPrivate"})'
      /\ ~HeadIs({"alterKeyspace", "createSecret"})' /\ ~HeadIs({"listPods", "writeKeys"})'
  BY DEF HeadIs, SshSteps
<1> QED BY <1>1 DEF KeysInv

\* Each step keeps the invariant of the keys.
LEMMA KeysNext ==
  ASSUME TypeOK, ProgramInv, KeysInv, [Next]_vars
  PROVE  KeysInv'
<1> USE DEF passRest, worldRest, passVars, k8sVars, dbVars, history, At
<1>1. /\ keys \in Pair /\ rows \in Pair /\ sshSecret \in Pair /\ generated \in Nat
      /\ auth \in [Nodes -> Keys \cup {None}] /\ \A n \in Nat : n # None
  <2>1. \A n \in Nat : n # None
    BY ServicesAssumption
  <2> QED BY <2>1 DEF TypeOK
<1>2. CASE Reconcile \/ CassandraOperatorNotReady \/ PassFails \/ WaitTimesOut \/ Finish
  <2>1. ~HeadIs(SshSteps \ {"selectKeys"})'
    BY <1>2 DEF Reconcile, CassandraOperatorNotReady, PassFails, WaitTimesOut, Finish, HeadIs
  <2>2. UNCHANGED <<rows, sshSecret, auth, misread>>
    BY <1>2 DEF Reconcile, CassandraOperatorNotReady, PassFails, WaitTimesOut, Finish
  <2> QED BY <2>1, <2>2, KeysUntouched
<1>3. CASE CassandraOperatorReady
  <2>1. program' # <<>> => Head(program')[2] \in FirstSteps(Head(program')[1])
    BY <1>3, BuilderLinked DEF CassandraOperatorReady
  <2>2. ~HeadIs(SshSteps \ {"selectKeys"})'
    BY <2>1 DEF HeadIs, FirstSteps, SshSteps
  <2> QED BY <1>3, <2>2, KeysUntouched DEF CassandraOperatorReady
<1>4. CASE CreatePVC \/ DeleteService \/ CreateService \/ DeleteDeploymentAndPods
           \/ CreateDeployment \/ WaitForPodsReady \/ ListPodsFails \/ (ListPods /\ Next1)
  <2>1. /\ phase = "run" /\ program # <<>> /\ Next1 /\ UNCHANGED <<phase, target>>
        /\ Head(program)[2] \in {"createPVC", "deleteService", "createService",
             "deleteDeployment", "createDeployment", "waitReady", "listPods"}
        /\ UNCHANGED <<rows, sshSecret, auth, misread>>
    BY <1>4 DEF CreatePVC, DeleteService, CreateService, DeleteDeploymentAndPods,
         CreateDeployment, WaitForPodsReady, ListPodsFails, ListPods
  <2>2. ~HeadIs(SshSteps \ {"selectKeys"})'
    BY <2>1, NextHead DEF HeadIs, SshSteps
  <2> QED BY <2>1, <2>2, KeysUntouched
<1>5. CASE SelectKeys
  <2>1. Head(program')[2] = "alterKeyspace"
    BY <1>5, ProgramBranches DEF SelectKeys
  <2>2. ~misread => Complete(rows)
    BY <1>5 DEF SelectKeys, NoKeysFound, KeysInv, Complete
  <2> QED BY <1>5, <2>1, <2>2 DEF SelectKeys, KeysInv, HeadIs, Complete
<1>6. CASE GenerateMissingKeys
  <2>1. Head(program')[2] = "createKeyspace"
    BY <1>6, ProgramBranches DEF GenerateMissingKeys, GenerateKeyPair
  <2>2. ~misread => rows.private = None
    BY <1>6 DEF GenerateMissingKeys, NoKeysFound, KeysInv
  <2>3. Complete(keys)'
    <3>1. keys' = [public |-> generated + 1, private |-> generated + 1] /\ generated + 1 # None
      BY <1>1, <1>6 DEF GenerateMissingKeys, GenerateKeyPair
    <3> QED BY <3>1 DEF Complete
  <2> QED BY <1>6, <2>1, <2>2, <2>3 DEF GenerateMissingKeys, KeysInv, HeadIs
<1>7. CASE SelectKeysFails
  BY <1>7 DEF SelectKeysFails, KeysInv
<1>8. CASE CreateKeyspace
  <2>1. HeadIs(SshSteps \ {"selectKeys"})' => Head(program')[2] = "insertPublic"
    BY <1>8, NextHead DEF CreateKeyspace, HeadIs, SshSteps
  <2>2. HeadIs({"createKeyspace", "insertPublic"})
    BY <1>8 DEF CreateKeyspace, HeadIs
  <2> QED BY <1>8, <2>1, <2>2 DEF CreateKeyspace, KeysInv, HeadIs, SshSteps
<1>9. CASE AlterKeyspace
  <2>1. HeadIs(SshSteps \ {"selectKeys"})' => Head(program')[2] = "createSecret"
    BY <1>9, NextHead DEF AlterKeyspace, HeadIs, SshSteps
  <2>2. HeadIs({"alterKeyspace", "createSecret"})
    BY <1>9 DEF AlterKeyspace, HeadIs
  <2> QED BY <1>9, <2>1, <2>2 DEF AlterKeyspace, KeysInv, HeadIs, SshSteps
<1>10. CASE InsertPublic
  <2>1. HeadIs(SshSteps \ {"selectKeys"})' => Head(program')[2] = "insertPrivate"
    BY <1>10, NextHead DEF InsertPublic, HeadIs, SshSteps
  <2>2. HeadIs({"createKeyspace", "insertPublic"})
    BY <1>10 DEF InsertPublic, HeadIs
  <2>3. ~misread => Complete(keys) /\ rows.private = None /\ sshSecret = NoPair
    BY <2>2 DEF KeysInv, Complete
  <2>4. rows'.public = keys.public /\ rows'.private = rows.private
    BY <1>1, <1>10 DEF InsertPublic, Pair
  <2> QED BY <1>10, <2>1, <2>3, <2>4 DEF InsertPublic, KeysInv, HeadIs, SshSteps, Complete
<1>11. CASE InsertPrivate
  <2>1. HeadIs(SshSteps \ {"selectKeys"})' => Head(program')[2] = "createSecret"
    BY <1>11, NextHead DEF InsertPrivate, HeadIs, SshSteps
  <2>2. HeadIs({"insertPrivate"})
    BY <1>11 DEF InsertPrivate, HeadIs
  <2>3. ~misread => /\ Complete(keys) /\ rows.private = None /\ sshSecret = NoPair
                    /\ rows.public = keys.public
    BY <2>2 DEF KeysInv, Complete
  <2>4. rows'.public = rows.public /\ rows'.private = keys.private
        /\ (rows.public = keys.public => rows' = keys)
    BY <1>1, <1>11 DEF InsertPrivate, Pair
  <2> QED BY <1>11, <2>1, <2>3, <2>4 DEF InsertPrivate, KeysInv, HeadIs, SshSteps, Complete
<1>12. CASE CreateSecret
  <2>1. HeadIs(SshSteps \ {"selectKeys"})' => Head(program')[2] = "listPods"
    BY <1>12, NextHead DEF CreateSecret, HeadIs, SshSteps
  <2>2. HeadIs({"alterKeyspace", "createSecret"})
    BY <1>12 DEF CreateSecret, HeadIs
  <2>3. ~misread => Complete(keys) /\ keys = rows
    BY <2>2 DEF KeysInv
  <2>4. Complete(keys) => keys # NoPair
    BY DEF Complete, NoPair
  <2> QED BY <1>12, <2>1, <2>3, <2>4 DEF CreateSecret, KeysInv, HeadIs, SshSteps
<1>13. CASE ListPods /\ Then(<<"writeKeys">>)
  <2>1. Head(program')[2] = "writeKeys"
    BY <1>13, ProgramBranches DEF ListPods
  <2>2. HeadIs({"listPods", "writeKeys"})
    BY <1>13 DEF ListPods, HeadIs
  <2> QED BY <1>13, <2>1, <2>2 DEF ListPods, KeysInv, HeadIs
<1>14. CASE WriteKeys \/ WriteKeysFails
  <2>1. HeadIs({"listPods", "writeKeys"})
    BY <1>14 DEF WriteKeys, WriteKeysFails, HeadIs
  <2>2. ~misread => Complete(keys) /\ keys = rows /\ sshSecret = keys
    BY <2>1 DEF KeysInv
  <2>3. UNCHANGED <<rows, sshSecret, misread, keys>>
    BY <1>14 DEF WriteKeys, WriteKeysFails
  <2>4. \A n \in Nodes : auth'[n] \in {auth[n], keys.public, None}
    BY <1>1, <1>14 DEF WriteKeys, WriteKeysFails
  <2>5. HeadIs(SshSteps \ {"selectKeys"})' => Head(program')[2] = "writeKeys"
    <3>1. CASE WriteKeys /\ Next1
      BY <3>1, NextHead DEF WriteKeys, HeadIs, SshSteps
    <3>2. CASE UNCHANGED program
      BY <1>14, <3>2 DEF WriteKeys, WriteKeysFails
    <3>3. CASE phase' = "idle"
      BY <3>3 DEF HeadIs
    <3> QED BY <1>14, <3>1, <3>2, <3>3 DEF WriteKeys, WriteKeysFails
  <2>6. Complete(keys) => keys # NoPair
    BY DEF Complete, NoPair
  <2>7. ~misread =>
          \A n \in Nodes : auth'[n] # None => sshSecret # NoPair /\ auth'[n] = sshSecret.public
    BY <2>2, <2>4, <2>6 DEF KeysInv
  <2> QED BY <2>2, <2>3, <2>5, <2>7 DEF KeysInv, HeadIs, SshSteps
<1>15. CASE PodReady \/ CassandraStarts \/ CassandraRolls \/ CassandraFails \/ EditCassandra
            \/ EditServices \/ UNCHANGED vars
  <2>1. UNCHANGED <<phase, program, keys, rows, sshSecret, auth, misread>>
    BY <1>15 DEF PodReady, CassandraStarts, CassandraRolls, CassandraFails, EditCassandra,
         EditServices, vars
  <2> QED BY <2>1 DEF KeysInv, HeadIs
<1>16. ListPods => Next1 \/ Then(<<"writeKeys">>)
  BY DEF ListPods
<1> QED BY <1>2, <1>3, <1>4, <1>5, <1>6, <1>7, <1>8, <1>9, <1>10, <1>11, <1>12, <1>13, <1>14,
           <1>15, <1>16 DEF Next, Operator

\* Types, programs and keys as invariants.
LEMMA KeysInvariant == Spec => [](TypeOK /\ ProgramInv /\ KeysInv)
<1>1. Init => KeysInv
  BY DEF Init, KeysInv, HeadIs, NoPair, Complete
<1>2. TypeOK /\ ProgramInv /\ KeysInv /\ [Next]_vars => KeysInv'
  BY KeysNext
<1> QED BY <1>1, <1>2, TypeInvariant, PTL DEF Spec

\* No step replaces a key pair that is complete in the database, or that the
\* backup daemon or a pod has been given, wherever earlier passes failed,
\* unless a stored key could not be read: what the two INSERTs may overwrite
\* is a pair nobody has seen yet, and what is copied is the stored pair.
THEOREM KeysNeverReplaced == Spec => KeysKept
<1> USE DEF passRest, worldRest, passVars, k8sVars, dbVars, history, At
<1>1. ASSUME TypeOK, ProgramInv, KeysInv, [Next]_vars, ~misread'
      PROVE  /\ rows.public # None /\ rows.private # None => rows' = rows
             /\ sshSecret # NoPair => sshSecret' = sshSecret
             /\ \A n \in Nodes : auth[n] # None => auth'[n] \in {auth[n], None}
  <2>1. CASE InsertPublic \/ InsertPrivate
    <3>1. HeadIs({"createKeyspace", "insertPublic"}) \/ HeadIs({"insertPrivate"})
      BY <2>1 DEF InsertPublic, InsertPrivate, HeadIs
    <3>2. rows.private = None /\ UNCHANGED <<sshSecret, auth, misread>>
      BY <1>1, <2>1, <3>1 DEF InsertPublic, InsertPrivate, KeysInv
    <3> QED BY <3>2
  <2>2. CASE CreateSecret
    <3>1. HeadIs({"alterKeyspace", "createSecret"})
      BY <2>2 DEF CreateSecret, HeadIs
    <3> QED BY <1>1, <2>2, <3>1 DEF CreateSecret, KeysInv
  <2>3. CASE WriteKeys \/ WriteKeysFails
    <3>1. HeadIs({"listPods", "writeKeys"}) /\ ~misread
      BY <1>1, <2>3 DEF WriteKeys, WriteKeysFails, HeadIs
    <3>2. sshSecret = keys
      BY <1>1, <3>1 DEF KeysInv
    <3>3. \A n \in Nodes : auth'[n] \in {auth[n], keys.public, None}
      BY <1>1, <2>3 DEF WriteKeys, WriteKeysFails, TypeOK
    <3>4. UNCHANGED <<rows, sshSecret>>
      BY <2>3 DEF WriteKeys, WriteKeysFails
    <3> QED BY <1>1, <3>1, <3>2, <3>3, <3>4 DEF KeysInv
  <2>4. CASE UNCHANGED <<rows, sshSecret, auth>>
    BY <2>4
  <2> QED BY <1>1, <2>1, <2>2, <2>3, <2>4 DEF Next, Operator, Reconcile, CassandraOperatorReady,
           CassandraOperatorNotReady, CreatePVC, DeleteService, CreateService, SelectKeys,
           GenerateMissingKeys, SelectKeysFails, CreateKeyspace, AlterKeyspace, ListPods,
           ListPodsFails, DeleteDeploymentAndPods, CreateDeployment, WaitForPodsReady,
           WaitTimesOut, Finish, PassFails, PodReady, CassandraStarts, CassandraRolls,
           CassandraFails, EditCassandra, EditServices, vars
<1>2. TypeOK /\ ProgramInv /\ KeysInv /\ [Next]_vars =>
        [~misread' => /\ rows.public # None /\ rows.private # None => rows' = rows
                      /\ sshSecret # NoPair => sshSecret' = sshSecret
                      /\ \A n \in Nodes : auth[n] # None => auth'[n] \in {auth[n], None}]_vars
  BY <1>1
<1> QED BY <1>2, KeysInvariant, PTL DEF Spec, KeysKept


-----------------------------------------------------------------------------
(* What a pass has done so far.                                            *)

\* How a component is left and entered.
LEMMA HeadMoves ==
  ASSUME ProgramInv, phase = "run", program # <<>>, Next1, UNCHANGED <<phase, target>>
  PROVE  /\ Head(program)[2] # "waitReady" => Here' = Here
         /\ Head(program)[2] \in {"createPVC", "deleteService"} =>
              HeadIs({"deleteService", "createService"})'
         /\ Head(program)[2] = "waitReady" /\ program' # <<>> =>
              \/ HeadIs({"createPVC", "deleteService"})'
              \/ (Here' = "robot" /\ HeadIs({"deleteDeployment"})')
         /\ HeadIs({"createDeployment"})' => Head(program)[2] = "deleteDeployment"
         /\ HeadIs({"waitReady"})' => Head(program)[2] = "createDeployment"
         /\ HeadIs({"deleteDeployment"})' =>
              \/ Head(program)[2] \in {"selectKeys", "listPods", "writeKeys"}
              \/ (Head(program)[2] = "createService" /\ (Here = "backup" => target.common.aws))
              \/ (Head(program)[2] = "waitReady" /\ Here' = "robot")
<1>1. CASE Head(program)[2] = "waitReady"
  <2>1. program' # <<>> => Head(program')[2] \in FirstSteps(Here')
    BY <1>1, AfterNext1 DEF Here
  <2> QED BY <1>1, <2>1 DEF HeadIs, FirstSteps
<1>2. CASE Head(program)[2] # "waitReady"
  <2>1. <<Head(program)[2], Head(program')[2]>> \in Follow /\ Here' = Here /\ program' # <<>>
    BY <1>2, AfterNext1
  <2>2. Here = "backup" /\ Head(program)[2] = "createService" /\ ~target.common.aws
          => Head(program')[2] = "selectKeys"
    BY <1>2, AfterNext1
  <2> QED BY <1>2, <2>1, <2>2 DEF HeadIs, Follow
<1> QED BY <1>1, <1>2

\* A step that goes on with the next one keeps the progress of the pass.
LEMMA HeadGoesOn ==
  ASSUME ProgramInv, HeadInv, phase = "run", program # <<>>, Next1, UNCHANGED <<phase, target>>,
         Head(program)[2] = "createService" =>
           services'[Here] = GetHTTPPort(TLSOf(Here, target)),
         Head(program)[2] \notin {"createPVC", "deleteService", "createService"} =>
           services' = services,
         Head(program)[2] \in {"selectKeys", "listPods", "writeKeys"} =>
           KeysDone(target)' /\ KeyspaceDone(target)',
         Head(program)[2] \in {"deleteDeployment", "createDeployment"} =>
           UNCHANGED <<dbVars, sshSecret, auth, misread, unseen>>,
         Head(program)[2] = "createDeployment" =>
           deployments'[Here] = Template(Here, target)
  PROVE  HeadInv'
<1>1. ASSUME program' # <<>>, ~HeadIs({"createPVC", "deleteService", "createService"})'
      PROVE  ServiceOk(Here, target)'
  <2>1. CASE Head(program)[2] = "waitReady"
    <3>1. Here' = "robot"
      BY <1>1, <2>1, HeadMoves DEF HeadIs
    <3> QED BY <3>1 DEF ServiceOk
  <2>2. CASE Head(program)[2] = "createService"
    <3>1. Here' = Here
      BY <2>2, HeadMoves
    <3> QED BY <2>2, <3>1 DEF ServiceOk, TLSOf, IsTLSEnableForDBAAS
  <2>3. CASE Head(program)[2] \in {"createPVC", "deleteService"}
    BY <1>1, <2>3, HeadMoves DEF HeadIs
  <2>4. CASE Head(program)[2] \notin {"waitReady", "createService", "createPVC", "deleteService"}
    <3>1. Here' = Here /\ services' = services /\ ServiceOk(Here, target)
      BY <2>4, HeadMoves DEF HeadInv, HeadIs
    <3> QED BY <3>1 DEF ServiceOk, TLSOf, IsTLSEnableForDBAAS
  <2> QED BY <2>1, <2>2, <2>3, <2>4
<1>2. ASSUME HeadIs({"deleteDeployment", "createDeployment", "waitReady"})', Here' = "backup"
      PROVE  KeysDone(target)' /\ KeyspaceDone(target)'
  <2>1. CASE HeadIs({"deleteDeployment"})'
    <3>1. \/ Head(program)[2] \in {"selectKeys", "listPods", "writeKeys"}
          \/ (Head(program)[2] = "createService" /\ (Here = "backup" => target.common.aws))
      BY <1>2, <2>1, HeadMoves
    <3>2. CASE Head(program)[2] = "createService" /\ (Here = "backup" => target.common.aws)
      <4>1. target'.common.aws
        BY <1>2, <3>2, HeadMoves
      <4> QED BY <4>1 DEF KeysDone, KeyspaceDone
    <3> QED BY <3>1, <3>2
  <2>2. CASE ~HeadIs({"deleteDeployment"})'
    <3>1. Head(program)[2] \in {"deleteDeployment", "createDeployment"}
      BY <1>2, <2>2, HeadMoves DEF HeadIs
    <3>2. Here = "backup" /\ HeadIs({"deleteDeployment", "createDeployment", "waitReady"})
      BY <1>2, <3>1, HeadMoves DEF HeadIs
    <3>3. KeysDone(target) /\ KeyspaceDone(target)
      BY <3>2 DEF HeadInv, HeadIs
    <3> QED BY <3>1, <3>3 DEF KeysDone, KeyspaceDone, dbVars
  <2> QED BY <2>1, <2>2
<1>3. ASSUME HeadIs({"waitReady"})' PROVE deployments'[Here'] = Template(Here', target')
  <2>1. Head(program)[2] = "createDeployment" /\ Here' = Here
    BY <1>3, HeadMoves
  <2> QED BY <2>1
<1>4. ~HeadIs({"writeKeys"})'
  BY NextHead DEF HeadIs
<1>5. Template(Here, target)' = Template(Here', target')
  OBVIOUS
<1> QED BY <1>1, <1>2, <1>3, <1>4, <1>5 DEF HeadInv

\* A component that is done stays done while nothing of it is touched.
LEMMA DoneStays ==
  ASSUME NEW c \in Names, UNCHANGED <<target, recorded>>,
         services'[c] = services[c], deployments'[c] = deployments[c],
         c \in ready => c \in ready',
         c = "backup" => UNCHANGED <<dbVars, sshSecret, auth, misread, unseen>>
  PROVE  /\ Done(c, target) => Done(c, target)'
         /\ Done(c, recorded) => Done(c, recorded)'
<1>1. ServiceOk(c, target)' = ServiceOk(c, target) /\ ServiceOk(c, recorded)' = ServiceOk(c, recorded)
  BY DEF ServiceOk
<1>2. c = "backup" => /\ KeysDone(target)' = KeysDone(target)
                      /\ KeysDone(recorded)' = KeysDone(recorded)
                      /\ KeyspaceDone(target)' = KeyspaceDone(target)
                      /\ KeyspaceDone(recorded)' = KeyspaceDone(recorded)
  BY DEF KeysDone, KeyspaceDone, dbVars
<1>3. \A t : Template(c, t)' = Template(c, t)
  OBVIOUS
<1> QED BY <1>1, <1>2, <1>3 DEF Done

\* A step of a pass that touches nothing but the component it is at keeps what
\* has been applied, if it only leaves a component that is done.
LEMMA AppliedGoesOn ==
  ASSUME ProgramInv, HeadInv, AppliedInv, TypeOK, phase = "run", program # <<>>,
         UNCHANGED <<phase, target, recorded, ran, dirty>>,
         Head(program)[2] # "waitReady" => \A c : Pending(c) => Pending(c)',
         Head(program)[2] = "waitReady" =>
           /\ \A c : c # Here /\ Pending(c) => Pending(c)'
           /\ UNCHANGED <<services, deployments, ready, dbVars, sshSecret, auth, misread, unseen>>
           /\ Here \in ready,
         \A c \in Names \ {Here} : /\ services'[c] = services[c] /\ deployments'[c] = deployments[c]
                                   /\ c \in ready => c \in ready',
         Here # "backup" => UNCHANGED <<dbVars, sshSecret, auth, misread, unseen>>
  PROVE  AppliedInv'
<1>1. Here \in Names /\ Here \in ran /\ Pending(Here) /\ ran \subseteq Names
  BY StepFacts DEF TypeOK
<1>2. ASSUME NEW c \in Names, c # Here
      PROVE  /\ Done(c, target) => Done(c, target)'
             /\ Done(c, recorded) => Done(c, recorded)'
  BY <1>2, DoneStays
<1>3. ASSUME NEW c \in Names, recorded'[c].install, recorded' # None, c \notin dirty',
             phase' # "run" \/ c \notin ran'
      PROVE  Done(c, recorded)'
  BY <1>1, <1>2, <1>3 DEF AppliedInv
<1>4. ASSUME NEW c \in ran PROVE Pending(c)' \/ Done(c, target)'
  <2>1. CASE c # Here
    BY <1>1, <1>2, <1>4, <2>1 DEF AppliedInv
  <2>2. CASE c = Here /\ Head(program)[2] # "waitReady"
    BY <1>1, <2>2
  <2>3. CASE c = Here /\ Head(program)[2] = "waitReady"
    <3>1. /\ ServiceOk(Here, target) /\ (Here = "backup" => KeysDone(target) /\ KeyspaceDone(target))
          /\ deployments[Here] = Template(Here, target)
      BY <2>3 DEF HeadInv, HeadIs
    <3>2. Done(Here, target)
      BY <2>3, <3>1 DEF Done, TypeOK
    <3> QED BY <1>1, <2>3, <3>2, DoneStays
  <2> QED BY <2>1, <2>2, <2>3
<1> QED BY <1>3, <1>4 DEF AppliedInv

\* Parts of a specification on which the state of a component depends.
LEMMA DoneCarriesOver ==
  ASSUME NEW c \in Names, NEW s, NEW t, s.common = t.common, s[c] = t[c], Done(c, s)
  PROVE  Done(c, t)
<1>1. TLSOf(c, s) = TLSOf(c, t)
  BY DEF TLSOf, IsTLSEnableForDBAAS
<1>2. Replicas(s) = Replicas(t)
  BY DEF Replicas, FoldSeq, FoldFunction, FoldFunctionOnSet, MapThenFoldSet
<1>3. (KeysDone(s) => KeysDone(t)) /\ (KeyspaceDone(s) => KeyspaceDone(t))
  BY <1>2 DEF KeysDone, KeyspaceDone
<1> QED BY <1>1, <1>3 DEF Done, ServiceOk

\* Each step keeps Cassandra at the size the pass relies on.
LEMMA PodsNext ==
  ASSUME TypeOK, PodsInv, [Next]_vars
  PROVE  PodsInv'
<1> USE DEF passRest, worldRest, passVars, k8sVars, dbVars, history, At
<1>1. cassandra.pods \in Nat /\ \A s \in Specs : Replicas(s) \in Nat
  <2>1. \A s \in Specs : Replicas(s) \in Nat
    BY ServicesAssumption
  <2>2. cassandra.pods \in Nat
    BY DEF TypeOK
  <2> QED BY <2>1, <2>2
<1>2. CASE CassandraOperatorReady
  <2>1. "backup" \in ran' /\ ~unseen' => cassandra.pods = Replicas(target')
    BY <1>2 DEF CassandraOperatorReady, CassandraReady
  <2>2. target' \in Specs /\ cassandra' = cassandra
    BY <1>2 DEF CassandraOperatorReady, TypeOK
  <2> QED BY <1>1, <2>1, <2>2 DEF PodsInv
<1>3. CASE phase' # "run"
  BY <1>3 DEF PodsInv
<1>4. CASE CassandraStarts \/ CassandraRolls \/ CassandraFails \/ EditCassandra
  <2>1. UNCHANGED <<phase, target, ran, unseen>>
    BY <1>4 DEF CassandraStarts, CassandraRolls, CassandraFails, EditCassandra
  <2>2. cassandra'.pods \in {cassandra.pods, cassandra.pods + 1}
    BY <1>4 DEF CassandraStarts, CassandraRolls, CassandraFails, EditCassandra, TypeOK
  <2>3. target \in Specs /\ Replicas(target)' = Replicas(target)
    BY <2>1 DEF TypeOK
  <2> QED BY <1>1, <2>1, <2>2, <2>3 DEF PodsInv
<1>5. CASE UNCHANGED <<phase, target, ran, cassandra>> /\ unseen' \in {unseen, TRUE}
  <2>1. Replicas(target)' = Replicas(target)
    BY <1>5
  <2> QED BY <1>5, <2>1 DEF PodsInv
<1>6. CASE Reconcile \/ CassandraOperatorNotReady \/ PassFails \/ WaitTimesOut \/ Finish
  BY <1>3, <1>6 DEF Reconcile, CassandraOperatorNotReady, PassFails, WaitTimesOut, Finish
<1>7. CASE CreatePVC \/ DeleteService \/ CreateService \/ SelectKeys \/ GenerateMissingKeys
           \/ SelectKeysFails \/ CreateKeyspace \/ AlterKeyspace \/ InsertPublic \/ InsertPrivate
           \/ CreateSecret \/ ListPods \/ ListPodsFails \/ WriteKeys \/ DeleteDeploymentAndPods
           \/ CreateDeployment \/ WaitForPodsReady
  BY <1>5, <1>7 DEF CreatePVC, DeleteService, CreateService, SelectKeys, GenerateMissingKeys,
     SelectKeysFails, CreateKeyspace, AlterKeyspace, InsertPublic, InsertPrivate, CreateSecret,
     ListPods, ListPodsFails, WriteKeys, DeleteDeploymentAndPods, CreateDeployment,
     WaitForPodsReady
<1>8. CASE WriteKeysFails
  BY <1>3, <1>5, <1>8 DEF WriteKeysFails
<1>9. CASE PodReady \/ EditServices \/ UNCHANGED vars
  BY <1>5, <1>9 DEF PodReady, EditServices, vars
<1> QED BY <1>2, <1>4, <1>6, <1>7, <1>8, <1>9 DEF Next, Operator

\* Each step keeps the keyspace of the keys at the schema it is for.
LEMMA KeyspaceNext ==
  ASSUME TypeOK, ProgramInv, KeyspaceInv, [Next]_vars
  PROVE  KeyspaceInv'
<1> USE DEF passRest, worldRest, passVars, k8sVars, dbVars, history, At
<1> DEFINE After == {"createKeyspace", "alterKeyspace"} \cup PastKeyspace
<1>1. generated \in Nat /\ \A n \in Nat : n + 1 # 0 /\ (n + 1 <= 1 => n = 0)
  BY ServicesAssumption DEF TypeOK
<1>2. ASSUME UNCHANGED dbVars, ~HeadIs(After)' PROVE KeyspaceInv'
  BY <1>2 DEF KeyspaceInv, HeadIs
<1>3. CASE Reconcile \/ CassandraOperatorNotReady \/ PassFails \/ WaitTimesOut \/ Finish
  BY <1>2, <1>3 DEF Reconcile, CassandraOperatorNotReady, PassFails, WaitTimesOut, Finish, HeadIs
<1>4. CASE CassandraOperatorReady
  <2>1. program' # <<>> => Head(program')[2] \in FirstSteps(Head(program')[1])
    BY <1>4, BuilderLinked DEF CassandraOperatorReady
  <2> QED BY <1>2, <1>4, <2>1 DEF CassandraOperatorReady, HeadIs, FirstSteps, PastKeyspace
<1>5. CASE CreatePVC \/ DeleteService \/ CreateService \/ DeleteDeploymentAndPods
           \/ CreateDeployment \/ WaitForPodsReady
  <2>1. /\ phase = "run" /\ program # <<>> /\ Next1 /\ UNCHANGED <<phase, target, dbVars>>
        /\ Head(program)[2] \notin After
    BY <1>5 DEF CreatePVC, DeleteService, CreateService, DeleteDeploymentAndPods,
       CreateDeployment, WaitForPodsReady, PastKeyspace
  <2>2. ~HeadIs({"createKeyspace", "alterKeyspace", "writeKeys"})' /\ ~HeadIs({"insertPublic"})'
        /\ ~HeadIs({"insertPrivate"})' /\ ~HeadIs({"createSecret"})' /\ ~HeadIs({"listPods"})'
    BY <2>1, NextHead DEF PastKeyspace
  <2>3. ~HeadIs(After)'
    BY <2>2 DEF HeadIs, PastKeyspace
  <2> QED BY <1>2, <2>1, <2>3
<1>6. CASE SelectKeys
  <2>1. Head(program')[2] = "alterKeyspace" /\ UNCHANGED dbVars
    BY <1>6, ProgramBranches DEF SelectKeys
  <2>2. generated # 0
    BY <1>6 DEF SelectKeys, NoKeysFound, NoPair, KeyspaceInv
  <2> QED BY <2>1, <2>2 DEF KeyspaceInv, HeadIs, PastKeyspace
<1>7. CASE GenerateMissingKeys \/ SelectKeysFails
  <2>1. Head(program')[2] = "createKeyspace"
    BY <1>7, ProgramBranches DEF GenerateMissingKeys, SelectKeysFails, GenerateKeyPair
  <2>2. generated' = generated + 1 /\ replication' = replication
    BY <1>7 DEF GenerateMissingKeys, SelectKeysFails, GenerateKeyPair
  <2> QED BY <1>1, <2>1, <2>2 DEF KeyspaceInv, HeadIs, PastKeyspace
<1>8. CASE CreateKeyspace
  <2>1. HeadIs({"createKeyspace"}) /\ UNCHANGED <<target, generated, rows>>
        /\ replication' = IF replication = None THEN target.common.dcs ELSE replication
    BY <1>8 DEF CreateKeyspace, HeadIs
  <2>2. generated # 0 /\ (generated <= 1 => replication = None)
    BY <2>1 DEF KeyspaceInv, HeadIs
  <2>3. ~HeadIs({"createKeyspace"})'
    BY <1>8, NextHead DEF CreateKeyspace, HeadIs
  <2> QED BY <2>1, <2>2, <2>3 DEF KeyspaceInv
<1>9. CASE AlterKeyspace
  <2>1. replication' = target.common.dcs /\ UNCHANGED <<target, generated, rows>>
    BY <1>9 DEF AlterKeyspace
  <2>2. ~HeadIs({"createKeyspace"})'
    BY <1>9, NextHead DEF AlterKeyspace, HeadIs
  <2>3. generated # 0
    BY <1>9 DEF AlterKeyspace, KeyspaceInv, HeadIs
  <2> QED BY <2>1, <2>2, <2>3 DEF KeyspaceInv
<1>10. CASE InsertPublic \/ InsertPrivate \/ CreateSecret \/ ListPods \/ ListPodsFails
            \/ WriteKeys \/ WriteKeysFails
  <2>1. HeadIs(PastKeyspace) /\ UNCHANGED <<target, replication, generated>>
    BY <1>10 DEF InsertPublic, InsertPrivate, CreateSecret, ListPods, ListPodsFails, WriteKeys,
       WriteKeysFails, HeadIs, PastKeyspace
  <2>2. ~HeadIs({"createKeyspace"})'
    BY <1>10, NextHead, ProgramBranches DEF InsertPublic, InsertPrivate, CreateSecret, ListPods,
       ListPodsFails, WriteKeys, WriteKeysFails, HeadIs
  <2>3. generated # 0 /\ (generated <= 1 => replication = target.common.dcs)
    BY <2>1 DEF KeyspaceInv, HeadIs
  <2> QED BY <2>1, <2>2, <2>3 DEF KeyspaceInv
<1>11. CASE PodReady \/ CassandraStarts \/ CassandraRolls \/ CassandraFails \/ EditCassandra
            \/ EditServices \/ UNCHANGED vars
  <2>1. UNCHANGED <<phase, program, target, dbVars>>
    BY <1>11 DEF PodReady, CassandraStarts, CassandraRolls, CassandraFails, EditCassandra,
         EditServices, vars
  <2> QED BY <2>1 DEF KeyspaceInv, HeadIs
<1> QED BY <1>3, <1>4, <1>5, <1>6, <1>7, <1>8, <1>9, <1>10, <1>11 DEF Next, Operator

\* What the loop over the pods establishes when it ends.
LEMMA KeysWritten ==
  ASSUME TypeOK, ProgramInv, KeysInv, HeadInv, PodsInv,
         \/ ListPods /\ listed' = {}
         \/ ListPodsFails
         \/ WriteKeys /\ listed' = {}
  PROVE  KeysDone(target)'
<1> USE DEF passRest, passVars, k8sVars, dbVars, At
<1>1. HeadIs({"listPods", "writeKeys"}) /\ UNCHANGED <<target, keys, rows, sshSecret, misread>>
      /\ Replicas(target) \in Nat \ {0}
  <2>1. Replicas(target) \in 1..MaxNodes
    BY ServicesAssumption DEF TypeOK
  <2> QED BY <2>1, NumberFacts DEF ListPods, ListPodsFails, WriteKeys, HeadIs
<1>2. ~misread => Complete(sshSecret) /\ sshSecret = rows /\ sshSecret = keys
  BY <1>1 DEF KeysInv
<1>3. Replicas(target)' = Replicas(target)
  BY <1>1
<1>4. CASE ListPods /\ listed' = {}
  <2>1. cassandra.pods \in Nat /\ 0..cassandra.pods - 1 = {}
    <3>1. cassandra.pods \in Nat
      BY NumberFacts DEF TypeOK
    <3>2. listed' = 0..cassandra.pods - 1 /\ listed' = {}
      BY <1>4 DEF ListPods
    <3> QED BY <3>1, <3>2
  <2>2. ~(Replicas(target) <= cassandra.pods)
    <3>1. ~(0 \in 0..cassandra.pods - 1)
      BY <2>1, Zenon
    <3>2. ~(1 <= cassandra.pods)
      BY <2>1, <3>1
    <3> QED BY <1>1, <2>1, <3>2
  <2>3. Here = "backup" /\ Here \in ran /\ phase = "run"
    BY <1>4, StepFacts DEF ListPods, SshSteps
  <2>4. unseen' = unseen /\ unseen
    BY <1>4, <2>2, <2>3 DEF ListPods, PodsInv, TypeOK
  <2> QED BY <2>4 DEF KeysDone
<1>5. CASE ListPodsFails
  BY <1>5 DEF ListPodsFails, KeysDone
<1>6. CASE WriteKeys /\ listed' = {}
  <2>1. HeadIs({"writeKeys"}) /\ unseen' = unseen
    BY <1>6 DEF WriteKeys, HeadIs
  <2>2. /\ listed # {} /\ listed = {ThisPod} /\ ThisPod \in listed
        /\ ~unseen => \A n \in 0..Replicas(target) - 1 : n \in listed \/ auth[n] = keys.public
    <3>1. listed # {} /\ listed \subseteq Nat
      BY <2>1 DEF HeadInv, TypeOK, Nodes
    <3>2. ThisPod \in listed
      BY <3>1, ThisPodIsListed
    <3> QED BY <1>6, <2>1, <3>1, <3>2 DEF HeadInv, WriteKeys
  <2>3. auth' = [auth EXCEPT ![ThisPod] = keys.public] /\ ThisPod \in Nodes
        /\ auth \in [Nodes -> Keys \cup {None}]
    BY <1>6, <2>2 DEF WriteKeys, TypeOK
  <2>4. ASSUME ~unseen, NEW n \in 0..Replicas(target) - 1 PROVE auth'[n] = keys.public
    <3>1. 0..Replicas(target) - 1 \subseteq Nodes
      <4>1. Replicas(target) \in 1..MaxNodes
        BY ServicesAssumption DEF TypeOK
      <4> QED BY <4>1, NumberFacts DEF Nodes
    <3> QED BY <2>2, <2>3, <2>4, <3>1
  <2> QED BY <1>1, <1>2, <1>3, <2>1, <2>4 DEF KeysDone, Complete
<1> QED BY <1>4, <1>5, <1>6

\* The ssh step ends with the keyspace as the running pass wants it.
LEMMA KeyspaceWritten ==
  ASSUME KeyspaceInv, ListPods \/ ListPodsFails \/ WriteKeys
  PROVE  KeyspaceDone(target)'
<1>1. HeadIs(PastKeyspace) /\ UNCHANGED <<target, replication, generated>>
  BY DEF ListPods, ListPodsFails, WriteKeys, At, HeadIs, PastKeyspace, passRest, dbVars
<1> QED BY <1>1 DEF KeyspaceInv, KeyspaceDone

\* Each step keeps the progress of the pass.
LEMMA HeadNext ==
  ASSUME TypeOK, ProgramInv, KeysInv, KeyspaceInv, HeadInv, PodsInv, [Next]_vars
  PROVE  HeadInv'
<1> USE DEF passRest, worldRest, passVars, k8sVars, dbVars, history, At
<1>1. CASE phase' # "run" \/ program' = <<>>
  BY <1>1 DEF HeadInv, HeadIs
<1>2. CASE Reconcile \/ CassandraOperatorNotReady \/ PassFails \/ WaitTimesOut \/ Finish
  BY <1>1, <1>2 DEF Reconcile, CassandraOperatorNotReady, PassFails, WaitTimesOut, Finish
<1>3. CASE CassandraOperatorReady
  <2>1. program' # <<>> => Head(program')[2] \in FirstSteps(Here')
    BY <1>3, BuilderLinked DEF CassandraOperatorReady, Here
  <2>2. ASSUME program' # <<>>, phase' = "run"
        PROVE  \/ HeadIs({"createPVC", "deleteService"})'
               \/ (Here' = "robot" /\ HeadIs({"deleteDeployment"})')
    BY <2>1, <2>2 DEF FirstSteps, HeadIs
  <2> QED BY <1>1, <2>2 DEF HeadInv, HeadIs, ServiceOk
<1>4. CASE CreatePVC \/ DeleteService \/ CreateKeyspace \/ AlterKeyspace \/ InsertPublic
           \/ InsertPrivate \/ CreateSecret \/ DeleteDeploymentAndPods \/ WaitForPodsReady
  <2>1. phase = "run" /\ program # <<>> /\ Next1 /\ UNCHANGED <<phase, target>>
        /\ Head(program)[2] \notin {"createService", "selectKeys", "listPods", "writeKeys",
             "createDeployment"}
    BY <1>4 DEF CreatePVC, DeleteService, CreateKeyspace, AlterKeyspace, InsertPublic,
       InsertPrivate, CreateSecret, DeleteDeploymentAndPods, WaitForPodsReady
  <2>2. /\ Head(program)[2] \notin {"createPVC", "deleteService", "createService"} =>
             services' = services
        /\ Head(program)[2] \in {"deleteDeployment", "createDeployment"} =>
             UNCHANGED <<dbVars, sshSecret, auth, misread, unseen>>
    BY <1>4 DEF CreatePVC, DeleteService, CreateKeyspace, AlterKeyspace, InsertPublic,
       InsertPrivate, CreateSecret, DeleteDeploymentAndPods, WaitForPodsReady
  <2> QED BY <2>1, <2>2, HeadGoesOn
<1>5. CASE CreateService
  <2>1. Here \in Names /\ services'[Here] = GetHTTPPort(TLSOf(Here, target))
    BY <1>5, StepFacts DEF CreateService, TypeOK
  <2> QED BY <1>5, <2>1, HeadGoesOn DEF CreateService
<1>6. CASE CreateDeployment
  <2>1. Here \in Names /\ deployments'[Here] = Template(Here, target)
    BY <1>6, StepFacts DEF CreateDeployment, TypeOK
  <2> QED BY <1>6, <2>1, HeadGoesOn DEF CreateDeployment
<1>7. CASE SelectKeys \/ GenerateMissingKeys \/ SelectKeysFails
  <2>1. /\ Here' = Here /\ Head(program')[2] \in {"alterKeyspace", "createKeyspace"}
        /\ UNCHANGED <<phase, target, services>> /\ HeadIs({"selectKeys"})
    BY <1>7, ProgramBranches DEF SelectKeys, GenerateMissingKeys, SelectKeysFails,
       GenerateKeyPair, HeadIs
  <2>2. ServiceOk(Here, target)
    BY <2>1 DEF HeadInv, HeadIs
  <2>3. ServiceOk(Here, target)'
    BY <2>1, <2>2 DEF ServiceOk
  <2> QED BY <2>1, <2>3 DEF HeadInv, HeadIs
<1>8. CASE ListPods /\ listed' = {}
  BY <1>8, KeysWritten, KeyspaceWritten, HeadGoesOn DEF ListPods
<1>9. CASE ListPodsFails
  BY <1>9, KeysWritten, KeyspaceWritten, HeadGoesOn DEF ListPodsFails
<1>10. CASE WriteKeys /\ listed' = {}
  BY <1>10, KeysWritten, KeyspaceWritten, HeadGoesOn DEF WriteKeys
<1>11. CASE ListPods /\ listed' # {}
  <2>1. /\ Here' = Here /\ Here = "backup" /\ Here \in ran /\ Head(program')[2] = "writeKeys"
        /\ UNCHANGED <<phase, target, services, ran, unseen, auth, keys>> /\ HeadIs({"listPods"})
    BY <1>11, ProgramBranches DEF ListPods, HeadIs
  <2>2. ServiceOk(Here, target)'
    BY <2>1 DEF HeadInv, HeadIs, ServiceOk
  <2>3. ASSUME ~unseen', NEW n \in 0..Replicas(target') - 1 PROVE n \in listed'
    <3>1. Replicas(target) <= cassandra.pods
      BY <2>1, <2>3 DEF PodsInv, HeadIs
    <3>2. cassandra.pods \in Nat /\ Replicas(target) \in Nat
      BY ServicesAssumption, NumberFacts DEF TypeOK
    <3>3. listed' = 0..cassandra.pods - 1 /\ target' = target
      BY <1>11 DEF ListPods
    <3> QED BY <2>3, <3>1, <3>2, <3>3
  <2> QED BY <1>11, <2>1, <2>2, <2>3 DEF HeadInv, HeadIs
<1>12. CASE (WriteKeys /\ listed' # {}) \/ (WriteKeysFails /\ tried + 1 < Tries)
  <2>1. /\ UNCHANGED <<phase, program, target, services, unseen, keys>> /\ HeadIs({"writeKeys"})
        /\ Here' = Here
    BY <1>12 DEF WriteKeys, WriteKeysFails, HeadIs, Here
  <2>2. ServiceOk(Here, target)'
    BY <2>1 DEF HeadInv, HeadIs, ServiceOk
  <2>3. /\ listed # {} /\ ThisPod \in listed /\ listed \subseteq Nodes
        /\ ~unseen => \A n \in 0..Replicas(target) - 1 : n \in listed \/ auth[n] = keys.public
    <3>1. listed # {} /\ listed \subseteq Nat
      BY <2>1 DEF HeadInv, TypeOK, Nodes
    <3>2. ThisPod \in listed
      BY <3>1, ThisPodIsListed
    <3> QED BY <2>1, <3>1, <3>2 DEF HeadInv, TypeOK
  <2>4. auth \in [Nodes -> Keys \cup {None}]
    BY DEF TypeOK
  <2>5. listed' # {}
    BY <1>12, <2>3 DEF WriteKeys, WriteKeysFails
  <2>6. \A n \in Nodes : n \in listed \/ auth[n] = keys.public => n \in listed' \/ auth'[n] = keys.public
    <3>1. CASE WriteKeys
      <4>1. auth' = [auth EXCEPT ![ThisPod] = keys.public] /\ listed' = listed \ {ThisPod}
        BY <3>1 DEF WriteKeys
      <4> QED BY <2>3, <2>4, <4>1
    <3>2. CASE WriteKeysFails /\ tried + 1 < Tries
      <4>1. auth' \in {auth, [auth EXCEPT ![ThisPod] = None]} /\ listed' = listed
        BY <3>2 DEF WriteKeysFails
      <4> QED BY <2>3, <2>4, <4>1
    <3> QED BY <1>12, <3>1, <3>2
  <2>7. Replicas(target)' = Replicas(target) /\ 0..Replicas(target) - 1 \subseteq Nodes
    <3>1. Replicas(target) \in 1..MaxNodes
      BY ServicesAssumption DEF TypeOK
    <3> QED BY <2>1, <3>1, NumberFacts DEF Nodes
  <2> QED BY <2>1, <2>2, <2>3, <2>5, <2>6, <2>7 DEF HeadInv, HeadIs
<1>13. CASE WriteKeysFails /\ ~(tried + 1 < Tries)
  BY <1>1, <1>13 DEF WriteKeysFails
<1>14. CASE PodReady \/ CassandraStarts \/ CassandraRolls \/ CassandraFails \/ EditCassandra
            \/ EditServices \/ UNCHANGED vars
  <2>1. UNCHANGED <<phase, program, target, keys, listed, dbVars, sshSecret, auth, services,
                    deployments, misread, unseen>>
    BY <1>14 DEF PodReady, CassandraStarts, CassandraRolls, CassandraFails, EditCassandra,
         EditServices, vars
  <2>2. Here' = Here /\ Template(Here, target)' = Template(Here, target)
        /\ ServiceOk(Here, target)' = ServiceOk(Here, target)
        /\ KeysDone(target)' = KeysDone(target) /\ Replicas(target)' = Replicas(target)
        /\ KeyspaceDone(target)' = KeyspaceDone(target)
    BY <2>1 DEF Here, ServiceOk, KeysDone, KeyspaceDone
  <2> QED BY <2>1, <2>2 DEF HeadInv, HeadIs
<1> QED BY <1>2, <1>3, <1>4, <1>5, <1>6, <1>7, <1>8, <1>9, <1>10, <1>11, <1>12, <1>13, <1>14
        DEF Next, Operator


\* Each step keeps what has been applied.
LEMMA AppliedNext ==
  ASSUME TypeOK, ProgramInv, HeadInv, AppliedInv, [Next]_vars
  PROVE  AppliedInv'
<1> USE DEF passRest, worldRest, passVars, k8sVars, dbVars, history, At
<1>1. CASE Reconcile \/ CassandraOperatorNotReady
  <2>1. UNCHANGED <<target, recorded, services, deployments, ready, dbVars, sshSecret, auth,
                    misread, unseen, dirty>> /\ phase # "run" /\ phase' # "run"
    BY <1>1 DEF Reconcile, CassandraOperatorNotReady
  <2> QED BY <2>1, DoneStays DEF AppliedInv
<1>2. CASE CassandraOperatorReady
  <2>1. /\ UNCHANGED <<recorded, services, deployments, ready, dbVars, sshSecret, auth, misread, dirty>>
        /\ phase # "run" /\ ("backup" \notin ran' => unseen' = unseen)
    BY <1>2 DEF CassandraOperatorReady
  <2>2. \A c \in ran' : Pending(c)'
    BY <1>2, BuilderLinked DEF CassandraOperatorReady, Pending
  <2>3. ASSUME NEW c \in Names, c \notin ran', Done(c, recorded) PROVE Done(c, recorded)'
    <3>1. c = "backup" => UNCHANGED <<dbVars, sshSecret, auth, misread, unseen>>
      BY <2>1, <2>3
    <3>2. c = "backup" => /\ KeysDone(recorded)' = KeysDone(recorded)
                          /\ KeyspaceDone(recorded)' = KeyspaceDone(recorded)
      BY <2>1, <3>1 DEF KeysDone, KeyspaceDone
    <3>3. ServiceOk(c, recorded)' = ServiceOk(c, recorded)
      BY <2>1 DEF ServiceOk
    <3> QED BY <2>1, <2>3, <3>2, <3>3 DEF Done
  <2> QED BY <1>2, <2>1, <2>2, <2>3 DEF AppliedInv, CassandraOperatorReady
<1>3. CASE PassFails \/ WaitTimesOut
  <2>1. /\ UNCHANGED <<target, recorded, services, deployments, ready, dbVars, sshSecret, auth,
                       misread, unseen, ran>> /\ phase' = "idle"
        /\ dirty' = IF phase = "run" THEN dirty \cup ran ELSE dirty
    BY <1>3 DEF PassFails, WaitTimesOut
  <2> QED BY <2>1, DoneStays DEF AppliedInv
<1>4. CASE WriteKeysFails /\ ~(tried + 1 < Tries)
  <2>1. /\ UNCHANGED <<target, recorded, services, deployments, ready, dbVars, sshSecret,
                       misread, unseen, ran>> /\ phase' = "idle" /\ phase = "run"
        /\ dirty' = dirty \cup ran /\ Here = "backup" /\ Here \in ran
    BY <1>4, StepFacts DEF WriteKeysFails, SshSteps
  <2> QED BY <2>1, DoneStays DEF AppliedInv
<1>5. CASE WriteKeysFails /\ tried + 1 < Tries
  BY <1>5, StepFacts, AppliedGoesOn DEF WriteKeysFails, SshSteps, Pending
<1>6. CASE WriteKeys /\ listed' # {}
  BY <1>6, StepFacts, AppliedGoesOn DEF WriteKeys, SshSteps, Pending
<1>7. CASE CreatePVC \/ DeleteService \/ CreateService \/ DeleteDeploymentAndPods \/ CreateDeployment
  <2>1. /\ phase = "run" /\ program # <<>> /\ Next1 /\ Head(program)[2] # "waitReady"
        /\ UNCHANGED <<phase, target, recorded, ran, dirty, dbVars, sshSecret, auth, misread, unseen>>
    BY <1>7 DEF CreatePVC, DeleteService, CreateService, DeleteDeploymentAndPods, CreateDeployment
  <2>2. \A c \in Names \ {Here} : /\ services'[c] = services[c] /\ deployments'[c] = deployments[c]
                                  /\ c \in ready => c \in ready'
    BY <1>7 DEF CreatePVC, DeleteService, CreateService, DeleteDeploymentAndPods, CreateDeployment,
       TypeOK
  <2>3. \A c : Pending(c) => Pending(c)'
    BY <2>1, AfterNext1
  <2> QED BY <2>1, <2>2, <2>3, AppliedGoesOn
<1>8. CASE CreateKeyspace \/ AlterKeyspace \/ InsertPublic \/ InsertPrivate \/ CreateSecret
           \/ ListPodsFails \/ (ListPods /\ listed' = {}) \/ (WriteKeys /\ listed' = {})
  <2>1. /\ phase = "run" /\ program # <<>> /\ Next1 /\ Head(program)[2] \in SshSteps
        /\ UNCHANGED <<phase, target, recorded, ran, dirty, services, deployments, ready>>
    BY <1>8 DEF CreateKeyspace, AlterKeyspace, InsertPublic, InsertPrivate, CreateSecret,
       ListPodsFails, ListPods, WriteKeys, SshSteps
  <2>2. (\A c : Pending(c) => Pending(c)') /\ Here = "backup" /\ Head(program)[2] # "waitReady"
    BY <2>1, AfterNext1 DEF SshSteps
  <2> QED BY <2>1, <2>2, AppliedGoesOn
<1>9. CASE SelectKeys \/ GenerateMissingKeys \/ SelectKeysFails \/ (ListPods /\ listed' # {})
  <2>1. /\ phase = "run" /\ program # <<>> /\ Head(program)[2] # "waitReady"
        /\ UNCHANGED <<phase, target, recorded, ran, dirty, services, deployments, ready>>
    BY <1>9 DEF SelectKeys, GenerateMissingKeys, SelectKeysFails, ListPods
  <2>2. (\A c : Pending(c) => Pending(c)') /\ Here = "backup"
    BY <1>9, ProgramBranches DEF SelectKeys, GenerateMissingKeys, SelectKeysFails,
       GenerateKeyPair, ListPods
  <2> QED BY <2>1, <2>2, AppliedGoesOn
<1>10. CASE WaitForPodsReady
  <2>1. /\ phase = "run" /\ program # <<>> /\ Next1 /\ Head(program)[2] = "waitReady"
        /\ UNCHANGED <<phase, target, recorded, ran, dirty, services, deployments, ready, dbVars,
                       sshSecret, auth, misread, unseen>> /\ Here \in ready
    BY <1>10 DEF WaitForPodsReady
  <2>2. \A c : c # Here /\ Pending(c) => Pending(c)'
    BY <2>1, AfterNext1
  <2> QED BY <2>1, <2>2, AppliedGoesOn
<1>11. CASE Finish
  <2>1. /\ recorded' = target /\ phase' = "idle" /\ dirty' = dirty \ ran /\ phase = "run"
        /\ program = <<>> /\ UNCHANGED <<target, services, deployments, ready, dbVars, sshSecret,
                                         auth, misread, unseen>>
    BY <1>11 DEF Finish
  <2>2. \A c : ~Pending(c)
    BY <2>1 DEF Pending
  <2>3. ASSUME NEW c \in Names, target[c].install, c \notin dirty \ ran PROVE Done(c, target)
    <3>1. CASE c \in ran
      BY <2>1, <2>2, <3>1 DEF AppliedInv
    <3>2. CASE c \notin ran
      <4>1. /\ recorded # None /\ recorded.common = target.common /\ recorded[c] = target[c]
        BY <2>1, <2>3, <3>2 DEF ProgramInv, Selected, Condition, CommonChanged
      <4>2. Done(c, recorded)
        BY <2>1, <2>3, <3>2, <4>1 DEF AppliedInv
      <4> QED BY <4>1, <4>2, DoneCarriesOver
    <3> QED BY <3>1, <3>2
  <2>4. ASSUME NEW c \in Names, Done(c, target) PROVE Done(c, recorded)'
    <3>1. ServiceOk(c, recorded)' = ServiceOk(c, target)
      BY <2>1 DEF ServiceOk
    <3>2. KeysDone(recorded)' = KeysDone(target) /\ KeyspaceDone(recorded)' = KeyspaceDone(target)
      BY <2>1 DEF KeysDone, KeyspaceDone
    <3> QED BY <2>1, <2>4, <3>1, <3>2 DEF Done
  <2> QED BY <2>1, <2>3, <2>4 DEF AppliedInv
<1>12. CASE PodReady \/ CassandraStarts \/ CassandraRolls \/ CassandraFails \/ EditCassandra
            \/ EditServices \/ UNCHANGED vars
  <2>1. UNCHANGED <<phase, program, target, recorded, ran, dirty, dbVars, sshSecret, auth, services,
                    deployments, misread, unseen>> /\ ready \subseteq ready'
    BY <1>12 DEF PodReady, CassandraStarts, CassandraRolls, CassandraFails, EditCassandra,
         EditServices, vars
  <2>2. \A c : Pending(c) => Pending(c)'
    BY <2>1 DEF Pending
  <2>3. ran \subseteq Names
    BY DEF TypeOK
  <2> QED BY <2>1, <2>2, <2>3, DoneStays DEF AppliedInv
<1> QED BY <1>1, <1>2, <1>3, <1>4, <1>5, <1>6, <1>7, <1>8, <1>9, <1>10, <1>11, <1>12
        DEF Next, Operator

\* What relates the pass, the keys, Cassandra and the objects.
Applied == KeysInv /\ KeyspaceInv /\ HeadInv /\ PodsInv /\ AppliedInv

\* All of it as an invariant of the specification.
LEMMA AppliedInvariant == Spec => [](TypeOK /\ ProgramInv /\ Applied)
<1>1. Init => Applied
  BY DEF Init, Applied, KeysInv, KeyspaceInv, HeadInv, PodsInv, AppliedInv, HeadIs, NoPair, Complete
<1>2. TypeOK /\ ProgramInv /\ Applied /\ [Next]_vars => Applied'
  BY KeysNext, KeyspaceNext, HeadNext, PodsNext, AppliedNext DEF Applied
<1> QED BY <1>1, <1>2, TypeInvariant, PTL DEF Spec

\* What holds of an installed component after a successful pass.
LEMMA SettledFacts ==
  ASSUME TypeOK, Applied, Settled, NEW c \in Names, Deployed(c)
  PROVE  Done(c, cr) /\ cr \in Specs
<1>1. recorded = cr /\ cr \in Specs /\ recorded # None /\ phase # "run"
  BY ServicesAssumption DEF Settled, TypeOK
<1> QED BY <1>1 DEF Deployed, Applied, AppliedInv

\* The ports and the certificate of a deployment follow from TLS.
LEMMA TemplatePorts ==
  ASSUME NEW t
  PROVE  /\ Template("backup", t).port = GetHTTPPort(TLSOf("backup", t))
         /\ Template("dbaas", t).port = GetHTTPPort(TLSOf("dbaas", t))
         /\ Cert["backup"] \in Template("backup", t).secrets <=> TLSOf("backup", t)
         /\ Cert["dbaas"] \in Template("dbaas", t).secrets <=> TLSOf("dbaas", t)
         /\ Template("dbaas", t).backup = BackupAddress(t)
         /\ t.backup.install => "backup" \in Template("dbaas", t).secrets
         /\ TLSClientSpecUpdate(t.common.tls) \subseteq Template("dbaas", t).secrets
         /\ Template("backup", t).hosts = BackupHosts(t)
<1>1. Template("backup", t) = LegacyBackupDeploymentTemplate(t)
  BY DEF Template
<1>2. Template("dbaas", t) = DbaasDeploymentTemplate(t)
  BY DEF Template
<1>3. TLSOf("backup", t) = t.common.tls /\ TLSOf("dbaas", t) = IsTLSEnableForDBAAS(t)
  BY DEF TLSOf
<1>4. Cert["backup"] = "backup-cert" /\ Cert["dbaas"] = "dbaas-cert"
      /\ Cert.backup = "backup-cert" /\ Cert.dbaas = "dbaas-cert"
  BY DEF Cert
<1>5. /\ Template("backup", t).port = GetHTTPPort(t.common.tls)
      /\ Template("backup", t).secrets =
           BackupSecrets(t) \cup TLSClientSpecUpdate(t.common.tls)
             \cup TLSServerSpecUpdate(t.common.tls, Cert.backup)
      /\ Template("backup", t).hosts = BackupHosts(t)
  BY <1>1 DEF LegacyBackupDeploymentTemplate
<1>6. /\ Template("dbaas", t).port = GetHTTPPort(IsTLSEnableForDBAAS(t))
      /\ Template("dbaas", t).secrets =
           DbaasSecrets(t) \cup TLSClientSpecUpdate(t.common.tls)
             \cup TLSServerSpecUpdate(IsTLSEnableForDBAAS(t), Cert.dbaas)
      /\ Template("dbaas", t).backup = BackupAddress(t)
  BY <1>2 DEF DbaasDeploymentTemplate
<1>7. Cert["backup"] \in Template("backup", t).secrets <=> t.common.tls
  BY <1>4, <1>5 DEF BackupSecrets, TLSClientSpecUpdate, TLSServerSpecUpdate
<1>8. Cert["dbaas"] \in Template("dbaas", t).secrets <=> IsTLSEnableForDBAAS(t)
  BY <1>4, <1>6 DEF DbaasSecrets, TLSClientSpecUpdate, TLSServerSpecUpdate
<1>9. t.backup.install => "backup" \in Template("dbaas", t).secrets
  BY <1>6 DEF DbaasSecrets
<1>10. TLSClientSpecUpdate(t.common.tls) \subseteq Template("dbaas", t).secrets
  BY <1>6
<1> QED BY <1>3, <1>5, <1>6, <1>7, <1>8, <1>9, <1>10

\* Whichever passes failed half way, and whatever was edited during a pass,
\* every installed component that no failed pass may have left half done
\* listens where its service sends requests, has its certificate exactly on the
\* TLS port, and the adapter calls the backup daemon on the port the daemon's
\* service has, with the secrets it needs. A pass that skips a component
\* relies on what an earlier one deployed from another specification.
THEOREM PortsStayInAgreement == Spec => []PortsAgree
<1>1. ASSUME TypeOK, Applied, Settled, NEW c \in {"backup", "dbaas"}, Deployed(c)
      PROVE  /\ c \in ready /\ services[c] = GetHTTPPort(TLSOf(c, cr))
             /\ services[c] = deployments[c].port
             /\ Cert[c] \in deployments[c].secrets <=> services[c] = 8443
             /\ \E t \in Specs : t.common = cr.common /\ deployments[c] = Template(c, t)
  <2>1. c \in Names /\ Done(c, cr) /\ c # "robot"
    BY <1>1, SettledFacts, NameFacts
  <2>2. PICK t \in Specs : t.common = cr.common /\ t[c] = cr[c] /\ deployments[c] = Template(c, t)
    BY <2>1 DEF Done
  <2>3. TLSOf(c, t) = TLSOf(c, cr)
    BY <1>1, <2>2 DEF TLSOf, IsTLSEnableForDBAAS
  <2>4. /\ Template(c, t).port = GetHTTPPort(TLSOf(c, t))
        /\ Cert[c] \in Template(c, t).secrets <=> TLSOf(c, t)
    BY <1>1, TemplatePorts
  <2>5. GetHTTPPort(TLSOf(c, cr)) = 8443 <=> TLSOf(c, cr)
    BY DEF GetHTTPPort
  <2>6. c \in ready /\ services[c] = GetHTTPPort(TLSOf(c, cr))
    BY <2>1 DEF Done, ServiceOk
  <2> QED BY <2>2, <2>3, <2>4, <2>5, <2>6
<1>2. ASSUME TypeOK, Applied, Settled, Deployed("backup"), Deployed("dbaas"),
             deployments["dbaas"].backup # None
      PROVE  /\ deployments["dbaas"].backup = services["backup"]
             /\ {"backup"} \cup TLSClientSpecUpdate(deployments["dbaas"].backup = 8443)
                  \subseteq deployments["dbaas"].secrets
  <2>1. services["backup"] = GetHTTPPort(cr.common.tls)
    BY <1>1, <1>2 DEF TLSOf
  <2>2. PICK t \in Specs : t.common = cr.common /\ deployments["dbaas"] = Template("dbaas", t)
    BY <1>1, <1>2
  <2>3. /\ Template("dbaas", t).backup = BackupAddress(t)
        /\ t.backup.install => "backup" \in Template("dbaas", t).secrets
        /\ TLSClientSpecUpdate(t.common.tls) \subseteq Template("dbaas", t).secrets
    BY TemplatePorts
  <2>4. t.backup.install /\ BackupAddress(t) = GetHTTPPort(t.common.tls)
    BY <1>2, <2>2, <2>3 DEF BackupAddress
  <2>5. TLSClientSpecUpdate(GetHTTPPort(t.common.tls) = 8443) = TLSClientSpecUpdate(t.common.tls)
    BY DEF GetHTTPPort, TLSClientSpecUpdate
  <2> QED BY <2>1, <2>2, <2>3, <2>4, <2>5
<1>3. TypeOK /\ Applied => PortsAgree
  BY <1>1, <1>2 DEF PortsAgree
<1> QED BY <1>3, AppliedInvariant, PTL

\* After a successful pass over a cluster of one data centre the backup daemon
\* has a complete key pair, the one stored in the database, every pod of
\* Cassandra accepts it, and the daemon knows every one of them - unless a
\* stored key was misread, the list of pods failed, or the status of Cassandra
\* was outdated.
THEOREM BackupCanReachNodes == Spec => []BackupReachesEveryNode
<1>1. ASSUME TypeOK, Applied, Settled, Deployed("backup"),
             ~cr.common.aws, Len(cr.common.dcs) = 1, ~misread, ~unseen,
             cassandra.pods = Replicas(cr)
      PROVE  /\ sshSecret.public # None /\ sshSecret.public = sshSecret.private
             /\ sshSecret = rows
             /\ \A n \in 0..cassandra.pods - 1 :
                  n \in deployments["backup"].hosts /\ auth[n] = sshSecret.public
  <2>1. Done("backup", cr) /\ cr \in Specs
    BY <1>1, SettledFacts, NameFacts
  <2>2. PICK t \in Specs : t.common = cr.common /\ deployments["backup"] = Template("backup", t)
    BY <2>1 DEF Done
  <2>3. Complete(sshSecret) /\ sshSecret = rows
        /\ \A n \in 0..Replicas(cr) - 1 : auth[n] = sshSecret.public
    BY <1>1, <2>1 DEF Done, KeysDone
  <2>4. cr.common.dcs \in Seq(Nat)
    BY <2>1, SpecFacts
  <2>5. Replicas(cr) = cr.common.dcs[1]
    BY <1>1, <2>4, OneDataCentre
  <2>6. deployments["backup"].hosts = BackupHosts(t)
    BY <2>2, TemplatePorts
  <2>7. 0..cr.common.dcs[1] - 1 \subseteq BackupHosts(t)
    <3>1. t.common.dcs = cr.common.dcs /\ t.common.aws = cr.common.aws
      BY <2>2
    <3>2. 1 \in 1..Len(cr.common.dcs)
      BY <1>1
    <3> QED BY <1>1, <3>1, <3>2 DEF BackupHosts
  <2> QED BY <1>1, <2>3, <2>5, <2>6, <2>7 DEF Complete
<1>2. TypeOK /\ Applied => BackupReachesEveryNode
  BY <1>1 DEF BackupReachesEveryNode
<1> QED BY <1>2, AppliedInvariant, PTL

\* After a successful pass the keyspace of the keys is replicated as the applied
\* schema says, wherever passes failed and whatever was edited, unless a second
\* key pair had to be generated.
THEOREM KeyspaceIsReplicated == Spec => []KeyspaceFollowsSchema
<1>1. TypeOK /\ Applied => KeyspaceFollowsSchema
  BY SettledFacts, NameFacts DEF KeyspaceFollowsSchema, Done, KeyspaceDone
<1> QED BY <1>1, AppliedInvariant, PTL
=============================================================================
