------------------------- MODULE BackupRestoreProofs -------------------------
(***************************************************************************)
(* Theorems about BackupRestore for any hosts, keyspaces, tables, rows and *)
(* users, any placement of the rows, and any number of restores, failures  *)
(* and writes of clients: type correctness, what a successful backup       *)
(* holds, and what a finished restore has done.                            *)
(***************************************************************************)
EXTENDS BackupRestore, TLAPS

(***************************************************************************)
(* Where the restore can be. An archive is open from OpenArchive until its *)
(* last table is loaded.                                                   *)
(***************************************************************************)
InTables == {"table", "dropTable", "createTable", "load"}
InArchive == {"dropKeyspace", "createKeyspace", "dropAll", "roles"} \cup InTables
Working == InArchive \cup {"archive"}

Control ==
  /\ rs.pc # "idle" => BackupSucceeded
  /\ rs.pc \in Working => rs.pos <= Len(Dbs)
  /\ rs.pc = "finished" => rs.pos = Len(Dbs) + 1
  /\ rs.pc \in InArchive => rs.from \in Hosts /\ rs.from \notin rs.todo
  /\ rs.pc \in InTables => rs.tables \subseteq TablesIn(vault[rs.from], Source)
  /\ rs.pc \in InTables \ {"table"} =>
       rs.table \in TablesIn(vault[rs.from], Source) /\ rs.table \notin rs.tables

TypeInv == TypeOK /\ Control

(***************************************************************************)
(* Why a backup holds the cluster. Until the first restore, which comes    *)
(* after the backup, nothing of what was there at its start goes away. So  *)
(* a host finds, at whatever time it comes to a keyspace, the rows it      *)
(* stores and the grants, and it has come to all keyspaces when it is      *)
(* done. Nobody grants anything meanwhile: if no role on a keyspace lacks  *)
(* its password hash at the start, backup_roles does not give up. Every    *)
(* row has a host that stores it.                                          *)
(***************************************************************************)
Requested == IF AllTables THEN Tables ELSE sel

NothingGone ==
  /\ \E h \in Hosts : hpc[h] # "idle"
  /\ rs.pc = "idle"
  => start.rows \subseteq live.rows /\ start.grants = live.grants

RowsSaved(cluster, h, k) ==
  \A t \in Requested, x \in Rows :
    h \in Place[x] /\ <<k, t, x>> \in start.rows => <<k, t, x>> \in cluster.rows

Grantees(k) == {u \in Users : <<k, u>> \in start.grants}

MetaSaved(cluster, k) ==
  /\ k \in cluster.keyspaces
  /\ Grantees(k) \cap Unhashed \subseteq Skipped =>
       \A u \in Grantees(k) \ Skipped :
         Grantees(k) # {u} => <<k, u>> \in cluster.grants

HostProgress(h) ==
  /\ hpc[h] = "idle" => hpos[h] = 1
  /\ hpc[h] \in {"snapshot", "archive", "clear", "copy"} =>
       \A i \in 1..Len(Dbs) :
         /\ i < hpos[h] \/ (i = hpos[h] /\ hpc[h] # "snapshot") =>
              RowsSaved(local[h], h, Dbs[i])
         /\ i < hpos[h] \/ (i = hpos[h] /\ hpc[h] \in {"clear", "copy"}) =>
              MetaSaved(local[h], Dbs[i])
  /\ hpc[h] = "copy" => hpos[h] = Len(Dbs)
  /\ hpc[h] = "done" =>
       \A k \in Sources : RowsSaved(vault[h], h, k) /\ MetaSaved(vault[h], k)

BackupInv == TypeInv /\ NothingGone /\ \A h \in Hosts : HostProgress(h)

(***************************************************************************)
(* Rows are rows of a table, in the cluster and in what is saved of it.    *)
(***************************************************************************)
ConsistentInv ==
  /\ Consistent(live)
  /\ rs.pc = "load" => <<Target, rs.table>> \in live.tables
  /\ \A h \in Hosts : Consistent(local[h]) /\ Consistent(vault[h])
-----------------------------------------------------------------------------
(***************************************************************************)
(* How far a restore has come: the keyspaces it is through with, the hosts *)
(* whose archives of the current one it is through with, and the tables of *)
(* those archives and of the open one that have been loaded.               *)
(***************************************************************************)
TargetOf(k) == IF rs.clone THEN DbMap[k] ELSE k
Active == rs.pc \notin {"idle", "failed"}

Passed(k) ==
  /\ \E i \in 1..Len(Dbs) : i < rs.pos /\ Dbs[i] = k
  /\ rs.pc \in Working => k # Source

HostDone(h) == h \notin rs.todo /\ (rs.pc \in InArchive => h # rs.from)
Loaded(h, t) ==
  \/ HostDone(h)
  \/ /\ h = rs.from /\ rs.pc \in InTables /\ t \notin rs.tables
     /\ rs.pc # "table" => t # rs.table

(***************************************************************************)
(* A keyspace is dropped, or a clone emptied, at its first archive only.   *)
(***************************************************************************)
DropsAtFirst == IF rs.clone THEN ~rs.roles ELSE AllTables

FirstOnly ==
  /\ rs.pc = "archive" /\ DropsAtFirst /\ ~rs.dropped => rs.todo = Hosts
  /\ rs.pc \in {"createKeyspace", "dropAll"} /\ rs.clone /\ DropsAtFirst /\ ~rs.dropped =>
       rs.todo = Hosts \ {rs.from}
  /\ rs.pc = "dropAll" => rs.clone /\ ~rs.roles /\ ~rs.dropped
  /\ rs.pc = "dropKeyspace" =>
       rs.todo = Hosts \ {rs.from} /\ ~rs.clone /\ AllTables /\ rs.roles
  /\ rs.pc = "dropTable" => ~rs.clone
  /\ rs.pc \in {"roles"} \cup InTables /\ DropsAtFirst => rs.dropped
  /\ rs.pc \in InArchive /\ ~rs.clone /\ AllTables => rs.dropped

Lower(h, k, t) == RowsIn(vault[h], k, t) \subseteq RowsIn(live, TargetOf(k), t)
Upper(k, t) ==
  RowsIn(live, TargetOf(k), t) \subseteq Archived(k, t) \cup RowsIn(since, TargetOf(k), t)

CloneInv ==
  Active /\ rs.clone =>
    /\ \A k \in Sources, t \in Tables : Passed(k) =>
         (\A h \in Hosts : Lower(h, k, t)) /\ (~rs.roles => Upper(k, t))
    /\ rs.pc \in Working => \A h \in Hosts, t \in Tables :
         Loaded(h, t) /\ t \in TablesIn(vault[h], Source) => Lower(h, Source, t)
    /\ rs.pc \in Working /\ ~rs.roles /\ rs.dropped => \A t \in Tables : Upper(Source, t)
    /\ rs.pc = "dropAll" => \A t \in Tables \ rs.tables :
         RowsIn(live, Target, t) \subseteq RowsIn(since, Target, t)
    /\ \A k \in Sources, t \in Tables :
         /\ RowsIn(before, k, t) \subseteq RowsIn(live, k, t)
         /\ <<k, t>> \in before.tables => <<k, t>> \in live.tables

Reverted(k, t) ==
  /\ Upper(k, t)
  /\ \E h \in Hosts : t \in TablesIn(vault[h], k) /\ Lower(h, k, t)

Gone(k, t) ==
  /\ <<k, t>> \in live.tables => <<k, t>> \in since.tables
  /\ RowsIn(live, k, t) \subseteq RowsIn(since, k, t)

RevertInv ==
  Active /\ ~rs.clone =>
    /\ \A k \in Sources : Passed(k) => \A t \in ArchivedTables(k) : Reverted(k, t)
    /\ rs.pc \in Working => \A h \in Hosts, t \in Tables :
         /\ Loaded(h, t) /\ t \in TablesIn(vault[h], Source)
         /\ rs.pc \in {"createTable", "load"} => t # rs.table
         => Reverted(Source, t)
    /\ rs.pc \in {"createTable", "load"} => Upper(Source, rs.table)
    /\ AllTables /\ rs.roles =>
         \A k \in Sources, t \in Tables : t \notin ArchivedTables(k) =>
           /\ Passed(k) => Gone(k, t)
           /\ rs.pc \in Working \ {"dropKeyspace"} /\ k = Source /\ rs.dropped => Gone(k, t)
    /\ ~(AllTables /\ rs.roles) =>
         \A k \in Sources, t \in Tables : t \notin ArchivedTables(k) =>
           /\ RowsIn(before, k, t) \subseteq RowsIn(live, k, t)
           /\ <<k, t>> \in before.tables => <<k, t>> \in live.tables

RoleOf(k, u) == IF rs.clone THEN CloneRole[k][u] ELSE u
Granted(h, k) ==
  \A u \in Users : <<k, u>> \in vault[h].grants => <<TargetOf(k), RoleOf(k, u)>> \in live.grants

(***************************************************************************)
(* What was granted before the restore and is not revoked by what it       *)
(* drops: this holds at every step, what is restored only at the end.      *)
(***************************************************************************)
GrantsRemain ==
  /\ \A k \in Keyspaces, u \in Users :
       <<k, u>> \in before.grants /\ ~KeyspaceDropped(k) => <<k, u>> \in live.grants
  /\ \A k \in Keyspaces, t \in Tables, u \in Users :
       <<k, t, u>> \in before.tableGrants /\ ~TableDropped(k, t) =>
         <<k, t, u>> \in live.tableGrants

GrantInv ==
  Active =>
    /\ rs.roles => \A k \in Sources, h \in Hosts :
         /\ Passed(k) => Granted(h, k)
         /\ rs.pc \in Working /\ k = Source
            /\ (HostDone(h) \/ (h = rs.from /\ rs.pc \in InTables)) => Granted(h, k)
    /\ GrantsRemain

-----------------------------------------------------------------------------
(* What the actions do to the cluster and to the state of the restore.     *)

\* Keyspaces, tables and placement.
LEMMA ConstantFacts ==
  /\ Len(Dbs) \in Nat /\ Len(Dbs) > 0
  /\ \A i \in 1..Len(Dbs) : Dbs[i] \in Sources /\ Dbs[i] \in Keyspaces
  /\ \A k \in Sources : k \in Keyspaces /\ DbMap[k] \in Keyspaces /\ DbMap[k] \notin Sources
  /\ \A k \in Sources : \E i \in 1..Len(Dbs) : Dbs[i] = k
  /\ \A k, l \in Sources : DbMap[k] = DbMap[l] => k = l
  /\ Hosts # {} /\ None \notin Hosts /\ None \notin Tables
  /\ \A x \in Rows : Place[x] \subseteq Hosts /\ Place[x] # {}
  /\ MaxFaults \in Nat /\ MaxRestores \in Nat /\ MaxWrites \in Nat
<1>1. Len(Dbs) \in Nat /\ Len(Dbs) > 0
  BY BackupAssumption
<1>2. \A i \in 1..Len(Dbs) : Dbs[i] \in Sources /\ Dbs[i] \in Keyspaces
  BY DEF Sources, Keyspaces
<1>3. \A k \in Sources : k \in Keyspaces /\ DbMap[k] \in Keyspaces /\ DbMap[k] \notin Sources
  BY BackupAssumption DEF Keyspaces
<1>4. \A k \in Sources : \E i \in 1..Len(Dbs) : Dbs[i] = k
  BY DEF Sources
<1> QED BY <1>1, <1>2, <1>3, <1>4, BackupAssumption

\* A cluster has these parts, and any such parts are a cluster.
LEMMA ClusterParts ==
  ASSUME NEW c \in Cluster
  PROVE  /\ c.keyspaces \subseteq Keyspaces
         /\ c.tables \subseteq Keyspaces \X Tables
         /\ c.rows \subseteq Keyspaces \X Tables \X Rows
         /\ c.grants \subseteq Keyspaces \X Users
         /\ c.tableGrants \subseteq Keyspaces \X Tables \X Users
BY DEF Cluster

\* Without takes the given tables, with their rows, and nothing else.
LEMMA WithoutFacts ==
  ASSUME NEW c \in Cluster, NEW k, NEW T \in SUBSET Tables
  PROVE  /\ Without(c, k, T) \in Cluster
         /\ Without(c, k, T).keyspaces = c.keyspaces /\ Without(c, k, T).grants = c.grants
         /\ \A l, t : <<l, t>> \in Without(c, k, T).tables <=>
                       <<l, t>> \in c.tables /\ ~(l = k /\ t \in T)
         /\ \A l, t : \A x \in Rows : <<l, t, x>> \in Without(c, k, T).rows <=>
                       <<l, t, x>> \in c.rows /\ ~(l = k /\ t \in T)
         /\ \A l, t, u : <<l, t, u>> \in c.tableGrants /\ ~(l = k /\ t \in T) =>
                          <<l, t, u>> \in Without(c, k, T).tableGrants
<1> DEFINE w == Without(c, k, T)
<1>1. /\ w.keyspaces = c.keyspaces /\ w.grants = c.grants
      /\ w.tables = c.tables \ ({k} \X T) /\ w.rows = c.rows \ ({k} \X T \X Rows)
      /\ w.tableGrants = c.tableGrants \ ({k} \X T \X Users)
      /\ w \in Cluster
  BY DEF Without, Cluster
<1>2. \A l, t : <<l, t>> \in {k} \X T <=> l = k /\ t \in T
  OBVIOUS
<1>3. \A l, t : \A x \in Rows : <<l, t, x>> \in {k} \X T \X Rows <=> l = k /\ t \in T
  OBVIOUS
<1>4. \A l, t, u : <<l, t, u>> \in {k} \X T \X Users => l = k /\ t \in T
  OBVIOUS
<1> HIDE DEF w
<1> QED BY <1>1, <1>2, <1>3, <1>4 DEF w

(***************************************************************************)
(* The effects on the cluster: nothing but rows, tables or grants is       *)
(* added, or tables are dropped.                                           *)
(***************************************************************************)
AddsRows(R) ==
  /\ live'.rows = live.rows \cup R
  /\ live'.tables = live.tables /\ live'.grants = live.grants
  /\ live'.tableGrants = live.tableGrants

AddsTables(T) ==
  /\ live'.tables = live.tables \cup T
  /\ live'.rows = live.rows /\ live'.grants = live.grants
  /\ live'.tableGrants = live.tableGrants

AddsGrants(G) ==
  /\ live'.grants = live.grants \cup G
  /\ live'.rows = live.rows /\ live'.tables = live.tables
  /\ live'.tableGrants = live.tableGrants

Revokes(k, T) ==
  \A l, t, u : <<l, t, u>> \in live.tableGrants /\ ~(l = k /\ t \in T) =>
                 <<l, t, u>> \in live'.tableGrants

Drops(k, T) ==
  /\ Revokes(k, T)
  /\ \A l, t : <<l, t>> \in live'.tables <=> <<l, t>> \in live.tables /\ ~(l = k /\ t \in T)
  /\ \A l, t : \A x \in Rows :
       <<l, t, x>> \in live'.rows <=> <<l, t, x>> \in live.rows /\ ~(l = k /\ t \in T)

\* The restore goes to another step and keeps, apart from that, what it has.
SameRequest ==
  /\ rs' \in Restore
  /\ rs'.clone = rs.clone /\ rs'.roles = rs.roles
  /\ UNCHANGED <<backupVars, restores, writes, before, since>>
SameKeyspace == SameRequest /\ rs'.pos = rs.pos
SameArchive ==
  SameKeyspace /\ rs'.todo = rs.todo /\ rs'.from = rs.from

\* The keyspace and the clone a restore is at.
LEMMA SourceFacts ==
  ASSUME TypeInv, rs.pc \in Working
  PROVE  /\ Source \in Sources /\ Target \in Keyspaces
         /\ Target = TargetOf(Source)
         /\ rs.pos \in 1..Len(Dbs)
  BY ConstantFacts DEF TypeInv, TypeOK, Control, Source, Target, TargetOf, Restore

\* The next keyspace is opened, or the restore is finished.
LEMMA OpenKeyspaceFacts ==
  ASSUME TypeInv, OpenKeyspace
  PROVE  /\ SameKeyspace /\ rs.pc = "keyspace" /\ live' = live /\ faults' = faults
         /\ \/ rs'.pc = "finished" /\ rs.pos = Len(Dbs) + 1
            \/ rs'.pc = "failed"
            \/ /\ rs'.pc = "archive" /\ rs.pos \in 1..Len(Dbs) /\ ~rs'.dropped
               /\ rs'.todo = {h \in Hosts : Source \in vault[h].keyspaces}
<1> DEFINE backups == {h \in Hosts : Source \in vault[h].keyspaces}
<1>1. rs \in Restore /\ rs.pos \in Nat /\ Len(Dbs) \in Nat /\ backups \in SUBSET Hosts
  BY ConstantFacts DEF TypeInv, TypeOK, Restore
<1>2. rs.pc = "keyspace" /\ live' = live /\ faults' = faults
      /\ UNCHANGED <<backupVars, restores, writes, before, since>>
  BY DEF OpenKeyspace, Restores
<1> HIDE DEF backups
<1>3. CASE rs.pos > Len(Dbs)
  <2>1. rs' = [rs EXCEPT !.pc = "finished"]
    BY <1>3 DEF OpenKeyspace, Restores
  <2>2. rs.pos = Len(Dbs) + 1
    BY <1>1, <1>3 DEF Restore
  <2> QED BY <1>1, <1>2, <2>1, <2>2 DEF SameKeyspace, SameRequest, Restore
<1>4. CASE ~(rs.pos > Len(Dbs))
  <2>1. rs' = [rs EXCEPT !.pc = IF backups = {} THEN "failed" ELSE "archive",
                         !.todo = backups, !.dropped = FALSE]
    BY <1>4 DEF OpenKeyspace, Restores, backups
  <2>2. rs' \in Restore /\ rs'.clone = rs.clone /\ rs'.roles = rs.roles /\ rs'.pos = rs.pos
        /\ rs'.pc \in {"failed", "archive"} /\ rs'.todo = backups /\ rs'.dropped = FALSE
    BY <1>1, <2>1 DEF Restore
  <2>3. rs.pos \in 1..Len(Dbs)
    BY <1>1, <1>4 DEF Restore
  <2> QED BY <1>1, <1>2, <2>2, <2>3 DEF SameKeyspace, SameRequest, backups
<1> QED BY <1>3, <1>4

\* The next archive is opened; what comes next depends on the kind of restore.
LEMMA OpenArchiveFacts ==
  ASSUME TypeInv, OpenArchive
  PROVE  /\ SameKeyspace /\ rs.pc = "archive" /\ live' = live /\ faults' = faults
         /\ rs'.from \in rs.todo /\ rs'.todo = rs.todo \ {rs'.from}
         /\ rs'.dropped <=> rs.dropped \/ (~rs.clone /\ AllTables)
         /\ \/ rs'.pc = "dropKeyspace" /\ ~rs.clone /\ ~rs.dropped /\ AllTables /\ rs.roles
            \/ rs'.pc = "roles" /\ ~rs.clone /\ rs.dropped
            \/ rs'.pc = "createKeyspace"
               /\ (rs.clone \/ (~rs.dropped /\ ~(AllTables /\ rs.roles)))
<1>1. PICK h \in rs.todo :
        Restores("archive", live,
          [rs EXCEPT !.todo = @ \ {h}, !.from = h,
                     !.pc = CASE rs.clone -> "createKeyspace"
                              [] ~rs.clone /\ rs.dropped -> "roles"
                              [] ~rs.clone /\ ~rs.dropped /\ AllTables /\ rs.roles -> "dropKeyspace"
                              [] OTHER -> "createKeyspace",
                     !.dropped = @ \/ (~rs.clone /\ AllTables)])
  BY DEF OpenArchive
<1> DEFINE P == CASE rs.clone -> "createKeyspace"
                  [] ~rs.clone /\ rs.dropped -> "roles"
                  [] ~rs.clone /\ ~rs.dropped /\ AllTables /\ rs.roles -> "dropKeyspace"
                  [] OTHER -> "createKeyspace"
           D == rs.dropped \/ (~rs.clone /\ AllTables)
<1>2. rs \in Restore /\ h \in Hosts /\ rs.todo \ {h} \in SUBSET Hosts /\ D \in BOOLEAN
      /\ rs.clone \in BOOLEAN /\ rs.dropped \in BOOLEAN /\ rs.roles \in BOOLEAN
      /\ AllTables \in BOOLEAN
  BY DEF TypeInv, TypeOK, Restore, AllTables
<1>3. \/ P = "dropKeyspace" /\ ~rs.clone /\ ~rs.dropped /\ AllTables /\ rs.roles
      \/ P = "roles" /\ ~rs.clone /\ rs.dropped
      \/ P = "createKeyspace" /\ (rs.clone \/ (~rs.dropped /\ ~(AllTables /\ rs.roles)))
  BY <1>2
<1>4. rs' = [rs EXCEPT !.todo = rs.todo \ {h}, !.from = h, !.pc = P, !.dropped = D]
  BY <1>1, <1>2 DEF Restores, Restore
<1>5. rs.pc = "archive" /\ live' = live /\ faults' = faults
      /\ UNCHANGED <<backupVars, restores, writes, before, since>>
  BY <1>1 DEF Restores
<1>6. P \in {"dropKeyspace", "roles", "createKeyspace"}
  BY <1>3
<1> HIDE DEF P, D
<1>7. rs' \in Restore /\ rs'.clone = rs.clone /\ rs'.roles = rs.roles /\ rs'.pos = rs.pos
      /\ rs'.pc = P /\ rs'.dropped = D /\ rs'.from = h /\ rs'.todo = rs.todo \ {h}
  BY <1>2, <1>4, <1>6 DEF Restore
<1>8. rs'.dropped <=> rs.dropped \/ (~rs.clone /\ AllTables)
  BY <1>7 DEF D
<1> QED BY <1>3, <1>5, <1>7, <1>8 DEF SameKeyspace, SameRequest

\* All archives of a keyspace are restored.
LEMMA KeyspaceDoneFacts ==
  ASSUME TypeInv, KeyspaceDone
  PROVE  /\ SameRequest /\ rs.pc = "archive" /\ rs'.pc = "keyspace" /\ live' = live
         /\ faults' = faults /\ rs.todo = {} /\ rs'.pos = rs.pos + 1
<1>1. rs \in Restore /\ rs.pos \in 1..Len(Dbs) /\ Len(Dbs) \in Nat /\ rs.todo = {}
      /\ rs.pc = "archive"
  BY ConstantFacts DEF TypeInv, TypeOK, Control, Restore, KeyspaceDone, Restores, Working
<1>2. rs' = [rs EXCEPT !.pc = "keyspace", !.pos = rs.pos + 1]
  BY <1>1 DEF KeyspaceDone, Restores, Restore
<1>3. rs.pos + 1 \in 1..(Len(Dbs) + 1)
  BY <1>1
<1>4. rs' \in Restore /\ rs'.clone = rs.clone /\ rs'.roles = rs.roles /\ rs'.pos = rs.pos + 1
      /\ rs'.pc = "keyspace"
  BY <1>1, <1>2, <1>3 DEF Restore
<1> QED BY <1>1, <1>4 DEF SameRequest, KeyspaceDone, Restores

\* The keyspace is dropped with its tables, rows and grants.
LEMMA DropKeyspaceFacts ==
  ASSUME TypeInv, DropKeyspace
  PROVE  /\ SameArchive /\ rs.pc = "dropKeyspace" /\ rs'.pc = "createKeyspace"
         /\ faults' = faults /\ rs'.dropped = rs.dropped
         /\ live' \in Cluster /\ Drops(Source, Tables)
         /\ live'.grants = live.grants \ ({Source} \X Users)
<1> DEFINE w == Without(live, Source, Tables)
           c == [w EXCEPT !.keyspaces = @ \ {Source}, !.grants = @ \ ({Source} \X Users)]
<1>1. rs \in Restore /\ live \in Cluster
  BY DEF TypeInv, TypeOK
<1>2. /\ w \in Cluster /\ w.grants = live.grants
      /\ \A l, t : <<l, t>> \in w.tables <=>
                    <<l, t>> \in live.tables /\ ~(l = Source /\ t \in Tables)
      /\ \A l, t : \A x \in Rows : <<l, t, x>> \in w.rows <=>
                    <<l, t, x>> \in live.rows /\ ~(l = Source /\ t \in Tables)
      /\ \A l, t, u : <<l, t, u>> \in live.tableGrants /\ ~(l = Source /\ t \in Tables) =>
                       <<l, t, u>> \in w.tableGrants
  BY <1>1, WithoutFacts
<1>3. live' = c
  BY DEF DropKeyspace, Restores
<1> HIDE DEF w
<1>4. c \in Cluster /\ c.rows = w.rows /\ c.tables = w.tables
      /\ c.tableGrants = w.tableGrants
      /\ c.grants = w.grants \ ({Source} \X Users)
  BY <1>2 DEF Cluster
<1> HIDE DEF c
<1>5. live' \in Cluster /\ Drops(Source, Tables)
      /\ live'.grants = live.grants \ ({Source} \X Users)
  BY <1>2, <1>3, <1>4 DEF Drops, Revokes
<1>6. rs' = [rs EXCEPT !.pc = "createKeyspace"] /\ rs.pc = "dropKeyspace"
  BY DEF DropKeyspace, Restores
<1>7. /\ rs' \in Restore /\ rs'.clone = rs.clone /\ rs'.roles = rs.roles
      /\ rs'.pos = rs.pos /\ rs'.todo = rs.todo /\ rs'.from = rs.from
      /\ rs'.pc = "createKeyspace" /\ rs'.dropped = rs.dropped
  BY <1>1, <1>6 DEF Restore
<1> QED BY <1>5, <1>6, <1>7 DEF SameArchive, SameKeyspace, SameRequest, DropKeyspace, Restores

CreatorGrants == IF Target \in live.keyspaces THEN {} ELSE {<<Target, Admin>>}

\* The keyspace or the clone is created if it is not there.
LEMMA CreateKeyspaceFacts ==
  ASSUME TypeInv, CreateKeyspace
  PROVE  /\ SameArchive /\ rs.pc = "createKeyspace" /\ faults' = faults
         /\ rs'.dropped = rs.dropped
         /\ live' \in Cluster /\ AddsGrants(CreatorGrants)
         /\ \/ /\ rs'.pc = "dropAll" /\ rs.clone /\ ~rs.dropped /\ ~rs.roles
               /\ rs'.tables = TablesIn(live, Target)
            \/ rs'.pc = "roles" /\ ~(rs.clone /\ ~rs.dropped /\ ~rs.roles)
<1>1. rs \in Restore /\ live \in Cluster /\ rs.pc = "createKeyspace"
  BY DEF TypeInv, TypeOK, CreateKeyspace, Restores
<1>2. Target \in Keyspaces /\ CreatorGrants \subseteq Keyspaces \X Users
  <2>1. Target \in Keyspaces /\ Admin \in Users
    BY <1>1, SourceFacts, BackupAssumption DEF Working, InArchive
  <2> QED BY <2>1 DEF CreatorGrants
<1>3. live' = [live EXCEPT !.keyspaces = live.keyspaces \cup {Target},
                           !.grants = live.grants \cup CreatorGrants]
  <2>1. live' = [live EXCEPT
                   !.keyspaces = live.keyspaces \cup {Target},
                   !.grants = IF Target \in live.keyspaces THEN live.grants
                                                           ELSE live.grants \cup {<<Target, Admin>>}]
    BY <1>1 DEF CreateKeyspace, Restores, Cluster
  <2>2. (IF Target \in live.keyspaces THEN live.grants
                                      ELSE live.grants \cup {<<Target, Admin>>})
          = live.grants \cup CreatorGrants
    BY DEF CreatorGrants
  <2> QED BY <2>1, <2>2
<1>4. live' \in Cluster /\ AddsGrants(CreatorGrants)
  BY <1>1, <1>2, <1>3 DEF Cluster, AddsGrants
<1>5. TablesIn(live, Target) \in SUBSET Tables
  BY DEF TablesIn
<1>6. CASE rs.clone /\ ~rs.dropped /\ ~rs.roles
  <2>1. rs' = [rs EXCEPT !.pc = "dropAll", !.tables = TablesIn(live, Target)]
    BY <1>6 DEF CreateKeyspace, Restores
  <2>2. /\ rs' \in Restore /\ rs'.clone = rs.clone /\ rs'.roles = rs.roles
        /\ rs'.pos = rs.pos /\ rs'.todo = rs.todo /\ rs'.from = rs.from
        /\ rs'.pc = "dropAll" /\ rs'.dropped = rs.dropped /\ rs'.tables = TablesIn(live, Target)
    BY <1>1, <1>5, <2>1 DEF Restore
  <2> QED BY <1>1, <1>4, <1>6, <2>2
       DEF SameArchive, SameKeyspace, SameRequest, CreateKeyspace, Restores
<1>7. CASE ~(rs.clone /\ ~rs.dropped /\ ~rs.roles)
  <2>1. rs' = [rs EXCEPT !.pc = "roles"]
    BY <1>7 DEF CreateKeyspace, Restores
  <2>2. /\ rs' \in Restore /\ rs'.clone = rs.clone /\ rs'.roles = rs.roles
        /\ rs'.pos = rs.pos /\ rs'.todo = rs.todo /\ rs'.from = rs.from
        /\ rs'.pc = "roles" /\ rs'.dropped = rs.dropped
    BY <1>1, <2>1 DEF Restore
  <2> QED BY <1>1, <1>4, <1>7, <2>2
       DEF SameArchive, SameKeyspace, SameRequest, CreateKeyspace, Restores
<1> QED BY <1>6, <1>7

\* One of the listed tables of the clone is dropped, or they all are.
LEMMA DropAllTablesFacts ==
  ASSUME TypeInv, DropAllTables
  PROVE  /\ SameArchive /\ rs.pc = "dropAll" /\ faults' = faults
         /\ live' \in Cluster /\ live'.grants = live.grants
         /\ \/ /\ rs'.pc = "dropAll" /\ rs'.dropped = rs.dropped
               /\ \E t \in rs.tables : rs'.tables = rs.tables \ {t} /\ Drops(Target, {t})
            \/ rs'.pc = "roles" /\ rs'.dropped /\ rs.tables = {} /\ live' = live
<1>1. rs \in Restore /\ live \in Cluster /\ rs.pc = "dropAll" /\ faults' = faults
      /\ UNCHANGED <<backupVars, restores, writes, before, since>>
  BY DEF TypeInv, TypeOK, DropAllTables, Restores
<1>2. ASSUME NEW t \in rs.tables,
             Restores("dropAll", Without(live, Target, {t}), [rs EXCEPT !.tables = @ \ {t}])
      PROVE  /\ SameArchive /\ live' \in Cluster /\ live'.grants = live.grants
             /\ rs'.pc = "dropAll" /\ rs'.dropped = rs.dropped
             /\ rs'.tables = rs.tables \ {t} /\ Drops(Target, {t})
  <2>1. {t} \in SUBSET Tables
    BY <1>1, <1>2 DEF Restore
  <2>2. live' = Without(live, Target, {t}) /\ rs' = [rs EXCEPT !.tables = rs.tables \ {t}]
    BY <1>1, <1>2 DEF Restores, Restore
  <2>3. live' \in Cluster /\ live'.grants = live.grants /\ Drops(Target, {t})
    BY <1>1, <2>1, <2>2, WithoutFacts DEF Drops, Revokes
  <2>4. /\ rs' \in Restore /\ rs'.clone = rs.clone /\ rs'.roles = rs.roles
        /\ rs'.pos = rs.pos /\ rs'.todo = rs.todo /\ rs'.from = rs.from
        /\ rs'.pc = "dropAll" /\ rs'.dropped = rs.dropped /\ rs'.tables = rs.tables \ {t}
    BY <1>1, <2>2 DEF Restore
  <2> QED BY <1>1, <2>3, <2>4 DEF SameArchive, SameKeyspace, SameRequest
<1>3. ASSUME rs.tables = {},
             Restores("dropAll", live, [rs EXCEPT !.pc = "roles", !.dropped = TRUE])
      PROVE  SameArchive /\ live' = live /\ rs'.pc = "roles" /\ rs'.dropped
  <2>1. live' = live /\ rs' = [rs EXCEPT !.pc = "roles", !.dropped = TRUE]
    BY <1>3 DEF Restores
  <2>2. /\ rs' \in Restore /\ rs'.clone = rs.clone /\ rs'.roles = rs.roles
        /\ rs'.pos = rs.pos /\ rs'.todo = rs.todo /\ rs'.from = rs.from
        /\ rs'.pc = "roles" /\ rs'.dropped = TRUE
    BY <1>1, <2>1 DEF Restore
  <2> QED BY <1>1, <2>1, <2>2 DEF SameArchive, SameKeyspace, SameRequest
<1> QED BY <1>1, <1>2, <1>3 DEF DropAllTables

\* What is saved of a keyspace, on the keyspace or the clone.
LEMMA SavedFacts ==
  ASSUME TypeInv, rs.pc \in InArchive
  PROVE  /\ SavedGrants \subseteq Keyspaces \X Users
         /\ \A u : <<Source, u>> \in vault[rs.from].grants =>
              <<Target, RoleOf(Source, u)>> \in SavedGrants
         /\ rs.pc = "load" => SavedRows \subseteq Keyspaces \X Tables \X Rows
         /\ \A l, t, x : <<l, t, x>> \in SavedRows =>
              l = Target /\ t = rs.table /\ <<Source, t, x>> \in vault[rs.from].rows
         /\ \A x : <<Source, rs.table, x>> \in vault[rs.from].rows =>
              <<Target, rs.table, x>> \in SavedRows
<1>1. /\ Target \in Keyspaces /\ Source \in Sources /\ vault[rs.from] \in Cluster
      /\ rs.pc = "load" => rs.table \in Tables
  BY SourceFacts DEF TypeInv, TypeOK, Control, Working, InTables, TablesIn
<1>2. vault[rs.from].grants \subseteq Keyspaces \X Users
      /\ vault[rs.from].rows \subseteq Keyspaces \X Tables \X Rows
  BY <1>1, ClusterParts
<1>3. SavedGrants = {<<Target, RoleOf(Source, x[2])>> :
                       x \in {y \in vault[rs.from].grants : y[1] = Source}}
  BY DEF SavedGrants, RoleOf
<1>4. SavedGrants \subseteq Keyspaces \X Users
  <2>1. \A u \in Users : RoleOf(Source, u) \in Users
    BY <1>1, BackupAssumption DEF RoleOf
  <2> QED BY <1>1, <1>2, <1>3, <2>1
<1>5. \A u : <<Source, u>> \in vault[rs.from].grants =>
              <<Target, RoleOf(Source, u)>> \in SavedGrants
  BY <1>2, <1>3
<1>6. rs.pc = "load" => SavedRows \subseteq Keyspaces \X Tables \X Rows
  BY <1>1, <1>2 DEF SavedRows
<1>7. \A l, t, x : <<l, t, x>> \in SavedRows =>
              l = Target /\ t = rs.table /\ <<Source, t, x>> \in vault[rs.from].rows
  BY <1>2 DEF SavedRows
<1>8. \A x : <<Source, rs.table, x>> \in vault[rs.from].rows =>
              <<Target, rs.table, x>> \in SavedRows
  BY <1>2 DEF SavedRows
<1> QED BY <1>4, <1>5, <1>6, <1>7, <1>8

\* Roles are restored if that was requested.
LEMMA RestoreRolesFacts ==
  ASSUME TypeInv, RestoreRoles
  PROVE  /\ SameArchive /\ rs.pc = "roles" /\ rs'.pc = "table" /\ faults' = faults
         /\ rs'.dropped = rs.dropped
         /\ rs'.tables = TablesIn(vault[rs.from], Source)
         /\ live' \in Cluster
         /\ rs.roles => AddsGrants(SavedGrants)
         /\ ~rs.roles => AddsGrants({})
<1>1. rs \in Restore /\ live \in Cluster /\ rs.pc = "roles" /\ rs.pc \in InArchive
  BY DEF TypeInv, TypeOK, RestoreRoles, Restores, InArchive
<1>2. SavedGrants \subseteq Keyspaces \X Users
  BY <1>1, SavedFacts
<1>3. TablesIn(vault[rs.from], Source) \in SUBSET Tables
  BY DEF TablesIn
<1>4. live' = [live EXCEPT !.grants = IF rs.roles THEN @ \cup SavedGrants ELSE @]
      /\ rs' = [rs EXCEPT !.pc = "table", !.tables = TablesIn(vault[rs.from], Source)]
  BY DEF RestoreRoles, Restores
<1>5. live' \in Cluster
      /\ (rs.roles => AddsGrants(SavedGrants)) /\ (~rs.roles => AddsGrants({}))
  BY <1>1, <1>2, <1>4 DEF Cluster, AddsGrants
<1>6. /\ rs' \in Restore /\ rs'.clone = rs.clone /\ rs'.roles = rs.roles
      /\ rs'.pos = rs.pos /\ rs'.todo = rs.todo /\ rs'.from = rs.from
      /\ rs'.pc = "table" /\ rs'.dropped = rs.dropped
      /\ rs'.tables = TablesIn(vault[rs.from], Source)
  BY <1>1, <1>3, <1>4 DEF Restore
<1> QED BY <1>1, <1>5, <1>6 DEF SameArchive, SameKeyspace, SameRequest, RestoreRoles, Restores

\* The next table of the archive, or the end of the archive.
LEMMA RestoreKeyspaceFacts ==
  ASSUME TypeInv, RestoreKeyspace
  PROVE  /\ SameArchive /\ rs.pc = "table" /\ faults' = faults
         /\ rs'.dropped = rs.dropped /\ live' = live
         /\ \/ /\ rs'.pc = IF rs.clone THEN "createTable" ELSE "dropTable"
               /\ rs'.table \in rs.tables /\ rs'.tables = rs.tables \ {rs'.table}
            \/ rs'.pc = "archive" /\ rs.tables = {}
<1>1. rs \in Restore /\ rs.pc = "table" /\ faults' = faults /\ live' = live
      /\ UNCHANGED <<backupVars, restores, writes, before, since>>
  BY DEF TypeInv, TypeOK, RestoreKeyspace, Restores
<1>2. ASSUME NEW t \in rs.tables,
             Restores("table", live,
               [rs EXCEPT !.tables = @ \ {t}, !.table = t,
                          !.pc = IF rs.clone THEN "createTable" ELSE "dropTable"])
      PROVE  /\ SameArchive /\ rs'.dropped = rs.dropped
             /\ rs'.pc = IF rs.clone THEN "createTable" ELSE "dropTable"
             /\ rs'.table = t /\ rs'.tables = rs.tables \ {t}
  <2> DEFINE P == IF rs.clone THEN "createTable" ELSE "dropTable"
  <2>1. rs' = [rs EXCEPT !.tables = rs.tables \ {t}, !.table = t, !.pc = P]
    BY <1>1, <1>2 DEF Restores, Restore
  <2>2. P \in {"createTable", "dropTable"} /\ t \in Tables /\ rs.tables \ {t} \in SUBSET Tables
    BY <1>1, <1>2 DEF Restore
  <2> HIDE DEF P
  <2>3. /\ rs' \in Restore /\ rs'.clone = rs.clone /\ rs'.roles = rs.roles
        /\ rs'.pos = rs.pos /\ rs'.todo = rs.todo /\ rs'.from = rs.from
        /\ rs'.pc = P /\ rs'.dropped = rs.dropped
        /\ rs'.table = t /\ rs'.tables = rs.tables \ {t}
    BY <1>1, <2>1, <2>2 DEF Restore
  <2> QED BY <1>1, <2>3 DEF P, SameArchive, SameKeyspace, SameRequest
<1>3. ASSUME rs.tables = {}, Restores("table", live, [rs EXCEPT !.pc = "archive"])
      PROVE  SameArchive /\ rs'.dropped = rs.dropped /\ rs'.pc = "archive"
  <2>1. rs' = [rs EXCEPT !.pc = "archive"]
    BY <1>3 DEF Restores
  <2>2. /\ rs' \in Restore /\ rs'.clone = rs.clone /\ rs'.roles = rs.roles
        /\ rs'.pos = rs.pos /\ rs'.todo = rs.todo /\ rs'.from = rs.from
        /\ rs'.pc = "archive" /\ rs'.dropped = rs.dropped
    BY <1>1, <2>1 DEF Restore
  <2> QED BY <1>1, <2>2 DEF SameArchive, SameKeyspace, SameRequest
<1> QED BY <1>1, <1>2, <1>3 DEF RestoreKeyspace

\* A table is dropped and created, and its rows are loaded.
LEMMA TableFacts ==
  ASSUME TypeInv, DropTable \/ CreateTable \/ SstableLoader
  PROVE  /\ SameArchive /\ faults' = faults
         /\ rs'.dropped = rs.dropped /\ rs'.tables = rs.tables /\ rs'.table = rs.table
         /\ live' \in Cluster /\ live'.grants = live.grants /\ rs.table \in Tables
         /\ \/ rs.pc = "dropTable" /\ rs'.pc = "createTable" /\ Drops(Target, {rs.table})
            \/ /\ rs.pc = "createTable" /\ rs'.pc = "load"
               /\ AddsTables({<<Target, rs.table>>})
            \/ rs.pc = "load" /\ rs'.pc = "table" /\ AddsRows(SavedRows)
<1>1. /\ rs \in Restore /\ live \in Cluster /\ rs.pc \in {"dropTable", "createTable", "load"}
      /\ faults' = faults /\ UNCHANGED <<backupVars, restores, writes, before, since>>
  BY DEF TypeInv, TypeOK, DropTable, CreateTable, SstableLoader, Restores
<1>2. rs.table \in Tables /\ Target \in Keyspaces
  BY <1>1, SourceFacts
    DEF TypeInv, Control, Working, InArchive, InTables, TablesIn
<1>3. rs' = [rs EXCEPT !.pc = rs'.pc] /\ rs'.pc \in {"createTable", "load", "table"}
  BY <1>1 DEF DropTable, CreateTable, SstableLoader, Restores, Restore
<1>4. /\ rs' \in Restore /\ rs'.clone = rs.clone /\ rs'.roles = rs.roles
      /\ rs'.pos = rs.pos /\ rs'.todo = rs.todo /\ rs'.from = rs.from
      /\ rs'.dropped = rs.dropped /\ rs'.tables = rs.tables /\ rs'.table = rs.table
  <2> DEFINE P == rs'.pc
  <2>1. rs' = [rs EXCEPT !.pc = P] /\ P \in {"createTable", "load", "table"}
    BY <1>3
  <2> HIDE DEF P
  <2> QED BY <1>1, <2>1 DEF Restore
<1>5. CASE DropTable
  <2>1. live' = Without(live, Target, {rs.table}) /\ rs.pc = "dropTable"
        /\ rs' = [rs EXCEPT !.pc = "createTable"]
    BY <1>5 DEF DropTable, Restores
  <2>2. live' \in Cluster /\ live'.grants = live.grants /\ Drops(Target, {rs.table})
    BY <1>1, <1>2, <2>1, WithoutFacts DEF Drops, Revokes
  <2>3. rs'.pc = "createTable"
    BY <1>1, <2>1 DEF Restore
  <2> QED BY <1>1, <1>2, <1>4, <2>1, <2>2, <2>3 DEF SameArchive, SameKeyspace, SameRequest
<1>6. CASE CreateTable
  <2>1. live' = [live EXCEPT !.tables = @ \cup {<<Target, rs.table>>}]
        /\ rs.pc = "createTable" /\ rs' = [rs EXCEPT !.pc = "load"]
    BY <1>6 DEF CreateTable, Restores
  <2>2. live' \in Cluster /\ live'.grants = live.grants /\ AddsTables({<<Target, rs.table>>})
    BY <1>1, <1>2, <2>1 DEF AddsTables, Cluster
  <2>3. rs'.pc = "load"
    BY <1>1, <2>1 DEF Restore
  <2> QED BY <1>1, <1>2, <1>4, <2>1, <2>2, <2>3 DEF SameArchive, SameKeyspace, SameRequest
<1>7. CASE SstableLoader
  <2>1. live' = [live EXCEPT !.rows = @ \cup SavedRows]
        /\ rs.pc = "load" /\ rs' = [rs EXCEPT !.pc = "table"]
    BY <1>7 DEF SstableLoader, Restores
  <2>2. SavedRows \subseteq Keyspaces \X Tables \X Rows
    BY <2>1, SavedFacts DEF InArchive, InTables
  <2>3. live' \in Cluster /\ live'.grants = live.grants /\ AddsRows(SavedRows)
    BY <1>1, <2>1, <2>2 DEF AddsRows, Cluster
  <2>4. rs'.pc = "table"
    BY <1>1, <2>1 DEF Restore
  <2> QED BY <1>1, <1>2, <1>4, <2>1, <2>3, <2>4 DEF SameArchive, SameKeyspace, SameRequest
<1> QED BY <1>5, <1>6, <1>7

\* A restore that fails may have granted and loaded a part.
LEMMA RestoreFailsFacts ==
  ASSUME TypeInv, RestoreFails
  PROVE  /\ SameArchive /\ rs.pc \notin Ended /\ rs'.pc = "failed"
         /\ faults' \in 0..MaxFaults /\ live' \in Cluster
         /\ live'.tables = live.tables
         /\ live.rows \subseteq live'.rows /\ live.grants \subseteq live'.grants
         /\ rs.pc # "load" => live'.rows = live.rows
         /\ rs.pc = "load" => live'.rows \subseteq live.rows \cup SavedRows
<1>1. rs \in Restore /\ live \in Cluster /\ rs.pc \notin Ended
      /\ faults < MaxFaults /\ faults' = faults + 1 /\ rs' = [rs EXCEPT !.pc = "failed"]
      /\ UNCHANGED <<backupVars, restores, writes, before, since>>
  BY DEF TypeInv, TypeOK, RestoreFails
<1>2. faults' \in 0..MaxFaults
  BY <1>1, ConstantFacts DEF TypeInv, TypeOK
<1>3. PICK r \in SUBSET (IF rs.pc = "load" THEN SavedRows ELSE {}),
           g \in SUBSET (IF rs.pc = "roles" /\ rs.roles THEN SavedGrants ELSE {}) :
         live' = [live EXCEPT !.rows = @ \cup r, !.grants = @ \cup g]
  BY DEF RestoreFails
<1>4. r \subseteq Keyspaces \X Tables \X Rows /\ (rs.pc # "load" => r = {})
      /\ (rs.pc = "load" => r \subseteq SavedRows)
  BY SavedFacts DEF InArchive, InTables
<1>5. g \subseteq Keyspaces \X Users
  BY SavedFacts DEF InArchive, InTables
<1>6. live' \in Cluster /\ live'.tables = live.tables
      /\ live'.rows = live.rows \cup r /\ live'.grants = live.grants \cup g
  BY <1>1, <1>3, <1>4, <1>5 DEF Cluster
<1>7. /\ rs' \in Restore /\ rs'.clone = rs.clone /\ rs'.roles = rs.roles
      /\ rs'.pos = rs.pos /\ rs'.todo = rs.todo /\ rs'.from = rs.from /\ rs'.pc = "failed"
  BY <1>1 DEF Restore
<1> QED BY <1>1, <1>2, <1>4, <1>6, <1>7 DEF SameArchive, SameKeyspace, SameRequest

\* A restore starts with the first keyspace.
LEMMA StartRestoreFacts ==
  ASSUME TypeInv, NEW clone \in BOOLEAN, NEW roles \in BOOLEAN, StartRestore(clone, roles)
  PROVE  /\ rs' \in Restore /\ rs'.pc = "keyspace" /\ rs'.pos = 1
         /\ BackupSucceeded /\ rs.pc \in Ended
         /\ before' = live /\ since' = Nothing /\ live' = live
         /\ restores' \in 0..MaxRestores
         /\ UNCHANGED <<backupVars, faults, writes>>
<1>1. rs' = [pc |-> "keyspace", clone |-> clone, roles |-> roles, pos |-> 1, todo |-> {},
            from |-> None, dropped |-> FALSE, tables |-> {}, table |-> None]
  BY DEF StartRestore
<1>2. rs' \in Restore /\ rs'.pc = "keyspace" /\ rs'.pos = 1
  BY <1>1, ConstantFacts DEF Restore
<1>3. restores' \in 0..MaxRestores
  BY ConstantFacts DEF StartRestore, TypeInv, TypeOK
<1> QED BY <1>2, <1>3 DEF StartRestore

\* Clients add a row to a table, or a table to a keyspace.
LEMMA ClientFacts ==
  ASSUME TypeInv, NEW k \in Keyspaces, NEW t \in Tables,
         \/ ClientCreatesTable(k, t)
         \/ \E x \in Rows : ClientWrites(k, t, x)
  PROVE  /\ live' \in Cluster /\ since' \in Cluster /\ writes' \in 0..MaxWrites
         /\ UNCHANGED <<backupVars, rs, faults, restores, before>>
         /\ live'.grants = live.grants
         /\ since.tables \subseteq since'.tables /\ since.rows \subseteq since'.rows
         /\ \/ AddsTables({<<k, t>>}) /\ <<k, t>> \in since'.tables
            \/ \E x \in Rows : /\ AddsRows({<<k, t, x>>}) /\ <<k, t, x>> \in since'.rows
                               /\ <<k, t>> \in live.tables
<1>1. live \in Cluster /\ since \in Cluster
  BY DEF TypeInv, TypeOK
<1>2. CASE ClientCreatesTable(k, t)
  <2>1. live' = [live EXCEPT !.tables = @ \cup {<<k, t>>}]
        /\ since' = [since EXCEPT !.tables = @ \cup {<<k, t>>}]
    BY <1>2 DEF ClientCreatesTable
  <2>2. live' \in Cluster /\ AddsTables({<<k, t>>})
    BY <1>1, <2>1 DEF Cluster, AddsTables
  <2>3. since' \in Cluster /\ since'.tables = since.tables \cup {<<k, t>>}
        /\ since'.rows = since.rows
    BY <1>1, <2>1 DEF Cluster
  <2>4. writes' \in 0..MaxWrites
    BY <1>2, ConstantFacts DEF ClientCreatesTable, TypeInv, TypeOK
  <2> QED BY <1>2, <2>2, <2>3, <2>4 DEF ClientCreatesTable, AddsTables
<1>3. ASSUME NEW x \in Rows, ClientWrites(k, t, x)
      PROVE  /\ live' \in Cluster /\ since' \in Cluster /\ writes' \in 0..MaxWrites
             /\ since.tables \subseteq since'.tables /\ since.rows \subseteq since'.rows
             /\ AddsRows({<<k, t, x>>}) /\ <<k, t, x>> \in since'.rows
             /\ <<k, t>> \in live.tables
             /\ UNCHANGED <<backupVars, rs, faults, restores, before>>
  <2>1. live' = [live EXCEPT !.rows = @ \cup {<<k, t, x>>}]
        /\ since' = [since EXCEPT !.rows = @ \cup {<<k, t, x>>}]
    BY <1>3 DEF ClientWrites
  <2>2. live' \in Cluster /\ AddsRows({<<k, t, x>>})
    BY <1>1, <2>1 DEF Cluster, AddsRows
  <2>3. since' \in Cluster /\ since'.rows = since.rows \cup {<<k, t, x>>}
        /\ since'.tables = since.tables
    BY <1>1, <2>1 DEF Cluster
  <2>4. writes' \in 0..MaxWrites
    BY <1>3, ConstantFacts DEF ClientWrites, TypeInv, TypeOK
  <2> QED BY <1>3, <2>2, <2>3, <2>4 DEF ClientWrites
<1> QED BY <1>2, <1>3 DEF AddsRows
-----------------------------------------------------------------------------
(* The steps of the backup.                                                *)

\* No host takes a step once a restore has been started.
LEMMA BackupFirst ==
  ASSUME TypeInv, \E h \in Hosts : hpc[h] # "done"
  PROVE  rs.pc = "idle"
BY DEF TypeInv, Control, BackupSucceeded

(***************************************************************************)
(* What the step of a host adds to its archives, under cluster: the rows   *)
(* it stores of the wanted tables, or the keyspace and its grants.         *)
(***************************************************************************)
Snapshots(h) ==
  /\ hpc[h] = "snapshot" /\ hpc'[h] = "archive" /\ hpos'[h] = hpos[h]
  /\ vault'[h] = vault[h]
  /\ local'[h].keyspaces = local[h].keyspaces /\ local'[h].grants = local[h].grants
  /\ local'[h].tables = local[h].tables
       \cup {x \in live.tables : x[1] = Dbs[hpos[h]] /\ x[2] \in Requested}
  /\ local'[h].rows = local[h].rows
       \cup {x \in live.rows : /\ x[1] = Dbs[hpos[h]] /\ x[2] \in Requested
                               /\ h \in Place[x[3]]}

Archives(h) ==
  /\ hpc[h] = "archive" /\ hpc'[h] = "clear" /\ hpos'[h] = hpos[h]
  /\ vault'[h] = vault[h]
  /\ local'[h].rows = local[h].rows /\ local'[h].tables = local[h].tables
  /\ local'[h].keyspaces = local[h].keyspaces \cup {Dbs[hpos[h]]}
  /\ local'[h].grants = local[h].grants \cup ({Dbs[hpos[h]]} \X SavedRoles(Dbs[hpos[h]]))

Clears(h) ==
  /\ hpc[h] = "clear" /\ local'[h] = local[h] /\ vault'[h] = vault[h]
  /\ \/ hpos[h] < Len(Dbs) /\ hpc'[h] = "snapshot" /\ hpos'[h] = hpos[h] + 1
     \/ hpos[h] = Len(Dbs) /\ hpc'[h] = "copy" /\ hpos'[h] = hpos[h]

Delivers(h) ==
  /\ hpc[h] = "copy" /\ hpc'[h] = "done" /\ hpos'[h] = hpos[h]
  /\ vault'[h] = local[h] /\ local'[h] = Nothing

Fails(h) ==
  /\ hpc[h] \in {"snapshot", "archive", "clear", "copy"} /\ hpc'[h] = "failed"
  /\ hpos'[h] = hpos[h] /\ vault'[h] = vault[h] /\ local'[h] = Nothing

\* A host changes nothing but its own state, and does one of these.
HostStep(h) ==
  /\ rs.pc = "idle"
  /\ hpc' \in [Hosts -> {"idle", "snapshot", "archive", "clear", "copy", "done", "failed"}]
  /\ hpos' \in [Hosts -> 1..Len(Dbs)]
  /\ local' \in [Hosts -> Cluster] /\ vault' \in [Hosts -> Cluster]
  /\ faults' \in 0..MaxFaults
  /\ \A g \in Hosts \ {h} : /\ hpc'[g] = hpc[g] /\ hpos'[g] = hpos[g]
                            /\ local'[g] = local[g] /\ vault'[g] = vault[g]
  /\ UNCHANGED <<live, sel, rs, restores, writes, start, before, since>>
  /\ Snapshots(h) \/ Archives(h) \/ Clears(h) \/ Delivers(h) \/ Fails(h)

\* The empty cluster.
LEMMA NothingFacts == Nothing \in Cluster /\ Consistent(Nothing)
BY DEF Nothing, Cluster, Consistent

\* Every action of a host is such a step.
LEMMA HostFacts ==
  ASSUME TypeInv, NEW h \in Hosts,
         \/ ExecuteSnapshot(h) \/ MakeArchive(h) \/ DeleteSnapshot(h)
         \/ CopyToVault(h) \/ HostFails(h)
  PROVE  HostStep(h)
<1>1. /\ hpc \in [Hosts -> {"idle", "snapshot", "archive", "clear", "copy", "done", "failed"}]
      /\ hpos \in [Hosts -> 1..Len(Dbs)] /\ Len(Dbs) \in Nat
      /\ local \in [Hosts -> Cluster] /\ vault \in [Hosts -> Cluster] /\ live \in Cluster
      /\ faults \in 0..MaxFaults /\ MaxFaults \in Nat /\ Nothing \in Cluster
  BY ConstantFacts, NothingFacts DEF TypeInv, TypeOK
<1>2. rs.pc = "idle"
  BY BackupFirst
    DEF ExecuteSnapshot, MakeArchive, DeleteSnapshot, CopyToVault, HostFails
<1>3. Dbs[hpos[h]] \in Keyspaces
  BY <1>1, ConstantFacts
<1>4. CASE ExecuteSnapshot(h)
  <2> DEFINE k == Dbs[hpos[h]]
             T == {x \in live.tables : x[1] = k /\ x[2] \in Requested}
             R == {x \in live.rows : /\ x[1] = k /\ x[2] \in Requested /\ h \in Place[x[3]]}
             c == [local[h] EXCEPT !.tables = @ \cup T, !.rows = @ \cup R]
  <2>1. local' = [local EXCEPT ![h] = c] /\ hpc' = [hpc EXCEPT ![h] = "archive"]
        /\ hpc[h] = "snapshot"
        /\ UNCHANGED <<live, sel, hpos, vault, start, rs, faults, restores, writes, before,
                       since>>
    BY <1>4 DEF ExecuteSnapshot, Requested, AllTables, HostMoves
  <2>2. T \subseteq live.tables /\ R \subseteq live.rows
    OBVIOUS
  <2> HIDE DEF T, R
  <2>3. c \in Cluster /\ c.keyspaces = local[h].keyspaces /\ c.grants = local[h].grants
        /\ c.tables = local[h].tables \cup T /\ c.rows = local[h].rows \cup R
    BY <1>1, <2>2 DEF Cluster
  <2> HIDE DEF c
  <2>4. local' \in [Hosts -> Cluster] /\ local'[h] = c
    BY <1>1, <2>1, <2>3
  <2> QED BY <1>1, <1>2, <2>1, <2>3, <2>4 DEF HostStep, Snapshots, T, R, k
<1>5. CASE MakeArchive(h)
  <2> DEFINE k == Dbs[hpos[h]]
             G == {k} \X SavedRoles(k)
             c == [local[h] EXCEPT !.keyspaces = @ \cup {k}, !.grants = @ \cup G]
  <2>1. local' = [local EXCEPT ![h] = c] /\ hpc' = [hpc EXCEPT ![h] = "clear"]
        /\ hpc[h] = "archive"
        /\ UNCHANGED <<live, sel, hpos, vault, start, rs, faults, restores, writes, before,
                       since>>
    BY <1>5 DEF MakeArchive, HostMoves
  <2>2. G \subseteq Keyspaces \X Users
    BY <1>3 DEF SavedRoles
  <2> HIDE DEF G
  <2>3. c \in Cluster /\ c.keyspaces = local[h].keyspaces \cup {k}
        /\ c.grants = local[h].grants \cup G
        /\ c.tables = local[h].tables /\ c.rows = local[h].rows
    BY <1>1, <1>3, <2>2 DEF Cluster
  <2> HIDE DEF c
  <2>4. local' \in [Hosts -> Cluster] /\ local'[h] = c
    BY <1>1, <2>1, <2>3
  <2> QED BY <1>1, <1>2, <2>1, <2>3, <2>4 DEF HostStep, Archives, G, k
<1>6. CASE DeleteSnapshot(h)
  <2>1. CASE hpos[h] < Len(Dbs)
    <3>1. hpc' = [hpc EXCEPT ![h] = "snapshot"] /\ hpos' = [hpos EXCEPT ![h] = @ + 1]
      BY <1>6, <2>1 DEF DeleteSnapshot, HostMoves
    <3>2. hpos' \in [Hosts -> 1..Len(Dbs)] /\ hpos'[h] = hpos[h] + 1
      BY <1>1, <2>1, <3>1
    <3> QED BY <1>1, <1>2, <1>6, <2>1, <3>1, <3>2 DEF DeleteSnapshot, HostStep, Clears
  <2>2. CASE ~(hpos[h] < Len(Dbs))
    <3>1. hpc' = [hpc EXCEPT ![h] = "copy"] /\ hpos' = hpos
      BY <1>6, <2>2 DEF DeleteSnapshot, HostMoves
    <3>2. hpos[h] = Len(Dbs)
      BY <1>1, <2>2
    <3> QED BY <1>1, <1>2, <1>6, <3>1, <3>2 DEF DeleteSnapshot, HostStep, Clears
  <2> QED BY <2>1, <2>2
<1>7. CASE CopyToVault(h)
  BY <1>1, <1>2, <1>7 DEF CopyToVault, HostMoves, HostStep, Delivers
<1>8. CASE HostFails(h)
  <2>1. faults' \in 0..MaxFaults
    BY <1>1, <1>8 DEF HostFails
  <2> QED BY <1>1, <1>2, <1>8, <2>1 DEF HostFails, HostMoves, HostStep, Fails
<1> QED BY <1>4, <1>5, <1>6, <1>7, <1>8

\* The backup is started on all hosts.
LEMMA ClusterBackupFacts ==
  ASSUME TypeInv, NEW T \in SUBSET Tables, ClusterBackup(T)
  PROVE  /\ rs.pc = "idle" /\ sel' \in SUBSET Tables /\ start' = live
         /\ \A h \in Hosts : hpc[h] = "idle"
         /\ hpc' = [h \in Hosts |-> "snapshot"]
         /\ UNCHANGED <<live, hpos, local, vault, rs, faults, restores, writes, before, since>>
<1>1. \A h \in Hosts : hpc[h] = "idle"
  BY DEF ClusterBackup
<1>2. rs.pc = "idle"
  BY <1>1, BackupFirst, ConstantFacts
<1> QED BY <1>1, <1>2 DEF ClusterBackup
-----------------------------------------------------------------------------
(* Types.                                                                  *)

\* The first state.
LEMMA TypeInit ==
  ASSUME Init
  PROVE  TypeInv
<1>1. Nothing \in Cluster /\ live \in Cluster /\ 1 \in 1..Len(Dbs) /\ 1 \in 1..(Len(Dbs) + 1)
  BY NothingFacts, ConstantFacts, BackupAssumption DEF Init
<1>2. rs \in Restore /\ rs.pc = "idle"
  BY <1>1 DEF Init, Restore
<1>3. TypeOK
  BY <1>1, <1>2, ConstantFacts DEF Init, TypeOK
<1>4. Control
  BY <1>2 DEF Control, Working, InArchive, InTables
<1> QED BY <1>3, <1>4 DEF TypeInv

\* Restore actions keep the types, if they keep the control conditions.
LEMMA TypeOfRestore ==
  ASSUME TypeInv, SameRequest, live' \in Cluster, faults' \in 0..MaxFaults
  PROVE  TypeOK'
BY DEF TypeInv, TypeOK, SameRequest, backupVars

\* Every action keeps the types and the control conditions.
LEMMA TypeNext ==
  ASSUME TypeInv, Next
  PROVE  TypeInv'
<1> USE DEF TypeInv
<1>1. /\ live \in Cluster /\ rs \in Restore /\ faults \in 0..MaxFaults
      /\ hpc \in [Hosts -> {"idle", "snapshot", "archive", "clear", "copy", "done", "failed"}]
  BY DEF TypeOK
<1>2. ASSUME NEW T \in SUBSET Tables, ClusterBackup(T) PROVE TypeInv'
  <2>1. TypeOK'
    BY <1>1, <1>2, ClusterBackupFacts DEF TypeOK
  <2>2. rs' = rs /\ rs.pc = "idle"
    BY <1>2, ClusterBackupFacts
  <2>3. Control'
    BY <2>2 DEF Control, Working, InArchive, InTables
  <2> QED BY <2>1, <2>3
<1>3. ASSUME NEW h \in Hosts,
             \/ ExecuteSnapshot(h) \/ MakeArchive(h) \/ DeleteSnapshot(h)
             \/ CopyToVault(h) \/ HostFails(h)
      PROVE  TypeInv'
  <2>1. HostStep(h)
    BY <1>3, HostFacts
  <2>2. TypeOK'
    BY <2>1 DEF HostStep, TypeOK
  <2>3. rs' = rs /\ rs.pc = "idle"
    BY <2>1 DEF HostStep
  <2>4. Control'
    BY <2>3 DEF Control, Working, InArchive, InTables
  <2> QED BY <2>2, <2>4
<1>4. ASSUME NEW clone \in BOOLEAN, NEW roles \in BOOLEAN, StartRestore(clone, roles)
      PROVE  TypeInv'
  <2>1. /\ rs' \in Restore /\ rs'.pc = "keyspace" /\ rs'.pos = 1
        /\ BackupSucceeded /\ before' = live /\ since' = Nothing /\ live' = live
        /\ restores' \in 0..MaxRestores
        /\ UNCHANGED <<backupVars, faults, writes>>
    BY <1>4, StartRestoreFacts
  <2>2. TypeOK'
    BY <1>1, <2>1, NothingFacts DEF TypeOK, backupVars
  <2>3. Control'
    BY <2>1 DEF Control, Working, InArchive, InTables, BackupSucceeded, backupVars
  <2> QED BY <2>2, <2>3
<1>5. CASE OpenKeyspace
  <2>1. TypeOK'
    BY <1>1, <1>5, OpenKeyspaceFacts, TypeOfRestore DEF SameKeyspace
  <2>2. Control'
    BY <1>1, <1>5, OpenKeyspaceFacts, ConstantFacts
      DEF Control, Working, InArchive, InTables, BackupSucceeded, backupVars,
          SameKeyspace, SameRequest
  <2> QED BY <2>1, <2>2
<1>6. CASE OpenArchive
  <2>1. TypeOK'
    BY <1>1, <1>6, OpenArchiveFacts, TypeOfRestore DEF SameKeyspace
  <2>2. rs'.from \in Hosts /\ rs'.from \notin rs'.todo
    BY <1>1, <1>6, OpenArchiveFacts DEF Restore
  <2>3. Control'
    BY <1>1, <1>6, <2>2, OpenArchiveFacts
      DEF Control, Working, InArchive, InTables, BackupSucceeded, backupVars,
          SameKeyspace, SameRequest
  <2> QED BY <2>1, <2>3
<1>7. CASE KeyspaceDone
  <2>1. TypeOK'
    BY <1>1, <1>7, KeyspaceDoneFacts, TypeOfRestore
  <2>2. Control'
    BY <1>1, <1>7, KeyspaceDoneFacts
      DEF Control, Working, InArchive, InTables, BackupSucceeded, backupVars, SameRequest
  <2> QED BY <2>1, <2>2
<1> DEFINE Stays == /\ SameArchive /\ rs.pc \in InArchive /\ vault' = vault
                    /\ Source' = Source
                    /\ BackupSucceeded' /\ rs.pos <= Len(Dbs) /\ rs'.pos = rs.pos
                    /\ rs'.from \in Hosts /\ rs'.from \notin rs'.todo
<1>8. ASSUME SameArchive, rs.pc \in InArchive
      PROVE  Stays
  <2>1. BackupSucceeded /\ rs.pos <= Len(Dbs) /\ rs.from \in Hosts /\ rs.from \notin rs.todo
    BY <1>8 DEF Control, Working, InArchive, InTables
  <2> QED BY <1>8, <2>1
       DEF SameArchive, SameKeyspace, SameRequest, backupVars, BackupSucceeded, Source
<1>9. CASE DropKeyspace
  <2>1. TypeOK'
    BY <1>1, <1>9, DropKeyspaceFacts, TypeOfRestore DEF SameArchive, SameKeyspace
  <2>2. Stays /\ rs'.pc = "createKeyspace"
    BY <1>8, <1>9, DropKeyspaceFacts DEF InArchive
  <2>3. Control'
    BY <2>2 DEF Control, Working, InArchive, InTables
  <2> QED BY <2>1, <2>3
<1>10. CASE CreateKeyspace
  <2>1. TypeOK'
    BY <1>1, <1>10, CreateKeyspaceFacts, TypeOfRestore DEF SameArchive, SameKeyspace
  <2>2. Stays /\ rs'.pc \in {"dropAll", "roles"}
    BY <1>8, <1>10, CreateKeyspaceFacts DEF InArchive
  <2>3. Control'
    BY <2>2 DEF Control, Working, InArchive, InTables
  <2> QED BY <2>1, <2>3
<1>11. CASE DropAllTables
  <2>1. TypeOK'
    BY <1>1, <1>11, DropAllTablesFacts, TypeOfRestore DEF SameArchive, SameKeyspace
  <2>2. Stays /\ rs'.pc \in {"dropAll", "roles"}
    BY <1>8, <1>11, DropAllTablesFacts DEF InArchive
  <2>3. Control'
    BY <2>2 DEF Control, Working, InArchive, InTables
  <2> QED BY <2>1, <2>3
<1>12. CASE RestoreRoles
  <2>1. TypeOK'
    BY <1>1, <1>12, RestoreRolesFacts, TypeOfRestore DEF SameArchive, SameKeyspace
  <2>2. Stays /\ rs'.pc = "table" /\ rs'.tables = TablesIn(vault[rs.from], Source)
    BY <1>8, <1>12, RestoreRolesFacts DEF InArchive
  <2>3. rs'.tables = TablesIn(vault'[rs'.from], Source')
    BY <2>2 DEF SameArchive
  <2>4. Control'
    BY <2>2, <2>3 DEF Control, Working, InArchive, InTables, TablesIn
  <2> QED BY <2>1, <2>4
<1>13. CASE RestoreKeyspace
  <2>1. TypeOK'
    BY <1>1, <1>13, RestoreKeyspaceFacts, TypeOfRestore DEF SameArchive, SameKeyspace
  <2>2. /\ Stays /\ rs'.pc \in {"createTable", "dropTable", "archive"}
        /\ rs'.pc # "archive" => rs'.table \in rs.tables /\ rs'.tables = rs.tables \ {rs'.table}
    BY <1>8, <1>13, RestoreKeyspaceFacts DEF InArchive, InTables
  <2>3. rs.tables \subseteq TablesIn(vault'[rs'.from], Source')
    BY <1>13, <2>2, RestoreKeyspaceFacts DEF Control, InTables, SameArchive
  <2>4. Control'
    BY <2>2, <2>3 DEF Control, Working, InArchive, InTables, TablesIn
  <2> QED BY <2>1, <2>4
<1>14. CASE DropTable \/ CreateTable \/ SstableLoader
  <2>1. TypeOK'
    BY <1>1, <1>14, TableFacts, TypeOfRestore DEF SameArchive, SameKeyspace
  <2>2. /\ Stays /\ rs'.pc \in {"createTable", "load", "table"}
        /\ rs'.tables = rs.tables /\ rs'.table = rs.table
        /\ rs.pc \in InTables \ {"table"}
    BY <1>8, <1>14, TableFacts DEF InArchive, InTables
  <2>3. rs.tables \subseteq TablesIn(vault'[rs'.from], Source')
        /\ rs.table \in TablesIn(vault'[rs'.from], Source') /\ rs.table \notin rs.tables
    BY <2>2 DEF Control, InTables, SameArchive
  <2>4. Control'
    BY <2>2, <2>3 DEF Control, Working, InArchive, InTables, TablesIn
  <2> QED BY <2>1, <2>4
<1>15. CASE RestoreFails
  <2>1. TypeOK'
    BY <1>1, <1>15, RestoreFailsFacts, TypeOfRestore DEF SameArchive, SameKeyspace
  <2>2. rs'.pc = "failed" /\ rs.pc # "idle" /\ hpc' = hpc
    BY <1>15, RestoreFailsFacts DEF Ended, SameArchive, SameKeyspace, SameRequest, backupVars
  <2>3. Control'
    BY <2>2 DEF Control, Working, InArchive, InTables, BackupSucceeded
  <2> QED BY <2>1, <2>3
<1>16. ASSUME NEW k \in Keyspaces, NEW t \in Tables,
              \/ ClientCreatesTable(k, t)
              \/ \E x \in Rows : ClientWrites(k, t, x)
       PROVE  TypeInv'
  <2>1. /\ live' \in Cluster /\ since' \in Cluster /\ writes' \in 0..MaxWrites
        /\ UNCHANGED <<backupVars, rs, faults, restores, before>>
    BY <1>16, ClientFacts
  <2>2. TypeOK'
    BY <2>1 DEF TypeOK, backupVars
  <2>3. Control'
    BY <2>1 DEF Control, BackupSucceeded, backupVars, Source, TablesIn
  <2> QED BY <2>2, <2>3
<1> QED BY <1>2, <1>3, <1>4, <1>5, <1>6, <1>7, <1>9, <1>10, <1>11, <1>12, <1>13, <1>14,
           <1>15, <1>16 DEF Next

\* Steps that change nothing.
LEMMA TypeStutter ==
  ASSUME TypeInv, UNCHANGED vars
  PROVE  TypeInv'
BY DEF TypeInv, TypeOK, Control, vars, backupVars, BackupSucceeded, Source, TablesIn

\* The types and the control conditions are invariant.
LEMMA TypeInvariant == Spec => []TypeInv
BY TypeInit, TypeNext, TypeStutter, PTL DEF Spec

(***************************************************************************)
(* The cluster, the archives and the restore are always of the declared    *)
(* kind: the loops of backup_remote.py never leave the list of keyspaces,  *)
(* and those of backup_and_restore.py only by the one step that ends them. *)
(***************************************************************************)
THEOREM TypeCorrect == Spec => []TypeOK
BY TypeInvariant, PTL DEF TypeInv
-----------------------------------------------------------------------------
(* What a backup holds.                                                    *)

\* All other actions leave the backup alone; before the first restore, they only add.
LEMMA OtherActions ==
  ASSUME TypeInv, Next
  PROVE  \/ \E T \in SUBSET Tables : ClusterBackup(T)
         \/ \E h \in Hosts : HostStep(h)
         \/ UNCHANGED backupVars /\ rs'.pc # "idle"
         \/ /\ UNCHANGED <<backupVars, rs>>
            /\ live.rows \subseteq live'.rows /\ live'.grants = live.grants
<1>1. ASSUME NEW h \in Hosts,
             \/ ExecuteSnapshot(h) \/ MakeArchive(h) \/ DeleteSnapshot(h)
             \/ CopyToVault(h) \/ HostFails(h)
      PROVE  HostStep(h)
  BY <1>1, HostFacts
<1>2. ASSUME NEW clone \in BOOLEAN, NEW roles \in BOOLEAN, StartRestore(clone, roles)
      PROVE  UNCHANGED backupVars /\ rs'.pc # "idle"
  BY <1>2, StartRestoreFacts
<1> USE DEF SameArchive, SameKeyspace, SameRequest
<1>3. CASE OpenKeyspace
  BY <1>3, OpenKeyspaceFacts
<1>4. CASE OpenArchive
  BY <1>4, OpenArchiveFacts
<1>5. CASE KeyspaceDone
  BY <1>5, KeyspaceDoneFacts
<1>6. CASE DropKeyspace
  BY <1>6, DropKeyspaceFacts
<1>7. CASE CreateKeyspace
  BY <1>7, CreateKeyspaceFacts
<1>8. CASE DropAllTables
  BY <1>8, DropAllTablesFacts
<1>9. CASE RestoreRoles
  BY <1>9, RestoreRolesFacts
<1>10. CASE RestoreKeyspace
  BY <1>10, RestoreKeyspaceFacts
<1>11. CASE DropTable \/ CreateTable \/ SstableLoader
  BY <1>11, TableFacts
<1>12. CASE RestoreFails
  BY <1>12, RestoreFailsFacts
<1>13. ASSUME NEW k \in Keyspaces, NEW t \in Tables,
              \/ ClientCreatesTable(k, t)
              \/ \E x \in Rows : ClientWrites(k, t, x)
       PROVE  /\ UNCHANGED <<backupVars, rs>>
              /\ live.rows \subseteq live'.rows /\ live'.grants = live.grants
  BY <1>13, ClientFacts DEF AddsRows, AddsTables
<1> QED BY <1>1, <1>2, <1>3, <1>4, <1>5, <1>6, <1>7, <1>8, <1>9, <1>10, <1>11, <1>12, <1>13
       DEF Next

\* A host that takes a step has, after it, saved what it has come to.
LEMMA HostProgresses ==
  ASSUME BackupInv, NEW h \in Hosts, HostStep(h)
  PROVE  HostProgress(h)'
<1>1. /\ hpos[h] \in 1..Len(Dbs) /\ hpos'[h] \in 1..Len(Dbs) /\ Len(Dbs) \in Nat
      /\ start' = start /\ live' = live /\ sel' = sel /\ Requested' = Requested
      /\ local'[h] \in Cluster /\ local[h] \in Cluster
  BY ConstantFacts DEF HostStep, BackupInv, TypeInv, TypeOK, Requested, AllTables
<1>2. hpc[h] \notin {"idle", "done", "failed"} /\ start.rows \subseteq live.rows
      /\ start.grants = live.grants
  BY DEF HostStep, Snapshots, Archives, Clears, Delivers, Fails, BackupInv, NothingGone
<1>3. HostProgress(h)
  BY DEF BackupInv
<1> DEFINE K == Dbs[hpos[h]]
<1>4. ASSUME NEW i \in 1..Len(Dbs), local[h].rows \subseteq local'[h].rows,
             RowsSaved(local[h], h, Dbs[i])
      PROVE  RowsSaved(local[h], h, Dbs[i])'
  BY <1>1, <1>4 DEF RowsSaved
<1>5. ASSUME NEW i \in 1..Len(Dbs), local[h].keyspaces \subseteq local'[h].keyspaces,
             local[h].grants \subseteq local'[h].grants, MetaSaved(local[h], Dbs[i])
      PROVE  MetaSaved(local[h], Dbs[i])'
  BY <1>1, <1>5 DEF MetaSaved, Grantees
<1>6. CASE Snapshots(h)
  <2>1. RowsSaved(local[h], h, K)'
    BY <1>1, <1>2, <1>6 DEF RowsSaved, Snapshots
  <2>2. local[h].rows \subseteq local'[h].rows
        /\ local[h].keyspaces \subseteq local'[h].keyspaces
        /\ local[h].grants \subseteq local'[h].grants
        /\ hpc[h] = "snapshot" /\ hpc'[h] = "archive" /\ hpos'[h] = hpos[h]
    BY <1>6 DEF Snapshots
  <2>3. ASSUME NEW i \in 1..Len(Dbs)
        PROVE  /\ i < hpos'[h] \/ i = hpos'[h] => RowsSaved(local[h], h, Dbs[i])'
               /\ i < hpos'[h] => MetaSaved(local[h], Dbs[i])'
    BY <1>3, <1>4, <1>5, <2>1, <2>2 DEF HostProgress
  <2> QED BY <2>2, <2>3 DEF HostProgress
<1>7. CASE Archives(h)
  <2>1. MetaSaved(local[h], K)'
    <3>1. K \in local'[h].keyspaces
          /\ \A u : u \in SavedRoles(K) => <<K, u>> \in local'[h].grants
      BY <1>7 DEF Archives
    <3>2. /\ K' = K /\ Grantees(K)' = Grantees(K)
          /\ {u \in Users : <<K, u>> \in live.grants} = Grantees(K)
      BY <1>1, <1>2, <1>7 DEF Grantees, Archives
    <3>3. ASSUME Grantees(K) \cap Unhashed \subseteq Skipped,
                 NEW u \in Grantees(K) \ Skipped, Grantees(K) # {u}
          PROVE  u \in SavedRoles(K)
      BY <3>2, <3>3 DEF SavedRoles
    <3>4. \A u \in Grantees(K) \ Skipped :
            Grantees(K) \cap Unhashed \subseteq Skipped /\ Grantees(K) # {u} =>
              <<K, u>> \in local'[h].grants
      BY <3>1, <3>3
    <3> HIDE DEF K
    <3> QED BY <3>1, <3>2, <3>4 DEF MetaSaved
  <2>2. local[h].rows \subseteq local'[h].rows
        /\ local[h].keyspaces \subseteq local'[h].keyspaces
        /\ local[h].grants \subseteq local'[h].grants
        /\ hpc[h] = "archive" /\ hpc'[h] = "clear" /\ hpos'[h] = hpos[h]
    BY <1>7 DEF Archives
  <2>3. ASSUME NEW i \in 1..Len(Dbs)
        PROVE  /\ i < hpos'[h] \/ i = hpos'[h] => RowsSaved(local[h], h, Dbs[i])'
               /\ i < hpos'[h] \/ i = hpos'[h] => MetaSaved(local[h], Dbs[i])'
    BY <1>3, <1>4, <1>5, <2>1, <2>2 DEF HostProgress
  <2> QED BY <2>2, <2>3 DEF HostProgress
<1>8. CASE Clears(h)
  <2>1. local'[h] = local[h] /\ hpc[h] = "clear" /\ hpc'[h] \in {"snapshot", "copy"}
    BY <1>8 DEF Clears
  <2>2. ASSUME NEW i \in 1..Len(Dbs), i <= hpos[h]
        PROVE  RowsSaved(local[h], h, Dbs[i])' /\ MetaSaved(local[h], Dbs[i])'
    BY <1>1, <1>3, <1>4, <1>5, <2>1, <2>2 DEF HostProgress
  <2>3. \/ hpc'[h] = "snapshot" /\ hpos'[h] = hpos[h] + 1
        \/ hpc'[h] = "copy" /\ hpos'[h] = hpos[h] /\ hpos[h] = Len(Dbs)
    BY <1>8 DEF Clears
  <2> QED BY <1>1, <2>1, <2>2, <2>3 DEF HostProgress
<1>9. CASE Delivers(h)
  <2>1. vault'[h] = local[h] /\ hpc[h] = "copy" /\ hpc'[h] = "done" /\ hpos[h] = Len(Dbs)
    BY <1>3, <1>9 DEF Delivers, HostProgress
  <2>2. ASSUME NEW k \in Sources
        PROVE  RowsSaved(local[h], h, k) /\ MetaSaved(local[h], k)
    BY <1>1, <1>3, <2>1, ConstantFacts DEF HostProgress
  <2>3. ASSUME NEW k \in Sources
        PROVE  RowsSaved(vault[h], h, k)' /\ MetaSaved(vault[h], k)'
    BY <1>1, <2>1, <2>2 DEF RowsSaved, MetaSaved, Grantees
  <2> QED BY <2>1, <2>3 DEF HostProgress
<1>10. CASE Fails(h)
  BY <1>10 DEF Fails, HostProgress
<1> QED BY <1>6, <1>7, <1>8, <1>9, <1>10 DEF HostStep

\* Why a host that takes no step loses nothing.
LEMMA HostKept ==
  ASSUME NEW h \in Hosts, HostProgress(h), start' = start, sel' = sel,
         hpc'[h] = hpc[h], hpos'[h] = hpos[h], local'[h] = local[h], vault'[h] = vault[h]
  PROVE  HostProgress(h)'
BY DEF HostProgress, RowsSaved, MetaSaved, Grantees, Requested, AllTables

\* The invariant of the backup.
LEMMA BackupInvariant == Spec => []BackupInv
<1>1. Init => BackupInv
  <2> SUFFICES ASSUME Init PROVE BackupInv
    OBVIOUS
  <2>1. \A h \in Hosts : hpc[h] = "idle" /\ hpos[h] = 1
    BY DEF Init
  <2> QED BY <2>1, TypeInit DEF BackupInv, NothingGone, HostProgress
<1>2. BackupInv /\ [Next]_vars => BackupInv'
  <2> SUFFICES ASSUME BackupInv, [Next]_vars PROVE BackupInv'
    OBVIOUS
  <2>1. TypeInv /\ TypeInv'
    BY TypeNext, TypeStutter DEF BackupInv
  <2>2. ASSUME NEW T \in SUBSET Tables, ClusterBackup(T) PROVE BackupInv'
    <3>1. /\ start' = live /\ live' = live /\ hpos' = hpos
          /\ \A h \in Hosts : hpc[h] = "idle" /\ hpc'[h] = "snapshot"
      BY <2>1, <2>2, ClusterBackupFacts
    <3>2. \A h \in Hosts : hpos'[h] = 1
      BY <3>1 DEF BackupInv, HostProgress
    <3>3. \A h \in Hosts : HostProgress(h)'
      BY <3>1, <3>2, ConstantFacts DEF HostProgress
    <3> QED BY <2>1, <3>1, <3>3 DEF BackupInv, NothingGone
  <2>3. ASSUME NEW h \in Hosts, HostStep(h) PROVE BackupInv'
    <3>1. \A g \in Hosts \ {h} : HostProgress(g)'
      BY <2>3, HostKept DEF HostStep, BackupInv
    <3>2. HostProgress(h)'
      BY <2>3, HostProgresses
    <3>3. hpc[h] # "idle"
      BY <2>3 DEF HostStep, Snapshots, Archives, Clears, Delivers, Fails
    <3>4. NothingGone'
      BY <2>3, <3>3 DEF HostStep, NothingGone, BackupInv
    <3> QED BY <2>1, <3>1, <3>2, <3>4 DEF BackupInv
  <2>4. CASE UNCHANGED backupVars /\ rs'.pc # "idle"
    <3>1. \A h \in Hosts : HostProgress(h)'
      BY <2>4, HostKept DEF BackupInv, backupVars
    <3> QED BY <2>1, <2>4, <3>1 DEF BackupInv, NothingGone
  <2>5. CASE /\ UNCHANGED <<backupVars, rs>>
             /\ live.rows \subseteq live'.rows /\ live'.grants = live.grants
    <3>1. \A h \in Hosts : HostProgress(h)'
      BY <2>5, HostKept DEF BackupInv, backupVars
    <3>2. NothingGone'
      BY <2>5 DEF BackupInv, NothingGone, backupVars
    <3> QED BY <2>1, <3>1, <3>2 DEF BackupInv
  <2>6. CASE UNCHANGED vars
    <3>1. UNCHANGED <<backupVars, rs>> /\ live' = live
      BY <2>6 DEF vars
    <3> QED BY <2>5, <3>1
  <2> QED BY <2>1, <2>2, <2>3, <2>4, <2>5, <2>6, OtherActions
<1> QED BY <1>1, <1>2, PTL DEF Spec

(***************************************************************************)
(* BackupHoldsCluster: a backup that is reported as successful holds every *)
(* requested row that was there when it was requested and, of a keyspace   *)
(* with two roles or more, each with a password hash, every role, on any   *)
(* number of hosts, for any list of keyspaces and any placement of the     *)
(* rows, whatever clients write while backup_remote.py runs.               *)
(***************************************************************************)
THEOREM BackupComplete == Spec => []BackupHoldsCluster
<1>1. BackupInv => BackupHoldsCluster
  <2> SUFFICES ASSUME BackupInv, BackupSucceeded, NEW k \in Sources
               PROVE  /\ \A h \in Hosts : k \in vault[h].keyspaces
                      /\ \A t \in Requested : RowsIn(start, k, t) \subseteq Archived(k, t)
                      /\ Grantees(k) \cap Unhashed \subseteq Skipped =>
                           \A u \in Grantees(k) \ Skipped, h \in Hosts :
                             Grantees(k) # {u} => <<k, u>> \in vault[h].grants
    BY DEF BackupHoldsCluster, Requested, Grantees
  <2>1. \A h \in Hosts : RowsSaved(vault[h], h, k) /\ MetaSaved(vault[h], k)
    BY DEF BackupInv, HostProgress, BackupSucceeded
  <2>2. ASSUME NEW t \in Requested, NEW x \in RowsIn(start, k, t)
        PROVE  x \in Archived(k, t)
    <3>1. x \in Rows /\ <<k, t, x>> \in start.rows
      BY <2>2 DEF RowsIn
    <3>2. PICK h \in Hosts : h \in Place[x]
      BY <3>1, ConstantFacts
    <3> QED BY <2>1, <3>1, <3>2 DEF RowsSaved, Archived
  <2> QED BY <2>1, <2>2 DEF MetaSaved
<1> QED BY <1>1, BackupInvariant, PTL
-----------------------------------------------------------------------------
(* The first archive of a keyspace.                                        *)

\* A restore finds the archives of all hosts.
LEMMA AllOpened ==
  ASSUME BackupInv, OpenKeyspace, rs.pos \in 1..Len(Dbs)
  PROVE  rs'.pc = "archive" /\ rs'.todo = Hosts
<1>1. rs.pc = "keyspace" /\ BackupSucceeded /\ Source \in Sources
  BY ConstantFacts DEF OpenKeyspace, Restores, BackupInv, TypeInv, Control, Source
<1>2. \A h \in Hosts : Source \in vault[h].keyspaces
  BY <1>1 DEF BackupInv, HostProgress, MetaSaved, BackupSucceeded
<1>3. {h \in Hosts : Source \in vault[h].keyspaces} = Hosts
  BY <1>2
<1>4. ~(rs.pos > Len(Dbs)) /\ rs \in Restore
  BY ConstantFacts DEF BackupInv, TypeInv, TypeOK
<1>5. rs' = [rs EXCEPT !.pc = "archive", !.todo = Hosts, !.dropped = FALSE]
  BY <1>3, <1>4, ConstantFacts DEF OpenKeyspace, Restores
<1> QED BY <1>4, <1>5 DEF Restore

\* A keyspace is marked as dropped, and a clone emptied, at the first archive only.
LEMMA FirstNext ==
  ASSUME BackupInv, FirstOnly, Next
  PROVE  FirstOnly'
<1> USE DEF SameArchive, SameKeyspace, SameRequest
<1>1. TypeInv /\ rs \in Restore
  BY DEF BackupInv, TypeInv, TypeOK
<1>2. ASSUME SameRequest
      PROVE  (DropsAtFirst' <=> DropsAtFirst) /\ (AllTables' <=> AllTables)
  BY <1>2 DEF DropsAtFirst, AllTables, backupVars
<1> USE DEF InArchive, InTables
<1>3. ASSUME rs'.pc \in {"idle", "keyspace", "finished", "failed"} PROVE FirstOnly'
  BY <1>3 DEF FirstOnly
<1>4. ASSUME NEW T \in SUBSET Tables, ClusterBackup(T) PROVE FirstOnly'
  BY <1>1, <1>3, <1>4, ClusterBackupFacts
<1>5. ASSUME NEW h \in Hosts,
             \/ ExecuteSnapshot(h) \/ MakeArchive(h) \/ DeleteSnapshot(h)
             \/ CopyToVault(h) \/ HostFails(h)
      PROVE  FirstOnly'
  BY <1>1, <1>3, <1>5, HostFacts DEF HostStep
<1>6. ASSUME NEW clone \in BOOLEAN, NEW roles \in BOOLEAN, StartRestore(clone, roles)
      PROVE  FirstOnly'
  BY <1>1, <1>3, <1>6, StartRestoreFacts
<1>7. CASE OpenKeyspace
  BY <1>1, <1>2, <1>3, <1>7, OpenKeyspaceFacts, AllOpened DEF FirstOnly
<1>8. CASE OpenArchive
  BY <1>1, <1>2, <1>8, OpenArchiveFacts DEF FirstOnly, DropsAtFirst
<1>9. CASE KeyspaceDone
  BY <1>1, <1>3, <1>9, KeyspaceDoneFacts
<1>10. CASE DropKeyspace
  BY <1>1, <1>2, <1>10, DropKeyspaceFacts DEF FirstOnly
<1>11. CASE CreateKeyspace
  BY <1>1, <1>2, <1>11, CreateKeyspaceFacts DEF FirstOnly, DropsAtFirst
<1>12. CASE DropAllTables
  BY <1>1, <1>2, <1>12, DropAllTablesFacts DEF FirstOnly, DropsAtFirst
<1>13. CASE RestoreRoles
  BY <1>1, <1>2, <1>13, RestoreRolesFacts DEF FirstOnly
<1>14. CASE RestoreKeyspace
  BY <1>1, <1>2, <1>14, RestoreKeyspaceFacts DEF FirstOnly
<1>15. CASE DropTable \/ CreateTable \/ SstableLoader
  BY <1>1, <1>2, <1>15, TableFacts DEF FirstOnly
<1>16. CASE RestoreFails
  BY <1>1, <1>3, <1>16, RestoreFailsFacts
<1>17. ASSUME NEW k \in Keyspaces, NEW t \in Tables,
              \/ ClientCreatesTable(k, t)
              \/ \E x \in Rows : ClientWrites(k, t, x)
       PROVE  FirstOnly'
  BY <1>1, <1>17, ClientFacts DEF FirstOnly, DropsAtFirst, AllTables, backupVars
<1> QED BY <1>4, <1>5, <1>6, <1>7, <1>8, <1>9, <1>10, <1>11, <1>12, <1>13, <1>14, <1>15,
           <1>16, <1>17 DEF Next

\* That is invariant.
LEMMA FirstInvariant == Spec => []FirstOnly
<1>1. Init => FirstOnly
  BY DEF Init, FirstOnly, InArchive, InTables
<1>2. BackupInv /\ FirstOnly /\ [Next]_vars => FirstOnly'
  <2>1. FirstOnly /\ UNCHANGED vars => FirstOnly'
    BY DEF FirstOnly, DropsAtFirst, AllTables, vars, backupVars
  <2> QED BY <2>1, FirstNext
<1> QED BY <1>1, <1>2, BackupInvariant, PTL DEF Spec
-----------------------------------------------------------------------------
(* Grants.                                                                 *)

\* The keyspaces a restore is through with stay the same within an archive.
LEMMA PassedKept ==
  ASSUME TypeInv, rs.pc \in Working, SameKeyspace, rs'.pc \in Working
  PROVE  Source' = Source /\ \A k : (Passed(k)' <=> Passed(k)) /\ TargetOf(k)' = TargetOf(k)
BY DEF Passed, Source, SameKeyspace, SameRequest, TargetOf

\* Different keyspaces have different targets.
LEMMA TargetsDiffer ==
  ASSUME NEW k \in Sources, NEW l \in Sources, TargetOf(k) = TargetOf(l)
  PROVE  k = l
BY ConstantFacts DEF TargetOf

\* What was granted stays granted while grants are only added.
LEMMA GrantedKept ==
  ASSUME NEW h, NEW k, Granted(h, k), SameRequest, live.grants \subseteq live'.grants
  PROVE  Granted(h, k)'
BY DEF Granted, RoleOf, TargetOf, SameRequest, backupVars

\* The archive of a host has been granted: it is through, or its tables are restored.
GrantsDone(h) == HostDone(h) \/ (h = rs.from /\ rs.pc \in InTables)

(***************************************************************************)
(* Permissions that are not revoked: what is dropped does not change while *)
(* a restore runs, so it is enough that none goes away with anything else. *)
(***************************************************************************)
Keeps ==
  /\ \A k \in Keyspaces, u \in Users :
       <<k, u>> \in live.grants /\ ~KeyspaceDropped(k) => <<k, u>> \in live'.grants
  /\ \A k \in Keyspaces, t \in Tables, u \in Users :
       <<k, t, u>> \in live.tableGrants /\ ~TableDropped(k, t) =>
         <<k, t, u>> \in live'.tableGrants

\* Such a step keeps what GrantInv says of them.
LEMMA RemainKept ==
  ASSUME GrantsRemain, Keeps, before' = before, UNCHANGED backupVars,
         rs'.clone = rs.clone, rs'.roles = rs.roles
  PROVE  GrantsRemain'
<1>1. \A k : KeyspaceDropped(k)' <=> KeyspaceDropped(k)
  BY DEF KeyspaceDropped, AllTables, backupVars
<1>2. \A k, t : TableDropped(k, t)' <=> TableDropped(k, t)
  BY <1>1 DEF TableDropped, ArchivedTables, TablesIn, backupVars
<1> QED BY <1>1, <1>2 DEF GrantsRemain, Keeps

\* A step that only adds grants takes none away.
LEMMA AddsKeeps ==
  ASSUME live.grants \subseteq live'.grants, live'.tableGrants = live.tableGrants
  PROVE  Keeps
BY DEF Keeps

(***************************************************************************)
(* Within a keyspace, GrantInv is kept if grants are only added and those  *)
(* of the hosts that are through now are on the target.                    *)
(***************************************************************************)
LEMMA GrantStep ==
  ASSUME TypeInv, GrantInv, SameKeyspace, rs.pc \in Working, rs'.pc \in Working,
         live.grants \subseteq live'.grants, Keeps,
         rs.roles => \A h \in Hosts : GrantsDone(h)' =>
           GrantsDone(h) \/ Granted(h, Source)'
  PROVE  GrantInv'
<1>1. Active /\ rs'.roles = rs.roles /\ before' = before /\ SameRequest
  BY DEF Active, Working, InArchive, InTables, SameKeyspace, SameRequest
<1>2. Source \in Sources /\ Source' = Source /\ \A k : Passed(k)' <=> Passed(k)
  BY PassedKept, SourceFacts
<1>3. ASSUME rs.roles, NEW k \in Sources, NEW h \in Hosts, Passed(k)
      PROVE  Granted(h, k)'
  BY <1>1, <1>3, GrantedKept DEF GrantInv
<1>4. ASSUME rs.roles, NEW h \in Hosts, GrantsDone(h)'
      PROVE  Granted(h, Source)'
  BY <1>1, <1>2, <1>4, GrantedKept DEF GrantInv, GrantsDone
<1>5. GrantsRemain'
  BY <1>1, RemainKept DEF GrantInv, SameRequest
<1> QED BY <1>1, <1>2, <1>3, <1>4, <1>5 DEF GrantInv, GrantsDone

\* Every action keeps GrantInv.
LEMMA GrantNext ==
  ASSUME BackupInv, FirstOnly, GrantInv, Next
  PROVE  GrantInv'
<1> USE DEF SameArchive, SameKeyspace, InArchive, InTables
<1>1. TypeInv /\ rs \in Restore /\ live \in Cluster
  BY DEF BackupInv, TypeInv, TypeOK
<1>2. ASSUME rs'.pc \in {"idle", "failed"} PROVE GrantInv'
  BY <1>2 DEF GrantInv, Active
<1>3. ASSUME NEW T \in SUBSET Tables, ClusterBackup(T) PROVE GrantInv'
  BY <1>1, <1>2, <1>3, ClusterBackupFacts
<1>4. ASSUME NEW h \in Hosts,
             \/ ExecuteSnapshot(h) \/ MakeArchive(h) \/ DeleteSnapshot(h)
             \/ CopyToVault(h) \/ HostFails(h)
      PROVE  GrantInv'
  BY <1>1, <1>2, <1>4, HostFacts DEF HostStep
<1>5. ASSUME NEW clone \in BOOLEAN, NEW roles \in BOOLEAN, StartRestore(clone, roles)
      PROVE  GrantInv'
  <2>1. rs'.pc = "keyspace" /\ rs'.pos = 1 /\ before' = live /\ live' = live
    BY <1>1, <1>5, StartRestoreFacts
  <2>2. \A k : ~Passed(k)'
    BY <2>1, ConstantFacts DEF Passed
  <2>3. GrantsRemain'
    BY <2>1 DEF GrantsRemain
  <2> QED BY <2>1, <2>2, <2>3 DEF GrantInv, Working
<1>6. CASE OpenKeyspace
  <2>1. /\ SameKeyspace /\ rs.pc = "keyspace" /\ live' = live /\ Active
        /\ rs'.pc \in {"finished", "failed", "archive"}
        /\ rs'.pc = "archive" => rs'.todo = Hosts
        /\ rs'.roles = rs.roles /\ before' = before
    BY <1>1, <1>6, OpenKeyspaceFacts, AllOpened DEF Active, SameRequest
  <2>2. \A k : Passed(k)' => Passed(k)
    BY <2>1 DEF Passed, Working
  <2>3. \A h \in Hosts, k \in Sources : rs.roles /\ Passed(k)' => Granted(h, k)'
    BY <2>1, <2>2, GrantedKept DEF GrantInv
  <2>4. \A h \in Hosts : rs'.pc \in Working => ~GrantsDone(h)'
    BY <2>1 DEF Working, GrantsDone, HostDone
  <2>5. GrantsRemain'
    BY <2>1, RemainKept, AddsKeeps DEF GrantInv, SameRequest
  <2> QED BY <2>1, <2>3, <2>4, <2>5 DEF GrantInv, GrantsDone
<1>7. CASE OpenArchive
  <2>1. \A h \in Hosts : GrantsDone(h)' => GrantsDone(h)
    BY <1>1, <1>7, OpenArchiveFacts DEF GrantsDone, HostDone
  <2> QED BY <1>1, <1>7, <2>1, GrantStep, AddsKeeps, OpenArchiveFacts DEF Working
<1>8. CASE KeyspaceDone
  <2>1. /\ SameRequest /\ rs.pc = "archive" /\ rs'.pc = "keyspace" /\ live' = live
        /\ rs.todo = {} /\ rs'.pos = rs.pos + 1 /\ Active /\ rs.pos \in 1..Len(Dbs)
        /\ rs'.roles = rs.roles /\ before' = before
    BY <1>1, <1>8, KeyspaceDoneFacts, SourceFacts DEF Active, Working, SameRequest
  <2>2. \A h \in Hosts : HostDone(h)
    BY <2>1 DEF HostDone
  <2>3. \A k : Passed(k)' => Passed(k) \/ k = Source
    BY <2>1, ConstantFacts DEF Passed, Source, Working
  <2>4. \A h \in Hosts, k \in Sources : rs.roles /\ Passed(k)' => Granted(h, k)
    BY <2>1, <2>2, <2>3 DEF GrantInv, Working
  <2>5. \A h \in Hosts, k \in Sources : rs.roles /\ Passed(k)' => Granted(h, k)'
    BY <2>1, <2>4, GrantedKept
  <2>6. GrantsRemain'
    BY <2>1, RemainKept, AddsKeeps DEF GrantInv, SameRequest
  <2> QED BY <2>1, <2>5, <2>6 DEF GrantInv, Working
<1>9. CASE DropKeyspace
  <2>1. /\ SameArchive /\ rs.pc = "dropKeyspace" /\ rs'.pc = "createKeyspace"
        /\ rs.todo = Hosts \ {rs.from} /\ ~rs.clone /\ rs.roles /\ Active
        /\ live'.grants = live.grants \ ({Source} \X Users)
        /\ rs'.roles = rs.roles /\ Source \in Sources /\ SameRequest
        /\ AllTables /\ Drops(Source, Tables)
    BY <1>1, <1>9, DropKeyspaceFacts, SourceFacts DEF FirstOnly, Active, Working, SameRequest
  <2>2. \A h \in Hosts : ~GrantsDone(h)'
    BY <2>1 DEF GrantsDone, HostDone
  <2>3. Source' = Source /\ \A k : (Passed(k)' <=> Passed(k)) /\ TargetOf(k)' = TargetOf(k)
    BY <1>1, <2>1, PassedKept DEF Working
  <2>4. \A k \in Sources : TargetOf(k) = k
    BY <2>1 DEF TargetOf
  <2>5. \A h \in Hosts, k \in Sources : Passed(k)' => Granted(h, k) /\ k # Source
    BY <2>1, <2>3 DEF GrantInv, Passed, Working
  <2>6. \A h \in Hosts, k \in Sources : Passed(k)' => Granted(h, k)'
    <3> SUFFICES ASSUME NEW h \in Hosts, NEW k \in Sources, Passed(k)', NEW u \in Users,
                        <<k, u>> \in vault[h].grants
                 PROVE  <<k, u>> \in live'.grants
      BY <2>1, <2>3, <2>4 DEF Granted, RoleOf, SameRequest, backupVars
    <3>1. <<k, u>> \in live.grants /\ k # Source
      BY <2>1, <2>4, <2>5 DEF Granted, RoleOf
    <3> QED BY <2>1, <3>1
  <2>7. GrantsRemain'
    <3>1. \A k, t : ~TableDropped(k, t) => ~KeyspaceDropped(k)
      BY DEF TableDropped
    <3>2. KeyspaceDropped(Source)
      BY <2>1 DEF KeyspaceDropped
    <3>3. Keeps
      BY <2>1, <3>1, <3>2 DEF Keeps, Drops, Revokes
    <3> QED BY <2>1, <3>3, RemainKept DEF GrantInv, SameRequest
  <2> QED BY <2>1, <2>2, <2>6, <2>7 DEF GrantInv, GrantsDone
<1>10. CASE CreateKeyspace
  <2>1. \A h \in Hosts : GrantsDone(h)' => GrantsDone(h)
    BY <1>1, <1>10, CreateKeyspaceFacts DEF GrantsDone, HostDone
  <2>2. live.grants \subseteq live'.grants /\ Keeps
    BY <1>1, <1>10, AddsKeeps, CreateKeyspaceFacts DEF AddsGrants
  <2> QED BY <1>1, <1>10, <2>1, <2>2, GrantStep, CreateKeyspaceFacts DEF Working
<1>11. CASE DropAllTables
  <2>1. \A h \in Hosts : GrantsDone(h)' => GrantsDone(h)
    BY <1>1, <1>11, DropAllTablesFacts DEF GrantsDone, HostDone
  <2>2. Keeps
    <3>1. /\ rs.clone /\ ~rs.roles /\ Target \notin Sources /\ live'.grants = live.grants
          /\ live' = live \/ \E t : Drops(Target, {t})
      BY <1>1, <1>11, DropAllTablesFacts, SourceFacts, ConstantFacts
        DEF FirstOnly, Working, Target
    <3>2. \A t : TableDropped(Target, t)
      BY <3>1 DEF TableDropped
    <3> QED BY <3>1, <3>2 DEF Keeps, Drops, Revokes
  <2> QED BY <1>1, <1>11, <2>1, <2>2, GrantStep, DropAllTablesFacts DEF Working
<1>12. CASE RestoreRoles
  <2>1. SameArchive /\ rs.pc = "roles" /\ rs'.pc = "table"
        /\ (rs.roles => live'.grants = live.grants \cup SavedGrants)
        /\ live.grants \subseteq live'.grants /\ live'.tableGrants = live.tableGrants
    BY <1>1, <1>12, RestoreRolesFacts DEF AddsGrants
  <2>2. \A h \in Hosts : GrantsDone(h)' => GrantsDone(h) \/ h = rs.from
    BY <2>1 DEF GrantsDone, HostDone
  <2>3. \A u : <<Source, u>> \in vault[rs.from].grants =>
          <<Target, RoleOf(Source, u)>> \in SavedGrants
    BY <1>1, <2>1, SavedFacts
  <2>4. Source' = Source /\ Target = TargetOf(Source)' /\ vault' = vault /\ rs'.from = rs.from
        /\ \A u : RoleOf(Source, u)' = RoleOf(Source, u)
    BY <1>1, <2>1, SourceFacts, PassedKept DEF Working, SameRequest, backupVars, RoleOf
  <2>5. rs.roles => Granted(rs.from, Source)'
    BY <2>1, <2>3, <2>4 DEF Granted
  <2>6. rs.roles => \A h \in Hosts : GrantsDone(h)' =>
          GrantsDone(h) \/ Granted(h, Source)'
    BY <2>2, <2>4, <2>5
  <2> QED BY <1>1, <2>1, <2>6, GrantStep, AddsKeeps DEF Working
<1>13. CASE RestoreKeyspace
  <2>1. \A h \in Hosts : GrantsDone(h)' => GrantsDone(h)
    BY <1>1, <1>13, RestoreKeyspaceFacts DEF GrantsDone, HostDone
  <2> QED BY <1>1, <1>13, <2>1, GrantStep, AddsKeeps, RestoreKeyspaceFacts DEF Working
<1>14. CASE DropTable \/ CreateTable \/ SstableLoader
  <2>1. \A h \in Hosts : GrantsDone(h)' => GrantsDone(h)
    BY <1>1, <1>14, TableFacts DEF GrantsDone, HostDone
  <2>2. Keeps
    <3>1. CASE ~(rs.pc = "dropTable")
      <4>1. live'.grants = live.grants /\ live'.tableGrants = live.tableGrants
        BY <1>1, <1>14, <3>1, TableFacts DEF AddsTables, AddsRows
      <4> QED BY <4>1, AddsKeeps
    <3>2. CASE rs.pc = "dropTable"
      <4>1. Drops(Target, {rs.table}) /\ live'.grants = live.grants
        BY <1>1, <1>14, <3>2, TableFacts
      <4>2. ~rs.clone /\ Target = Source /\ Source \in Sources
            /\ rs.from \in Hosts /\ rs.table \in TablesIn(vault[rs.from], Source)
        BY <1>1, <3>2, SourceFacts DEF FirstOnly, TypeInv, Control, Working, Target
      <4>3. TableDropped(Target, rs.table)
        BY <4>2 DEF TableDropped, ArchivedTables
      <4> QED BY <4>1, <4>3 DEF Keeps, Drops, Revokes
    <3> QED BY <3>1, <3>2
  <2> QED BY <1>1, <1>14, <2>1, <2>2, GrantStep, TableFacts DEF Working
<1>15. CASE RestoreFails
  BY <1>1, <1>2, <1>15, RestoreFailsFacts
<1>16. ASSUME NEW k \in Keyspaces, NEW t \in Tables,
              \/ ClientCreatesTable(k, t)
              \/ \E x \in Rows : ClientWrites(k, t, x)
       PROVE  GrantInv'
  <2>1. /\ live'.grants = live.grants /\ live'.tableGrants = live.tableGrants
        /\ UNCHANGED <<rs, before, vault, backupVars>>
    BY <1>1, <1>16, ClientFacts DEF backupVars, AddsTables, AddsRows
  <2>2. GrantsRemain => GrantsRemain'
    BY <2>1, RemainKept, AddsKeeps
  <2> QED BY <2>1, <2>2 DEF GrantInv, Active, Passed, Source, Granted, RoleOf, TargetOf, HostDone
<1> QED BY <1>3, <1>4, <1>5, <1>6, <1>7, <1>8, <1>9, <1>10, <1>11, <1>12, <1>13, <1>14, <1>15,
           <1>16 DEF Next

\* GrantInv is invariant.
LEMMA GrantInvariant == Spec => []GrantInv
<1>1. Init => GrantInv
  BY DEF Init, GrantInv, Active
<1>2. BackupInv /\ FirstOnly /\ GrantInv /\ [Next]_vars => GrantInv'
  <2>1. GrantInv /\ UNCHANGED vars => GrantInv'
    <3> SUFFICES ASSUME GrantInv, UNCHANGED vars PROVE GrantInv'
      OBVIOUS
    <3>1. UNCHANGED <<live, rs, before, vault, backupVars>>
      BY DEF vars, backupVars
    <3>2. GrantsRemain => GrantsRemain'
      BY <3>1, RemainKept, AddsKeeps
    <3> QED BY <3>1, <3>2 DEF GrantInv, Active, Passed, Source, Granted, RoleOf, TargetOf, HostDone
  <2> QED BY <2>1, GrantNext
<1> QED BY <1>1, <1>2, BackupInvariant, FirstInvariant, PTL DEF Spec

\* A finished restore is through with all keyspaces.
LEMMA FinishedFacts ==
  ASSUME TypeInv, rs.pc = "finished"
  PROVE  Active /\ \A k \in Sources : Passed(k)
<1>1. rs.pos = Len(Dbs) + 1 /\ Len(Dbs) \in Nat
  BY ConstantFacts DEF TypeInv, Control
<1> QED BY <1>1, ConstantFacts DEF Active, Passed, Working, InArchive, InTables

(***************************************************************************)
(* GrantsKept: after a restore that finishes, with roles, everybody in an  *)
(* archive has his permissions, on a clone under the name the substitution *)
(* leaves him, although restore_roles follows the DROP KEYSPACE that       *)
(* revoked them, archive by archive, and earlier restores may have failed  *)
(* half way; and no permission on a keyspace or a table is lost but with a *)
(* keyspace or table the restore drops.                                    *)
(***************************************************************************)
THEOREM NoPermissionLost == Spec => []GrantsKept
<1>1. TypeInv /\ GrantInv => GrantsKept
  <2> SUFFICES ASSUME TypeInv, GrantInv, rs.pc = "finished"
               PROVE  /\ rs.roles => \A k \in Sources, u \in Users :
                           (\E h \in Hosts : <<k, u>> \in vault[h].grants) =>
                             <<TargetOf(k), RoleOf(k, u)>> \in live.grants
                      /\ GrantsRemain
    BY DEF GrantsKept, GrantsRemain, TargetOf, RoleOf
  <2> QED BY FinishedFacts DEF GrantInv, Granted
<1>2. BackupInv => TypeInv
  BY DEF BackupInv
<1> QED BY <1>1, <1>2, BackupInvariant, GrantInvariant, PTL
-----------------------------------------------------------------------------
(* Rows are rows of a table.                                               *)

\* The same, said of the parts of a row.
LEMMA ConsistentRows ==
  ASSUME NEW c \in Cluster
  PROVE  Consistent(c) <=>
           \A l, t : \A x \in Rows : <<l, t, x>> \in c.rows => <<l, t>> \in c.tables
<1>1. \A r \in c.rows : /\ r[1] \in Keyspaces /\ r[2] \in Tables /\ r[3] \in Rows
                        /\ r = <<r[1], r[2], r[3]>>
  BY ClusterParts
<1>2. ASSUME Consistent(c), NEW l, NEW t, NEW x \in Rows, <<l, t, x>> \in c.rows
      PROVE  <<l, t>> \in c.tables
  BY <1>2 DEF Consistent
<1>3. ASSUME \A l, t : \A x \in Rows : <<l, t, x>> \in c.rows => <<l, t>> \in c.tables,
             NEW r \in c.rows
      PROVE  <<r[1], r[2]>> \in c.tables
  BY <1>1, <1>3
<1> QED BY <1>2, <1>3 DEF Consistent

\* A host that takes a step leaves consistent archives.
LEMMA ConsistentHost ==
  ASSUME BackupInv, ConsistentInv, NEW h \in Hosts, HostStep(h)
  PROVE  Consistent(local'[h]) /\ Consistent(vault'[h])
<1>1. /\ Consistent(live) /\ Consistent(local[h]) /\ Consistent(vault[h])
      /\ live \in Cluster
  BY DEF ConsistentInv, BackupInv, TypeInv, TypeOK
<1>2. CASE Snapshots(h)
  <2>1. vault'[h] = vault[h]
        /\ local'[h].tables = local[h].tables
             \cup {x \in live.tables : x[1] = Dbs[hpos[h]] /\ x[2] \in Requested}
        /\ local'[h].rows = local[h].rows
             \cup {x \in live.rows : /\ x[1] = Dbs[hpos[h]] /\ x[2] \in Requested
                                     /\ h \in Place[x[3]]}
    BY <1>2 DEF Snapshots
  <2>2. ASSUME NEW x \in local'[h].rows PROVE <<x[1], x[2]>> \in local'[h].tables
    <3>1. CASE x \in local[h].rows
      BY <1>1, <2>1, <3>1 DEF Consistent
    <3>2. CASE x \notin local[h].rows
      <4>1. x \in live.rows /\ x[1] = Dbs[hpos[h]] /\ x[2] \in Requested
        BY <2>1, <2>2, <3>2
      <4>2. <<x[1], x[2]>> \in live.tables
        BY <1>1, <4>1 DEF Consistent
      <4> QED BY <2>1, <4>1, <4>2
    <3> QED BY <3>1, <3>2
  <2> QED BY <1>1, <2>1, <2>2 DEF Consistent
<1>3. CASE Archives(h)
  BY <1>1, <1>3 DEF Archives, Consistent
<1>4. CASE Clears(h)
  BY <1>1, <1>4 DEF Clears
<1>5. CASE Delivers(h)
  BY <1>1, <1>5, NothingFacts DEF Delivers
<1>6. CASE Fails(h)
  BY <1>1, <1>6, NothingFacts DEF Fails
<1> QED BY <1>2, <1>3, <1>4, <1>5, <1>6 DEF HostStep

\* Dropping tables leaves a consistent cluster.
LEMMA ConsistentDrops ==
  ASSUME live \in Cluster, live' \in Cluster, Consistent(live), NEW k, NEW T, Drops(k, T)
  PROVE  Consistent(live')
<1>1. \A l, t : \A x \in Rows : <<l, t, x>> \in live.rows => <<l, t>> \in live.tables
  BY ConsistentRows
<1>2. \A l, t : \A x \in Rows : <<l, t, x>> \in live'.rows => <<l, t>> \in live'.tables
  BY <1>1 DEF Drops
<1> QED BY <1>2, ConsistentRows

\* Every action keeps the cluster and the archives consistent.
LEMMA ConsistentNext ==
  ASSUME BackupInv, FirstOnly, ConsistentInv, Next
  PROVE  ConsistentInv'
<1> USE DEF SameArchive, SameKeyspace, InArchive, InTables
<1>1. TypeInv /\ live \in Cluster /\ Consistent(live)
  BY DEF BackupInv, TypeInv, TypeOK, ConsistentInv
<1>2. ASSUME UNCHANGED <<local, vault>>, Consistent(live'), rs'.pc # "load"
      PROVE  ConsistentInv'
  BY <1>2 DEF ConsistentInv
<1>3. ASSUME SameRequest PROVE UNCHANGED <<local, vault>>
  BY <1>3 DEF SameRequest, backupVars
<1>4. ASSUME NEW T \in SUBSET Tables, ClusterBackup(T) PROVE ConsistentInv'
  BY <1>1, <1>2, <1>4, ClusterBackupFacts
<1>5. ASSUME NEW h \in Hosts,
             \/ ExecuteSnapshot(h) \/ MakeArchive(h) \/ DeleteSnapshot(h)
             \/ CopyToVault(h) \/ HostFails(h)
      PROVE  ConsistentInv'
  <2>1. HostStep(h)
    BY <1>1, <1>5, HostFacts
  <2>2. rs'.pc = "idle" /\ live' = live
        /\ \A g \in Hosts \ {h} : local'[g] = local[g] /\ vault'[g] = vault[g]
    BY <2>1 DEF HostStep
  <2>3. Consistent(local'[h]) /\ Consistent(vault'[h])
    BY <2>1, ConsistentHost
  <2> QED BY <1>1, <2>2, <2>3 DEF ConsistentInv
<1>6. ASSUME NEW clone \in BOOLEAN, NEW roles \in BOOLEAN, StartRestore(clone, roles)
      PROVE  ConsistentInv'
  BY <1>1, <1>2, <1>6, StartRestoreFacts DEF backupVars
<1>7. CASE OpenKeyspace
  BY <1>1, <1>2, <1>3, <1>7, OpenKeyspaceFacts
<1>8. CASE OpenArchive
  BY <1>1, <1>2, <1>3, <1>8, OpenArchiveFacts
<1>9. CASE KeyspaceDone
  BY <1>1, <1>2, <1>3, <1>9, KeyspaceDoneFacts
<1>10. CASE DropKeyspace
  BY <1>1, <1>2, <1>3, <1>10, DropKeyspaceFacts, ConsistentDrops
<1>11. CASE CreateKeyspace
  <2>1. live'.rows = live.rows /\ live.tables \subseteq live'.tables
    BY <1>1, <1>11, CreateKeyspaceFacts DEF AddsGrants
  <2> QED BY <1>1, <1>2, <1>3, <1>11, <2>1, CreateKeyspaceFacts DEF Consistent
<1>12. CASE DropAllTables
  BY <1>1, <1>2, <1>3, <1>12, DropAllTablesFacts, ConsistentDrops
<1>13. CASE RestoreRoles
  <2>1. live'.rows = live.rows /\ live'.tables = live.tables
    BY <1>1, <1>13, RestoreRolesFacts DEF AddsGrants
  <2> QED BY <1>1, <1>2, <1>3, <1>13, <2>1, RestoreRolesFacts DEF Consistent
<1>14. CASE RestoreKeyspace
  BY <1>1, <1>2, <1>3, <1>14, RestoreKeyspaceFacts
<1>15. CASE DropTable
  BY <1>1, <1>2, <1>3, <1>15, TableFacts, ConsistentDrops DEF DropTable, Restores
<1>16. CASE CreateTable
  <2>1. /\ rs'.pc = "load" /\ SameArchive /\ rs'.table = rs.table
        /\ live'.tables = live.tables \cup {<<Target, rs.table>>} /\ live'.rows = live.rows
    BY <1>1, <1>16, TableFacts DEF CreateTable, Restores, AddsTables
  <2>2. Target' = Target
    BY <2>1 DEF Target, Source, SameRequest
  <2>3. Consistent(live') /\ UNCHANGED <<local, vault>>
    BY <1>1, <1>3, <2>1 DEF Consistent
  <2> QED BY <2>1, <2>2, <2>3 DEF ConsistentInv
<1>17. ASSUME rs.pc = "load", live' \in Cluster, live'.tables = live.tables,
              live'.rows \subseteq live.rows \cup SavedRows
       PROVE  Consistent(live')
  <2>1. \A l, t, x : <<l, t, x>> \in SavedRows => l = Target /\ t = rs.table
    BY <1>1, <1>17, SavedFacts
  <2>2. <<Target, rs.table>> \in live.tables
    BY <1>17 DEF ConsistentInv
  <2>3. \A l, t : \A x \in Rows : <<l, t, x>> \in live.rows => <<l, t>> \in live.tables
    BY <1>1, ConsistentRows
  <2>4. \A l, t : \A x \in Rows : <<l, t, x>> \in live'.rows => <<l, t>> \in live'.tables
    BY <1>17, <2>1, <2>2, <2>3
  <2> QED BY <1>17, <2>4, ConsistentRows
<1>18. CASE SstableLoader
  <2>1. /\ rs.pc = "load" /\ rs'.pc = "table" /\ SameRequest /\ live' \in Cluster
        /\ live'.tables = live.tables /\ live'.rows = live.rows \cup SavedRows
    BY <1>1, <1>18, TableFacts DEF SstableLoader, Restores, AddsRows
  <2> QED BY <1>2, <1>3, <1>17, <2>1
<1>19. CASE RestoreFails
  <2>1. Consistent(live')
    BY <1>1, <1>17, <1>19, RestoreFailsFacts DEF Consistent
  <2> QED BY <1>1, <1>2, <1>3, <1>19, <2>1, RestoreFailsFacts
<1>20. ASSUME NEW k \in Keyspaces, NEW t \in Tables,
              \/ ClientCreatesTable(k, t)
              \/ \E x \in Rows : ClientWrites(k, t, x)
       PROVE  ConsistentInv'
  <2>1. /\ live' \in Cluster /\ UNCHANGED <<rs, local, vault>>
        /\ \/ AddsTables({<<k, t>>})
           \/ \E x \in Rows : AddsRows({<<k, t, x>>}) /\ <<k, t>> \in live.tables
    BY <1>1, <1>20, ClientFacts DEF backupVars
  <2>2. Consistent(live') /\ live.tables \subseteq live'.tables
    BY <1>1, <2>1 DEF AddsTables, AddsRows, Consistent
  <2> QED BY <2>1, <2>2 DEF ConsistentInv, Target, Source
<1> QED BY <1>4, <1>5, <1>6, <1>7, <1>8, <1>9, <1>10, <1>11, <1>12, <1>13, <1>14, <1>15,
           <1>16, <1>18, <1>19, <1>20 DEF Next

\* That is invariant.
LEMMA ConsistentInvariant == Spec => []ConsistentInv
<1>1. Init => ConsistentInv
  BY NothingFacts, BackupAssumption DEF Init, ConsistentInv
<1>2. BackupInv /\ FirstOnly /\ ConsistentInv /\ [Next]_vars => ConsistentInv'
  <2>1. ConsistentInv /\ UNCHANGED vars => ConsistentInv'
    BY DEF ConsistentInv, Target, Source, vars, backupVars
  <2> QED BY <2>1, ConsistentNext
<1> QED BY <1>1, <1>2, BackupInvariant, FirstInvariant, PTL DEF Spec
-----------------------------------------------------------------------------
(* What a restore leaves of the rows.                                      *)

\* A step of the restore changes nothing but one keyspace.
TouchesOnly(k) ==
  \A l, t : l # k =>
    /\ <<l, t>> \in live'.tables <=> <<l, t>> \in live.tables
    /\ \A x \in Rows : <<l, t, x>> \in live'.rows <=> <<l, t, x>> \in live.rows

\* Steps that touch at most the keyspace a restore is at.
LEMMA TouchesFacts ==
  ASSUME NEW k
  PROVE  /\ live' = live => TouchesOnly(k)
         /\ \A T : Drops(k, T) => TouchesOnly(k)
         /\ \A t : AddsTables({<<k, t>>}) => TouchesOnly(k)
         /\ \A G : AddsGrants(G) => TouchesOnly(k)
BY DEF TouchesOnly, Drops, AddsTables, AddsGrants

\* What was loaded stays, while no row of that table goes away.
LEMMA LowerKept ==
  ASSUME NEW h, NEW k, NEW t, Lower(h, k, t), vault' = vault, rs'.clone = rs.clone,
         \A x \in Rows : <<TargetOf(k), t, x>> \in live.rows =>
                           <<TargetOf(k), t, x>> \in live'.rows
  PROVE  Lower(h, k, t)'
BY DEF Lower, RowsIn, TargetOf

\* Nothing else comes in, while nothing is added but archived and new rows.
LEMMA UpperKept ==
  ASSUME NEW k, NEW t, Upper(k, t), vault' = vault, rs'.clone = rs.clone,
         since.rows \subseteq since'.rows,
         \A x \in Rows : <<TargetOf(k), t, x>> \in live'.rows =>
           \/ <<TargetOf(k), t, x>> \in live.rows
           \/ x \in Archived(k, t)
           \/ <<TargetOf(k), t, x>> \in since'.rows
  PROVE  Upper(k, t)'
<1>1. Archived(k, t)' = Archived(k, t) /\ TargetOf(k)' = TargetOf(k)
  BY DEF Archived, TargetOf
<1> QED BY <1>1 DEF Upper, RowsIn

\* Rows that are not in a table of the archive are not in the archive.
LEMMA NoTableNoRows ==
  ASSUME BackupInv, ConsistentInv, NEW h \in Hosts, NEW k, NEW t \in Tables,
         t \notin TablesIn(vault[h], k)
  PROVE  Lower(h, k, t)
<1>1. vault[h] \in Cluster /\ Consistent(vault[h])
  BY DEF BackupInv, TypeInv, TypeOK, ConsistentInv
<1>2. \A x \in Rows : <<k, t, x>> \notin vault[h].rows
  BY <1>1, ConsistentRows DEF TablesIn
<1> QED BY <1>2 DEF Lower, RowsIn

\* What clients do: everything that is new is theirs.
ClientsAdd ==
  /\ UNCHANGED <<rs, vault, sel, before>>
  /\ live.rows \subseteq live'.rows /\ live.tables \subseteq live'.tables
  /\ since.rows \subseteq since'.rows /\ since.tables \subseteq since'.tables
  /\ \A l, t : /\ <<l, t>> \in live'.tables =>
                    <<l, t>> \in live.tables \/ <<l, t>> \in since'.tables
               /\ \A x \in Rows : <<l, t, x>> \in live'.rows =>
                    <<l, t, x>> \in live.rows \/ <<l, t, x>> \in since'.rows

\* Clients only add, and what they add is known to be newer than the backup.
LEMMA ClientsAddOnly ==
  ASSUME TypeInv, NEW k \in Keyspaces, NEW t \in Tables,
         \/ ClientCreatesTable(k, t)
         \/ \E x \in Rows : ClientWrites(k, t, x)
  PROVE  ClientsAdd
<1>1. /\ UNCHANGED <<rs, vault, sel, before>>
      /\ since.tables \subseteq since'.tables /\ since.rows \subseteq since'.rows
      /\ \/ AddsTables({<<k, t>>}) /\ <<k, t>> \in since'.tables
         \/ \E x \in Rows : AddsRows({<<k, t, x>>}) /\ <<k, t, x>> \in since'.rows
  BY ClientFacts DEF backupVars
<1>2. CASE AddsTables({<<k, t>>}) /\ <<k, t>> \in since'.tables
  BY <1>1, <1>2 DEF AddsTables, ClientsAdd
<1>3. ASSUME NEW x \in Rows, AddsRows({<<k, t, x>>}), <<k, t, x>> \in since'.rows
      PROVE  ClientsAdd
  BY <1>1, <1>3 DEF AddsRows, ClientsAdd
<1> QED BY <1>1, <1>2, <1>3

(***************************************************************************)
(* Within a keyspace, CloneInv is kept by what touches nothing but the     *)
(* clone and leaves there what CloneInv says.                              *)
(***************************************************************************)
LEMMA CloneStep ==
  ASSUME TypeInv, CloneInv, SameKeyspace, rs.clone, rs.pc \in Working, rs'.pc \in Working,
         TouchesOnly(Target),
         \A h \in Hosts, t \in Tables :
           Loaded(h, t)' /\ t \in TablesIn(vault[h], Source) => Lower(h, Source, t)',
         ~rs.roles /\ rs'.dropped => \A t \in Tables : Upper(Source, t)',
         rs'.pc = "dropAll" => \A t \in Tables \ rs'.tables :
           RowsIn(live', Target, t) \subseteq RowsIn(since, Target, t)
  PROVE  CloneInv'
<1>1. /\ Active /\ vault' = vault /\ rs'.clone = rs.clone /\ rs'.roles = rs.roles
      /\ before' = before /\ since' = since
  BY DEF Active, Working, InArchive, InTables, SameKeyspace, SameRequest, backupVars
<1>2. /\ Source \in Sources /\ Source' = Source /\ Target = TargetOf(Source)
      /\ Target' = Target /\ \A k : Passed(k)' <=> Passed(k)
  BY PassedKept, SourceFacts DEF Target, TargetOf
<1>3. ASSUME NEW k \in Sources, k # Source
      PROVE  TargetOf(k) # Target
  BY <1>2, <1>3, TargetsDiffer
<1>4. ASSUME NEW k \in Sources, NEW t \in Tables, Passed(k)
      PROVE  (\A h \in Hosts : Lower(h, k, t)') /\ (~rs.roles => Upper(k, t)')
  <2>1. k # Source
    BY <1>4 DEF Passed
  <2>2. \A x \in Rows : <<TargetOf(k), t, x>> \in live'.rows
                          <=> <<TargetOf(k), t, x>> \in live.rows
    BY <1>3, <2>1 DEF TouchesOnly
  <2>3. (\A h \in Hosts : Lower(h, k, t)) /\ (~rs.roles => Upper(k, t))
    BY <1>1, <1>4 DEF CloneInv
  <2> QED BY <1>1, <2>2, <2>3, LowerKept, UpperKept
<1>5. ASSUME NEW k \in Sources, NEW t \in Tables
      PROVE  /\ RowsIn(before, k, t) \subseteq RowsIn(live', k, t)
             /\ <<k, t>> \in before.tables => <<k, t>> \in live'.tables
  <2>1. k # Target
    BY <1>2, ConstantFacts DEF TargetOf
  <2>2. /\ RowsIn(before, k, t) \subseteq RowsIn(live, k, t)
        /\ <<k, t>> \in before.tables => <<k, t>> \in live.tables
    BY <1>1 DEF CloneInv
  <2> QED BY <2>1, <2>2 DEF TouchesOnly, RowsIn
<1>6. rs'.pc = "dropAll" => \A t \in Tables \ rs'.tables :
           RowsIn(live', Target', t) \subseteq RowsIn(since', Target', t)
  BY <1>1, <1>2
<1> QED BY <1>1, <1>2, <1>4, <1>5, <1>6 DEF CloneInv

(***************************************************************************)
(* A step within a clone that keeps its rows, and the mark that it was     *)
(* emptied, and is through with nothing that it was not through with.      *)
(***************************************************************************)
LEMMA CloneQuiet ==
  ASSUME TypeInv, CloneInv, SameKeyspace, rs.clone, rs.pc \in Working, rs'.pc \in Working,
         TouchesOnly(Target), live'.rows = live.rows, rs'.dropped <=> rs.dropped,
         rs'.pc = "dropAll" => \A t \in Tables \ rs'.tables :
           RowsIn(live, Target, t) \subseteq RowsIn(since, Target, t),
         \A h \in Hosts, t \in Tables :
           Loaded(h, t)' /\ t \in TablesIn(vault[h], Source) => Loaded(h, t)
  PROVE  CloneInv'
<1>1. Active /\ vault' = vault /\ rs'.clone = rs.clone /\ since' = since
  BY DEF Active, Working, InArchive, InTables, SameKeyspace, SameRequest, backupVars
<1>2. Source \in Sources
  BY SourceFacts
<1>3. \A h \in Hosts, t \in Tables :
        Loaded(h, t)' /\ t \in TablesIn(vault[h], Source) => Lower(h, Source, t)
  BY <1>1 DEF CloneInv
<1>4. \A h \in Hosts, t \in Tables :
        Loaded(h, t)' /\ t \in TablesIn(vault[h], Source) => Lower(h, Source, t)'
  <2> SUFFICES ASSUME NEW h \in Hosts, NEW t \in Tables, Lower(h, Source, t)
               PROVE  Lower(h, Source, t)'
    BY <1>3
  <2> QED BY <1>1, PassedKept, LowerKept DEF Lower, RowsIn
<1>5. ASSUME ~rs.roles, rs'.dropped, NEW t \in Tables
      PROVE  Upper(Source, t)'
  <2>1. Upper(Source, t)
    BY <1>1, <1>5 DEF CloneInv
  <2> QED BY <1>1, <2>1, PassedKept, UpperKept DEF Upper, RowsIn, Archived
<1>6. rs'.pc = "dropAll" => \A t \in Tables \ rs'.tables :
        RowsIn(live', Target, t) \subseteq RowsIn(since, Target, t)
  BY DEF RowsIn
<1> QED BY <1>4, <1>5, <1>6, CloneStep

\* The hosts and tables a restore is through with, step by step.
LEMMA LoadedFacts ==
  ASSUME BackupInv, NEW h \in Hosts, NEW t \in Tables, Loaded(h, t)',
         t \in TablesIn(vault[h], Source),
         \/ OpenArchive \/ CreateKeyspace \/ DropAllTables \/ DropKeyspace
         \/ RestoreRoles \/ RestoreKeyspace \/ DropTable \/ CreateTable \/ SstableLoader
  PROVE  Loaded(h, t) \/ (SstableLoader /\ h = rs.from /\ t = rs.table)
<1> USE DEF SameArchive, SameKeyspace, InArchive, InTables, Loaded, HostDone
<1>1. TypeInv
  BY DEF BackupInv
<1>2. CASE OpenArchive
  BY <1>1, <1>2, OpenArchiveFacts
<1>3. CASE CreateKeyspace
  BY <1>1, <1>3, CreateKeyspaceFacts
<1>4. CASE DropAllTables
  BY <1>1, <1>4, DropAllTablesFacts
<1>5. CASE DropKeyspace
  BY <1>1, <1>5, DropKeyspaceFacts
<1>6. CASE RestoreRoles
  BY <1>1, <1>6, RestoreRolesFacts
<1>7. CASE RestoreKeyspace
  BY <1>1, <1>7, RestoreKeyspaceFacts
<1>8. CASE DropTable \/ CreateTable \/ SstableLoader
  BY <1>1, <1>8, TableFacts DEF DropTable, CreateTable, SstableLoader, Restores
<1> QED BY <1>2, <1>3, <1>4, <1>5, <1>6, <1>7, <1>8

\* Every action keeps CloneInv.
LEMMA CloneNext ==
  ASSUME BackupInv, FirstOnly, ConsistentInv, CloneInv, Next
  PROVE  CloneInv'
<1> USE DEF SameArchive, SameKeyspace, InArchive, InTables
<1>1. TypeInv /\ rs \in Restore /\ live \in Cluster
  BY DEF BackupInv, TypeInv, TypeOK
<1>2. ASSUME rs'.pc \in {"idle", "failed"} \/ ~rs'.clone PROVE CloneInv'
  BY <1>2 DEF CloneInv, Active
<1>3. ASSUME NEW T \in SUBSET Tables, ClusterBackup(T) PROVE CloneInv'
  BY <1>1, <1>2, <1>3, ClusterBackupFacts
<1>4. ASSUME NEW h \in Hosts,
             \/ ExecuteSnapshot(h) \/ MakeArchive(h) \/ DeleteSnapshot(h)
             \/ CopyToVault(h) \/ HostFails(h)
      PROVE  CloneInv'
  BY <1>1, <1>2, <1>4, HostFacts DEF HostStep
<1>5. ASSUME NEW clone \in BOOLEAN, NEW roles \in BOOLEAN, StartRestore(clone, roles)
      PROVE  CloneInv'
  <2>1. rs'.pc = "keyspace" /\ rs'.pos = 1 /\ before' = live /\ live' = live
    BY <1>1, <1>5, StartRestoreFacts
  <2>2. \A k : ~Passed(k)'
    BY <2>1, ConstantFacts DEF Passed
  <2> QED BY <2>1, <2>2 DEF CloneInv, Working
<1>6. CASE OpenKeyspace
  <2>1. /\ SameKeyspace /\ rs.pc = "keyspace" /\ live' = live /\ Active
        /\ rs'.pc \in {"finished", "failed", "archive"}
        /\ rs'.pc = "archive" => rs'.todo = Hosts /\ ~rs'.dropped
        /\ rs'.roles = rs.roles /\ rs'.clone = rs.clone /\ vault' = vault
        /\ before' = before /\ since' = since
    BY <1>1, <1>6, OpenKeyspaceFacts, AllOpened DEF Active, SameRequest, backupVars
  <2>2. \A k : Passed(k)' => Passed(k)
    BY <2>1 DEF Passed, Working
  <2>3. ASSUME rs.clone, NEW k \in Sources, NEW t \in Tables, Passed(k)'
        PROVE  (\A h \in Hosts : Lower(h, k, t)') /\ (~rs.roles => Upper(k, t)')
    <3>1. (\A h \in Hosts : Lower(h, k, t)) /\ (~rs.roles => Upper(k, t))
      BY <2>1, <2>2, <2>3 DEF CloneInv
    <3> QED BY <2>1, <3>1, LowerKept, UpperKept
  <2>4. \A h \in Hosts, t \in Tables : rs'.pc \in Working => ~Loaded(h, t)'
    BY <2>1 DEF Working, Loaded, HostDone
  <2> QED BY <1>2, <2>1, <2>3, <2>4 DEF CloneInv, Working
<1>7. ASSUME rs.clone, OpenArchive PROVE CloneInv'
  <2>1. /\ SameKeyspace /\ rs.pc = "archive" /\ rs'.pc = "createKeyspace" /\ live' = live
        /\ rs'.dropped <=> rs.dropped
    BY <1>1, <1>7, OpenArchiveFacts
  <2>2. \A h \in Hosts, t \in Tables :
          Loaded(h, t)' /\ t \in TablesIn(vault[h], Source) => Loaded(h, t)
    BY <1>7, <2>1, LoadedFacts DEF SstableLoader, Restores
  <2> QED BY <1>1, <1>7, <2>1, <2>2, CloneQuiet, TouchesFacts DEF Working
<1>8. ASSUME rs.clone, KeyspaceDone PROVE CloneInv'
  <2>1. /\ SameRequest /\ rs.pc = "archive" /\ rs'.pc = "keyspace" /\ live' = live
        /\ rs.todo = {} /\ rs'.pos = rs.pos + 1 /\ Active /\ rs.pos \in 1..Len(Dbs)
        /\ Source \in Sources
        /\ rs'.roles = rs.roles /\ rs'.clone = rs.clone /\ vault' = vault
        /\ before' = before /\ since' = since
    BY <1>1, <1>8, KeyspaceDoneFacts, SourceFacts DEF Active, Working, SameRequest, backupVars
  <2>2. \A k : Passed(k)' => Passed(k) \/ k = Source
    BY <2>1, ConstantFacts DEF Passed, Source, Working
  <2>3. ~rs.roles => rs.dropped
    BY <1>8, <2>1, ConstantFacts DEF FirstOnly, DropsAtFirst
  <2>4. ASSUME NEW k \in Sources, NEW t \in Tables, Passed(k)'
        PROVE  (\A h \in Hosts : Lower(h, k, t)') /\ (~rs.roles => Upper(k, t)')
    <3>1. CASE k = Source
      <4>1. \A h \in Hosts : Lower(h, k, t)
        BY <1>8, <2>1, <3>1, NoTableNoRows DEF CloneInv, Working, Loaded, HostDone
      <4>2. ~rs.roles => Upper(k, t)
        BY <1>8, <2>1, <2>3, <3>1 DEF CloneInv, Working
      <4> QED BY <2>1, <4>1, <4>2, LowerKept, UpperKept
    <3>2. CASE Passed(k)
      <4>1. (\A h \in Hosts : Lower(h, k, t)) /\ (~rs.roles => Upper(k, t))
        BY <1>8, <2>1, <3>2 DEF CloneInv
      <4> QED BY <2>1, <4>1, LowerKept, UpperKept
    <3> QED BY <2>2, <2>4, <3>1, <3>2
  <2> QED BY <1>8, <2>1, <2>4 DEF CloneInv, Working
<1>9. ASSUME rs.clone, DropKeyspace PROVE CloneInv'
  BY <1>1, <1>9, DropKeyspaceFacts DEF FirstOnly
<1>10. ASSUME rs.clone, CreateKeyspace PROVE CloneInv'
  <2>1. /\ SameKeyspace /\ rs.pc = "createKeyspace" /\ rs'.pc \in {"dropAll", "roles"}
        /\ live'.rows = live.rows /\ TouchesOnly(Target) /\ (rs'.dropped <=> rs.dropped)
        /\ rs'.pc = "dropAll" => rs'.tables = TablesIn(live, Target)
    BY <1>1, <1>10, CreateKeyspaceFacts, TouchesFacts DEF AddsGrants
  <2>2. \A t \in Tables \ TablesIn(live, Target) : RowsIn(live, Target, t) = {}
    BY <1>1, ConsistentRows DEF TablesIn, RowsIn, ConsistentInv
  <2>3. \A h \in Hosts, t \in Tables :
          Loaded(h, t)' /\ t \in TablesIn(vault[h], Source) => Loaded(h, t)
    BY <1>10, <2>1, LoadedFacts DEF SstableLoader, Restores
  <2> QED BY <1>1, <1>10, <2>1, <2>2, <2>3, CloneQuiet DEF Working
<1>11. ASSUME rs.clone, DropAllTables PROVE CloneInv'
  <2>1. /\ SameKeyspace /\ rs.pc = "dropAll" /\ rs'.pc \in {"dropAll", "roles"}
        /\ ~rs.roles /\ ~rs.dropped /\ rs.todo = Hosts \ {rs.from} /\ Active
        /\ rs'.todo = rs.todo /\ rs'.from = rs.from
        /\ TouchesOnly(Target) /\ vault' = vault /\ rs'.clone = rs.clone /\ since' = since
    BY <1>1, <1>11, DropAllTablesFacts, TouchesFacts
      DEF FirstOnly, DropsAtFirst, Active, SameRequest, backupVars
  <2>2. \A h \in Hosts, t \in Tables : ~Loaded(h, t)'
    BY <2>1 DEF Loaded, HostDone
  <2>3. \A t \in Tables \ rs.tables : RowsIn(live, Target, t) \subseteq RowsIn(since, Target, t)
    BY <1>11, <2>1 DEF CloneInv
  <2>4. rs'.pc = "dropAll" => \A t \in Tables \ rs'.tables :
          RowsIn(live', Target, t) \subseteq RowsIn(since, Target, t)
    <3> SUFFICES ASSUME rs'.pc = "dropAll", NEW t \in Tables \ rs'.tables,
                        NEW x \in RowsIn(live', Target, t)
                 PROVE  x \in RowsIn(since, Target, t)
      OBVIOUS
    <3>1. PICK s \in rs.tables : rs'.tables = rs.tables \ {s} /\ Drops(Target, {s})
      BY <1>1, <1>11, DropAllTablesFacts
    <3>2. x \in Rows /\ <<Target, t, x>> \in live.rows /\ t # s
      BY <3>1 DEF Drops, RowsIn
    <3> QED BY <2>3, <3>1, <3>2 DEF RowsIn
  <2>5. ASSUME rs'.dropped, NEW t \in Tables
        PROVE  Upper(Source, t)'
    <3>1. rs.tables = {} /\ live' = live
      BY <1>1, <1>11, <2>1, <2>5, DropAllTablesFacts
    <3>2. RowsIn(live, Target, t) \subseteq RowsIn(since, Target, t)
      BY <2>3, <3>1
    <3>3. Source' = Source /\ TargetOf(Source)' = Target
      BY <1>1, <2>1, PassedKept, SourceFacts DEF Working
    <3> QED BY <2>1, <3>1, <3>2, <3>3 DEF Upper
  <2> QED BY <1>1, <1>11, <2>1, <2>2, <2>4, <2>5, CloneStep DEF Working
<1>12. ASSUME rs.clone, RestoreRoles PROVE CloneInv'
  <2>1. /\ SameKeyspace /\ rs.pc = "roles" /\ rs'.pc = "table" /\ (rs'.dropped <=> rs.dropped)
        /\ live'.rows = live.rows /\ TouchesOnly(Target)
    BY <1>1, <1>12, RestoreRolesFacts, TouchesFacts DEF AddsGrants
  <2>2. \A h \in Hosts, t \in Tables :
          Loaded(h, t)' /\ t \in TablesIn(vault[h], Source) => Loaded(h, t)
    BY <1>12, <2>1, LoadedFacts DEF SstableLoader, Restores
  <2> QED BY <1>1, <1>12, <2>1, <2>2, CloneQuiet DEF Working
<1>13. ASSUME rs.clone, RestoreKeyspace PROVE CloneInv'
  <2>1. /\ SameKeyspace /\ rs.pc = "table" /\ rs'.pc \in {"createTable", "archive"}
        /\ (rs'.dropped <=> rs.dropped) /\ live' = live
    BY <1>1, <1>13, RestoreKeyspaceFacts
  <2>2. \A h \in Hosts, t \in Tables :
          Loaded(h, t)' /\ t \in TablesIn(vault[h], Source) => Loaded(h, t)
    BY <1>13, <2>1, LoadedFacts DEF SstableLoader, Restores
  <2> QED BY <1>1, <1>13, <2>1, <2>2, CloneQuiet, TouchesFacts DEF Working
<1>14. ASSUME rs.clone, DropTable PROVE CloneInv'
  BY <1>14 DEF FirstOnly, DropTable, Restores
<1>15. ASSUME rs.clone, CreateTable PROVE CloneInv'
  <2>1. /\ SameKeyspace /\ rs.pc = "createTable" /\ rs'.pc = "load"
        /\ (rs'.dropped <=> rs.dropped) /\ live'.rows = live.rows /\ TouchesOnly(Target)
    BY <1>1, <1>15, TableFacts, TouchesFacts DEF CreateTable, Restores, AddsTables
  <2>2. \A h \in Hosts, t \in Tables :
          Loaded(h, t)' /\ t \in TablesIn(vault[h], Source) => Loaded(h, t)
    BY <1>15, <2>1, LoadedFacts DEF SstableLoader, Restores
  <2> QED BY <1>1, <1>15, <2>1, <2>2, CloneQuiet DEF Working
<1>16. ASSUME rs.clone, SstableLoader PROVE CloneInv'
  <2>1. /\ SameArchive /\ rs.pc = "load" /\ rs'.pc = "table" /\ Active
        /\ (rs'.dropped <=> rs.dropped) /\ AddsRows(SavedRows)
        /\ vault' = vault /\ rs'.clone = rs.clone /\ since' = since
        /\ Source \in Sources /\ Target = TargetOf(Source) /\ TargetOf(Source)' = Target
        /\ Source' = Source /\ rs.from \in Hosts
    BY <1>1, <1>16, TableFacts, SourceFacts, PassedKept
      DEF SstableLoader, Restores, Active, Working, SameRequest, backupVars, TypeInv, Control
  <2>2. /\ \A l, t, x : <<l, t, x>> \in SavedRows =>
             l = Target /\ t = rs.table /\ <<Source, t, x>> \in vault[rs.from].rows
        /\ \A x : <<Source, rs.table, x>> \in vault[rs.from].rows =>
             <<Target, rs.table, x>> \in SavedRows
    BY <1>1, <2>1, SavedFacts
  <2>3. TouchesOnly(Target)
    BY <2>1, <2>2 DEF TouchesOnly, AddsRows
  <2>4. ASSUME NEW h \in Hosts, NEW t \in Tables, Loaded(h, t)',
               t \in TablesIn(vault[h], Source)
        PROVE  Lower(h, Source, t)'
    <3>1. CASE Loaded(h, t)
      <4>1. Lower(h, Source, t)
        BY <1>16, <2>1, <2>4, <3>1 DEF CloneInv, Working
      <4> QED BY <2>1, <4>1, LowerKept DEF AddsRows
    <3>2. CASE h = rs.from /\ t = rs.table
      BY <2>1, <2>2, <3>2 DEF Lower, RowsIn, AddsRows
    <3> QED BY <1>16, <2>4, <3>1, <3>2, LoadedFacts
  <2>5. ASSUME ~rs.roles, rs'.dropped, NEW t \in Tables
        PROVE  Upper(Source, t)'
    <3>1. Upper(Source, t)
      BY <1>16, <2>1, <2>5 DEF CloneInv, Working
    <3>2. \A x \in Rows : <<Target, t, x>> \in live'.rows =>
            <<Target, t, x>> \in live.rows \/ x \in Archived(Source, t)
      BY <2>1, <2>2 DEF AddsRows, Archived
    <3> QED BY <2>1, <3>1, <3>2, UpperKept
  <2> QED BY <1>1, <1>16, <2>1, <2>3, <2>4, <2>5, CloneStep DEF Working
<1>17. CASE RestoreFails
  BY <1>1, <1>2, <1>17, RestoreFailsFacts
<1>18. ASSUME NEW l \in Keyspaces, NEW s \in Tables,
              \/ ClientCreatesTable(l, s)
              \/ \E x \in Rows : ClientWrites(l, s, x)
       PROVE  CloneInv'
  <2>1. ClientsAdd
    BY <1>1, <1>18, ClientsAddOnly
  <2> USE <2>1 DEF ClientsAdd
  <2>2. /\ Active' <=> Active
        /\ Source' = Source /\ Target' = Target
        /\ \A k : (Passed(k)' <=> Passed(k))
        /\ \A h, t : (Loaded(h, t)' <=> Loaded(h, t))
        /\ \A h, k : TablesIn(vault[h], k)' = TablesIn(vault[h], k)
    BY DEF Active, Source, Target, Passed, Loaded, HostDone, TablesIn
  <2>3. ASSUME NEW h, NEW k, NEW t, Lower(h, k, t) PROVE Lower(h, k, t)'
    BY <2>3, LowerKept
  <2>4. ASSUME NEW k, NEW t, Upper(k, t) PROVE Upper(k, t)'
    BY <2>4, UpperKept
  <2>5. \A k, t : RowsIn(before, k, t) \subseteq RowsIn(live, k, t)
                    => RowsIn(before', k, t) \subseteq RowsIn(live', k, t)
    BY DEF RowsIn
  <2>6. \A k, t : RowsIn(live, k, t) \subseteq RowsIn(since, k, t)
                    => RowsIn(live', k, t) \subseteq RowsIn(since', k, t)
    BY DEF RowsIn
  <2> QED BY <2>2, <2>3, <2>4, <2>5, <2>6 DEF CloneInv
<1>19. CASE ~rs.clone /\ rs'.clone = rs.clone
  BY <1>2, <1>19
<1>20. ASSUME \/ OpenArchive \/ KeyspaceDone \/ DropKeyspace \/ CreateKeyspace
              \/ DropAllTables \/ RestoreRoles \/ RestoreKeyspace \/ DropTable
              \/ CreateTable \/ SstableLoader
       PROVE  rs'.clone = rs.clone
  BY <1>1, <1>20, OpenArchiveFacts, KeyspaceDoneFacts, DropKeyspaceFacts, CreateKeyspaceFacts,
     DropAllTablesFacts, RestoreRolesFacts, RestoreKeyspaceFacts, TableFacts DEF SameRequest
<1> QED BY <1>3, <1>4, <1>5, <1>6, <1>7, <1>8, <1>9, <1>10, <1>11, <1>12, <1>13, <1>14, <1>15,
           <1>16, <1>17, <1>18, <1>19, <1>20 DEF Next

\* CloneInv is invariant.
LEMMA CloneInvariant == Spec => []CloneInv
<1>1. Init => CloneInv
  BY DEF Init, CloneInv, Active
<1>2. BackupInv /\ FirstOnly /\ ConsistentInv /\ CloneInv /\ [Next]_vars => CloneInv'
  <2>1. CloneInv /\ UNCHANGED vars => CloneInv'
    BY DEF CloneInv, Active, Passed, Source, Target, TargetOf, Lower, Upper, Loaded, HostDone,
           TablesIn, RowsIn, Archived, vars, backupVars
  <2> QED BY <2>1, CloneNext
<1> QED BY <1>1, <1>2, BackupInvariant, FirstInvariant, ConsistentInvariant, PTL DEF Spec

(***************************************************************************)
(* CloneHoldsBackup: a finished clone holds what all hosts archived and,   *)
(* restored without roles, nothing else but what clients wrote meanwhile;  *)
(* the source is as it was. drop_all_tables runs for the first archive     *)
(* only, so later archives take nothing away.                              *)
(***************************************************************************)
THEOREM ClonesComplete == Spec => []CloneHoldsBackup
<1>1. TypeInv /\ CloneInv => CloneHoldsBackup
  <2> SUFFICES ASSUME TypeInv, CloneInv, rs.pc = "finished", rs.clone,
                      NEW k \in Sources, NEW t \in Tables
               PROVE  /\ Archived(k, t) \subseteq RowsIn(live, DbMap[k], t)
                      /\ ~rs.roles => RowsIn(live, DbMap[k], t) \subseteq
                                        Archived(k, t) \cup RowsIn(since, DbMap[k], t)
                      /\ RowsIn(before, k, t) \subseteq RowsIn(live, k, t)
                      /\ <<k, t>> \in before.tables => <<k, t>> \in live.tables
    BY DEF CloneHoldsBackup
  <2>1. /\ \A h \in Hosts : Lower(h, k, t)
        /\ ~rs.roles => Upper(k, t)
        /\ RowsIn(before, k, t) \subseteq RowsIn(live, k, t)
        /\ <<k, t>> \in before.tables => <<k, t>> \in live.tables
    BY FinishedFacts DEF CloneInv
  <2>2. TargetOf(k) = DbMap[k]
    BY DEF TargetOf
  <2>3. Archived(k, t) \subseteq RowsIn(live, DbMap[k], t)
    BY <2>1, <2>2 DEF Archived, Lower, RowsIn
  <2> QED BY <2>1, <2>2, <2>3 DEF Upper
<1>2. BackupInv => TypeInv
  BY DEF BackupInv
<1> QED BY <1>1, <1>2, BackupInvariant, CloneInvariant, PTL

(***************************************************************************)
(* Within a keyspace, RevertInv is kept by what touches nothing but the    *)
(* keyspace and leaves there what RevertInv says.                          *)
(***************************************************************************)
LEMMA RevertStep ==
  ASSUME TypeInv, RevertInv, SameKeyspace, ~rs.clone, rs.pc \in Working, rs'.pc \in Working,
         TouchesOnly(Source),
         \A h \in Hosts, t \in Tables :
           /\ Loaded(h, t)' /\ t \in TablesIn(vault[h], Source)
           /\ rs'.pc \in {"createTable", "load"} => t # rs'.table
           => Reverted(Source, t)',
         rs'.pc \in {"createTable", "load"} => Upper(Source, rs.table)',
         AllTables /\ rs.roles /\ rs'.dropped /\ rs'.pc # "dropKeyspace" =>
           \A t \in Tables : t \notin ArchivedTables(Source) => Gone(Source, t)',
         ~(AllTables /\ rs.roles) =>
           \A t \in Tables : t \notin ArchivedTables(Source) =>
             /\ <<Source, t>> \in live.tables => <<Source, t>> \in live'.tables
             /\ \A x \in Rows : <<Source, t, x>> \in live.rows => <<Source, t, x>> \in live'.rows
  PROVE  RevertInv'
<1>1. /\ Active /\ vault' = vault /\ rs'.clone = rs.clone /\ rs'.roles = rs.roles
      /\ before' = before /\ since' = since /\ (AllTables' <=> AllTables)
      /\ \A k : ArchivedTables(k)' = ArchivedTables(k)
      /\ \A h, k : TablesIn(vault[h], k)' = TablesIn(vault[h], k)
  BY DEF Active, Working, InArchive, InTables, SameKeyspace, SameRequest, backupVars,
         AllTables, ArchivedTables, TablesIn
<1>2. Source \in Sources /\ Source' = Source /\ \A k : Passed(k)' <=> Passed(k)
  BY PassedKept, SourceFacts
<1>3. \A k : TargetOf(k) = k /\ TargetOf(k)' = k
  BY <1>1 DEF TargetOf
<1>4. ASSUME NEW k \in Sources, Passed(k), NEW t \in ArchivedTables(k)
      PROVE  Reverted(k, t)'
  <2>1. k # Source /\ Reverted(k, t)
    BY <1>1, <1>4 DEF Passed, RevertInv
  <2>2. \A x \in Rows : <<TargetOf(k), t, x>> \in live'.rows
                          <=> <<TargetOf(k), t, x>> \in live.rows
    BY <1>3, <2>1 DEF TouchesOnly
  <2>3. Upper(k, t)'
    BY <1>1, <2>1, <2>2, UpperKept DEF Reverted
  <2>4. PICK h \in Hosts : t \in TablesIn(vault[h], k) /\ Lower(h, k, t)
    BY <2>1 DEF Reverted
  <2>5. t \in TablesIn(vault[h], k)' /\ Lower(h, k, t)'
    BY <1>1, <2>2, <2>4, LowerKept
  <2> QED BY <2>3, <2>5 DEF Reverted
<1>5. ASSUME AllTables, rs.roles, NEW k \in Sources, NEW t \in Tables,
             t \notin ArchivedTables(k), Passed(k)
      PROVE  Gone(k, t)'
  <2>1. k # Source /\ Gone(k, t)
    BY <1>1, <1>5 DEF Passed, RevertInv
  <2> QED BY <1>1, <2>1 DEF Gone, TouchesOnly, RowsIn
<1>6. ASSUME ~(AllTables /\ rs.roles), NEW k \in Sources, NEW t \in Tables,
             t \notin ArchivedTables(k)
      PROVE  /\ RowsIn(before, k, t) \subseteq RowsIn(live', k, t)
             /\ <<k, t>> \in before.tables => <<k, t>> \in live'.tables
  <2>1. /\ RowsIn(before, k, t) \subseteq RowsIn(live, k, t)
        /\ <<k, t>> \in before.tables => <<k, t>> \in live.tables
    BY <1>1, <1>6 DEF RevertInv
  <2> QED BY <1>6, <2>1 DEF TouchesOnly, RowsIn
<1>7. rs'.pc \in {"createTable", "load"} => Upper(Source, rs.table)'
  OBVIOUS
<1> QED BY <1>1, <1>2, <1>4, <1>5, <1>6, <1>7 DEF RevertInv

\* A table stays reverted while its rows stay as they are, but for new ones of clients.
LEMMA RevertedKept ==
  ASSUME NEW k, NEW t, Reverted(k, t), vault' = vault, rs'.clone = rs.clone,
         since.rows \subseteq since'.rows,
         \A x \in Rows : <<TargetOf(k), t, x>> \in live.rows =>
                           <<TargetOf(k), t, x>> \in live'.rows,
         \A x \in Rows : <<TargetOf(k), t, x>> \in live'.rows =>
           \/ <<TargetOf(k), t, x>> \in live.rows
           \/ x \in Archived(k, t)
           \/ <<TargetOf(k), t, x>> \in since'.rows
  PROVE  Reverted(k, t)'
<1>1. PICK h \in Hosts : t \in TablesIn(vault[h], k) /\ Lower(h, k, t)
  BY DEF Reverted
<1>2. t \in TablesIn(vault[h], k)' /\ Lower(h, k, t)'
  BY <1>1, LowerKept DEF TablesIn
<1>3. Upper(k, t)'
  BY UpperKept DEF Reverted
<1> QED BY <1>2, <1>3 DEF Reverted

(***************************************************************************)
(* A step within a keyspace that keeps its tables and rows and is through  *)
(* with nothing that it was not through with.                              *)
(***************************************************************************)
LEMMA RevertQuiet ==
  ASSUME TypeInv, RevertInv, SameKeyspace, ~rs.clone, rs.pc \in Working, rs'.pc \in Working,
         live'.rows = live.rows, live'.tables = live.tables,
         rs.pc \notin {"createTable", "load"}, rs'.pc \notin {"createTable", "load"},
         AllTables /\ rs.roles /\ rs'.dropped /\ rs'.pc # "dropKeyspace" =>
           rs.dropped /\ rs.pc # "dropKeyspace",
         \A h \in Hosts, t \in Tables :
           Loaded(h, t)' /\ t \in TablesIn(vault[h], Source) => Loaded(h, t)
  PROVE  RevertInv'
<1>1. Active /\ vault' = vault /\ rs'.clone = rs.clone /\ since' = since
  BY DEF Active, Working, InArchive, InTables, SameKeyspace, SameRequest, backupVars
<1>2. Source \in Sources /\ TouchesOnly(Source) /\ Source' = Source
  BY SourceFacts, PassedKept DEF TouchesOnly
<1>3. ASSUME NEW h \in Hosts, NEW t \in Tables, Loaded(h, t)', t \in TablesIn(vault[h], Source)
      PROVE  Reverted(Source, t)'
  <2>1. Reverted(Source, t)
    BY <1>1, <1>3 DEF RevertInv
  <2> QED BY <1>1, <1>2, <2>1, RevertedKept DEF Reverted, Upper, Lower, TablesIn, Archived
<1>4. ASSUME AllTables, rs.roles, rs'.dropped, rs'.pc # "dropKeyspace",
             NEW t \in Tables, t \notin ArchivedTables(Source)
      PROVE  Gone(Source, t)'
  <2>1. Gone(Source, t)
    BY <1>1, <1>2, <1>4 DEF RevertInv
  <2> QED BY <1>1, <1>2, <2>1 DEF Gone, RowsIn
<1> QED BY <1>1, <1>2, <1>3, <1>4, RevertStep

\* Every action keeps RevertInv.
LEMMA RevertNext ==
  ASSUME BackupInv, FirstOnly, RevertInv, Next
  PROVE  RevertInv'
<1> USE DEF SameArchive, SameKeyspace, InArchive, InTables
<1>1. TypeInv /\ rs \in Restore /\ live \in Cluster
  BY DEF BackupInv, TypeInv, TypeOK
<1>2. ASSUME rs'.pc \in {"idle", "failed"} \/ rs'.clone PROVE RevertInv'
  BY <1>2 DEF RevertInv, Active
<1>3. ASSUME NEW T \in SUBSET Tables, ClusterBackup(T) PROVE RevertInv'
  BY <1>1, <1>2, <1>3, ClusterBackupFacts
<1>4. ASSUME NEW h \in Hosts,
             \/ ExecuteSnapshot(h) \/ MakeArchive(h) \/ DeleteSnapshot(h)
             \/ CopyToVault(h) \/ HostFails(h)
      PROVE  RevertInv'
  BY <1>1, <1>2, <1>4, HostFacts DEF HostStep
<1>5. ASSUME NEW clone \in BOOLEAN, NEW roles \in BOOLEAN, StartRestore(clone, roles)
      PROVE  RevertInv'
  <2>1. rs'.pc = "keyspace" /\ rs'.pos = 1 /\ before' = live /\ live' = live
    BY <1>1, <1>5, StartRestoreFacts
  <2>2. \A k : ~Passed(k)'
    BY <2>1, ConstantFacts DEF Passed
  <2> QED BY <2>1, <2>2 DEF RevertInv, Working
<1>6. CASE OpenKeyspace
  <2>1. /\ SameKeyspace /\ rs.pc = "keyspace" /\ live' = live /\ Active
        /\ rs'.pc \in {"finished", "failed", "archive"}
        /\ rs'.pc = "archive" => rs'.todo = Hosts /\ ~rs'.dropped
        /\ rs'.roles = rs.roles /\ rs'.clone = rs.clone /\ vault' = vault
        /\ before' = before /\ since' = since /\ (AllTables' <=> AllTables)
        /\ \A k : ArchivedTables(k)' = ArchivedTables(k)
    BY <1>1, <1>6, OpenKeyspaceFacts, AllOpened
      DEF Active, SameRequest, backupVars, AllTables, ArchivedTables, TablesIn
  <2>2. \A k : Passed(k)' => Passed(k)
    BY <2>1 DEF Passed, Working
  <2>3. ASSUME ~rs.clone, NEW k \in Sources, Passed(k)', NEW t \in ArchivedTables(k)
        PROVE  Reverted(k, t)'
    <3>1. Reverted(k, t)
      BY <2>1, <2>2, <2>3 DEF RevertInv
    <3> QED BY <2>1, <3>1, RevertedKept
  <2>4. \A h \in Hosts, t \in Tables : rs'.pc \in Working => ~Loaded(h, t)'
    BY <2>1 DEF Working, Loaded, HostDone
  <2>5. ASSUME ~rs.clone, AllTables, rs.roles, NEW k \in Sources, NEW t \in Tables,
               t \notin ArchivedTables(k), Passed(k)'
        PROVE  Gone(k, t)'
    <3>1. Gone(k, t)
      BY <2>1, <2>2, <2>5 DEF RevertInv
    <3> QED BY <2>1, <3>1 DEF Gone
  <2> QED BY <1>2, <2>1, <2>3, <2>4, <2>5 DEF RevertInv, Working
<1>7. ASSUME ~rs.clone, OpenArchive PROVE RevertInv'
  <2>1. /\ SameKeyspace /\ rs.pc = "archive" /\ live' = live
        /\ rs'.pc \in {"createKeyspace", "roles", "dropKeyspace"}
        /\ AllTables /\ rs.roles /\ rs'.dropped /\ rs'.pc # "dropKeyspace" => rs.dropped
    BY <1>1, <1>7, OpenArchiveFacts
  <2>2. \A h \in Hosts, t \in Tables :
          Loaded(h, t)' /\ t \in TablesIn(vault[h], Source) => Loaded(h, t)
    BY <1>7, <2>1, LoadedFacts DEF SstableLoader, Restores
  <2> QED BY <1>1, <1>7, <2>1, <2>2, RevertQuiet DEF Working
<1>8. ASSUME ~rs.clone, KeyspaceDone PROVE RevertInv'
  <2>1. /\ SameRequest /\ rs.pc = "archive" /\ rs'.pc = "keyspace" /\ live' = live
        /\ rs.todo = {} /\ rs'.pos = rs.pos + 1 /\ Active /\ rs.pos \in 1..Len(Dbs)
        /\ Source \in Sources
        /\ rs'.roles = rs.roles /\ rs'.clone = rs.clone /\ vault' = vault
        /\ before' = before /\ since' = since /\ (AllTables' <=> AllTables)
        /\ \A k : ArchivedTables(k)' = ArchivedTables(k)
    BY <1>1, <1>8, KeyspaceDoneFacts, SourceFacts
      DEF Active, Working, SameRequest, backupVars, AllTables, ArchivedTables, TablesIn
  <2>2. \A k : Passed(k)' => Passed(k) \/ k = Source
    BY <2>1, ConstantFacts DEF Passed, Source, Working
  <2>3. AllTables => rs.dropped
    BY <1>8, <2>1, ConstantFacts DEF FirstOnly, DropsAtFirst
  <2>4. ASSUME NEW k \in Sources, Passed(k)', NEW t \in ArchivedTables(k)
        PROVE  Reverted(k, t)'
    <3>1. CASE k = Source
      <4>1. PICK h \in Hosts : t \in TablesIn(vault[h], Source) /\ t \in Tables
        BY <2>4, <3>1 DEF ArchivedTables, TablesIn
      <4>2. Reverted(k, t)
        BY <1>8, <2>1, <3>1, <4>1 DEF RevertInv, Working, Loaded, HostDone
      <4> QED BY <2>1, <4>2, RevertedKept
    <3>2. CASE Passed(k)
      <4>1. Reverted(k, t)
        BY <1>8, <2>1, <2>4, <3>2 DEF RevertInv
      <4> QED BY <2>1, <4>1, RevertedKept
    <3> QED BY <2>2, <2>4, <3>1, <3>2
  <2>5. ASSUME AllTables, rs.roles, NEW k \in Sources, NEW t \in Tables,
               t \notin ArchivedTables(k), Passed(k)'
        PROVE  Gone(k, t)'
    <3>1. Gone(k, t)
      BY <1>8, <2>1, <2>2, <2>3, <2>5 DEF RevertInv, Working
    <3> QED BY <2>1, <3>1 DEF Gone
  <2> QED BY <1>8, <2>1, <2>4, <2>5 DEF RevertInv, Working
<1>9. ASSUME ~rs.clone, DropKeyspace PROVE RevertInv'
  <2>1. /\ SameArchive /\ rs.pc = "dropKeyspace" /\ rs'.pc = "createKeyspace"
        /\ Drops(Source, Tables) /\ TouchesOnly(Source) /\ AllTables /\ rs.roles
        /\ rs.todo = Hosts \ {rs.from} /\ Source \in Sources /\ Source' = Source
    BY <1>1, <1>9, DropKeyspaceFacts, TouchesFacts, SourceFacts, PassedKept
      DEF FirstOnly, Working
  <2>2. \A h \in Hosts, t \in Tables : ~Loaded(h, t)'
    BY <2>1 DEF Loaded, HostDone
  <2>3. \A t \in Tables : Gone(Source, t)'
    BY <2>1 DEF Gone, Drops, RowsIn
  <2> QED BY <1>1, <1>9, <2>1, <2>2, <2>3, RevertStep DEF Working
<1>10. ASSUME ~rs.clone, CreateKeyspace PROVE RevertInv'
  <2>1. /\ SameKeyspace /\ rs.pc = "createKeyspace" /\ rs'.pc = "roles"
        /\ live'.rows = live.rows /\ live'.tables = live.tables /\ rs'.dropped = rs.dropped
    BY <1>1, <1>10, CreateKeyspaceFacts DEF AddsGrants
  <2>2. \A h \in Hosts, t \in Tables :
          Loaded(h, t)' /\ t \in TablesIn(vault[h], Source) => Loaded(h, t)
    BY <1>10, <2>1, LoadedFacts DEF SstableLoader, Restores
  <2> QED BY <1>1, <1>10, <2>1, <2>2, RevertQuiet DEF Working
<1>11. ASSUME ~rs.clone, DropAllTables PROVE RevertInv'
  BY <1>1, <1>11, DropAllTablesFacts DEF FirstOnly
<1>12. ASSUME ~rs.clone, RestoreRoles PROVE RevertInv'
  <2>1. /\ SameKeyspace /\ rs.pc = "roles" /\ rs'.pc = "table" /\ rs'.dropped = rs.dropped
        /\ live'.rows = live.rows /\ live'.tables = live.tables
    BY <1>1, <1>12, RestoreRolesFacts DEF AddsGrants
  <2>2. \A h \in Hosts, t \in Tables :
          Loaded(h, t)' /\ t \in TablesIn(vault[h], Source) => Loaded(h, t)
    BY <1>12, <2>1, LoadedFacts DEF SstableLoader, Restores
  <2> QED BY <1>1, <1>12, <2>1, <2>2, RevertQuiet DEF Working
<1>13. ASSUME ~rs.clone, RestoreKeyspace PROVE RevertInv'
  <2>1. /\ SameKeyspace /\ rs.pc = "table" /\ rs'.pc \in {"dropTable", "archive"}
        /\ rs'.dropped = rs.dropped /\ live' = live
    BY <1>1, <1>13, RestoreKeyspaceFacts
  <2>2. \A h \in Hosts, t \in Tables :
          Loaded(h, t)' /\ t \in TablesIn(vault[h], Source) => Loaded(h, t)
    BY <1>13, <2>1, LoadedFacts DEF SstableLoader, Restores
  <2> QED BY <1>1, <1>13, <2>1, <2>2, RevertQuiet DEF Working
<1> DEFINE Within ==
      /\ SameArchive /\ Active /\ ~rs.clone /\ rs'.table = rs.table /\ rs.table \in Tables
      /\ rs.pc \in InTables \ {"table"}
      /\ rs.table \in TablesIn(vault[rs.from], Source) /\ rs.from \in Hosts
      /\ rs.table \in ArchivedTables(Source) /\ rs'.dropped = rs.dropped
      /\ vault' = vault /\ rs'.clone = rs.clone /\ since' = since
      /\ Source \in Sources /\ Source' = Source /\ Target = Source
      /\ \A k : TargetOf(k) = k
<1>14. ASSUME ~rs.clone, DropTable \/ CreateTable \/ SstableLoader PROVE Within
  <2>1. /\ SameArchive /\ rs'.table = rs.table /\ rs.table \in Tables
        /\ rs'.dropped = rs.dropped /\ rs.pc \in InTables \ {"table"} /\ rs'.pc \in Working
    BY <1>1, <1>14, TableFacts DEF Working
  <2>2. rs.table \in TablesIn(vault[rs.from], Source) /\ rs.from \in Hosts
    BY <1>1, <2>1 DEF TypeInv, Control
  <2>3. rs.table \in ArchivedTables(Source)
    BY <2>2 DEF ArchivedTables
  <2>4. Active /\ vault' = vault /\ rs'.clone = rs.clone /\ since' = since
    BY <2>1 DEF Active, SameRequest, backupVars
  <2>5. Source \in Sources /\ Source' = Source
    BY <1>1, <2>1, SourceFacts, PassedKept DEF Working
  <2> QED BY <1>14, <2>1, <2>2, <2>3, <2>4, <2>5 DEF Target, TargetOf
<1> HIDE DEF Within
\* What holds of the tables other than the one at hand.
<1>15. ASSUME Within, \A t : t # rs.table =>
                /\ <<Source, t>> \in live'.tables <=> <<Source, t>> \in live.tables
                /\ \A x \in Rows : <<Source, t, x>> \in live'.rows
                                     <=> <<Source, t, x>> \in live.rows
       PROVE  /\ \A t \in Tables : t # rs.table /\ Reverted(Source, t) => Reverted(Source, t)'
              /\ AllTables /\ rs.roles /\ rs'.dropped =>
                   \A t \in Tables : t \notin ArchivedTables(Source) => Gone(Source, t)'
              /\ \A t \in Tables : t \notin ArchivedTables(Source) =>
                   /\ <<Source, t>> \in live.tables => <<Source, t>> \in live'.tables
                   /\ \A x \in Rows : <<Source, t, x>> \in live.rows =>
                                        <<Source, t, x>> \in live'.rows
  <2>1. \A t \in Tables : t # rs.table /\ Reverted(Source, t) => Reverted(Source, t)'
    <3> SUFFICES ASSUME NEW t \in Tables, t # rs.table, Reverted(Source, t)
                 PROVE  Reverted(Source, t)'
      OBVIOUS
    <3>1. PICK h \in Hosts : t \in TablesIn(vault[h], Source) /\ Lower(h, Source, t)
      BY DEF Reverted
    <3>2. vault' = vault /\ Source' = Source /\ since' = since /\ TargetOf(Source) = Source
          /\ TargetOf(Source)' = Source
      BY <1>15 DEF Within, TargetOf
    <3>3. Upper(Source, t)' /\ Lower(h, Source, t)' /\ t \in TablesIn(vault[h], Source)'
      BY <1>15, <3>1, <3>2 DEF Reverted, Upper, Lower, RowsIn, Archived, TablesIn
    <3> QED BY <3>3 DEF Reverted
  <2>2. ASSUME AllTables, rs.roles, rs'.dropped, NEW t \in Tables,
               t \notin ArchivedTables(Source)
        PROVE  Gone(Source, t)'
    <3>1. Gone(Source, t) /\ t # rs.table /\ since' = since /\ Source' = Source
      BY <1>15, <2>2 DEF RevertInv, Within, Working
    <3> QED BY <1>15, <3>1 DEF Gone, RowsIn
  <2> QED BY <1>15, <2>1, <2>2 DEF Within
<1>16. ASSUME ~rs.clone, DropTable PROVE RevertInv'
  <2>1. Within /\ rs.pc = "dropTable" /\ rs'.pc = "createTable" /\ Drops(Source, {rs.table})
    BY <1>1, <1>14, <1>16, TableFacts DEF Within, DropTable, Restores
  <2>2. \A t : t # rs.table =>
          /\ <<Source, t>> \in live'.tables <=> <<Source, t>> \in live.tables
          /\ \A x \in Rows : <<Source, t, x>> \in live'.rows <=> <<Source, t, x>> \in live.rows
    BY <2>1 DEF Drops
  <2>3. Upper(Source, rs.table)'
    <3>1. \A x \in Rows : <<Source, rs.table, x>> \notin live'.rows
      BY <2>1 DEF Drops
    <3>2. Source' = Source /\ rs'.table = rs.table /\ TargetOf(Source)' = Source
      BY <2>1 DEF Within, TargetOf
    <3> QED BY <3>1, <3>2 DEF Upper, RowsIn
  <2>4. ASSUME NEW h \in Hosts, NEW t \in Tables, Loaded(h, t)',
               t \in TablesIn(vault[h], Source), t # rs'.table
        PROVE  Reverted(Source, t)'
    <3>1. Loaded(h, t) /\ t # rs.table
      BY <1>16, <2>1, <2>4, LoadedFacts DEF Within, SstableLoader, Restores
    <3>2. Reverted(Source, t)
      BY <1>16, <2>1, <2>4, <3>1 DEF RevertInv, Within, Working
    <3> QED BY <1>15, <2>1, <2>2, <3>1, <3>2
  <2> QED BY <1>1, <1>15, <1>16, <2>1, <2>2, <2>3, <2>4, RevertStep, TouchesFacts
       DEF Within, Working
<1>17. ASSUME ~rs.clone, CreateTable PROVE RevertInv'
  <2>1. Within /\ rs.pc = "createTable" /\ rs'.pc = "load"
        /\ AddsTables({<<Source, rs.table>>})
    BY <1>1, <1>14, <1>17, TableFacts DEF Within, CreateTable, Restores
  <2>2. \A t : t # rs.table =>
          /\ <<Source, t>> \in live'.tables <=> <<Source, t>> \in live.tables
          /\ \A x \in Rows : <<Source, t, x>> \in live'.rows <=> <<Source, t, x>> \in live.rows
    BY <2>1 DEF AddsTables
  <2>3. Upper(Source, rs.table)'
    <3>1. Upper(Source, rs.table) /\ live'.rows = live.rows
      BY <1>17, <2>1 DEF RevertInv, Within, AddsTables
    <3> QED BY <2>1, <3>1 DEF Within, Upper, RowsIn, Archived, TargetOf
  <2>4. ASSUME NEW h \in Hosts, NEW t \in Tables, Loaded(h, t)',
               t \in TablesIn(vault[h], Source), t # rs'.table
        PROVE  Reverted(Source, t)'
    <3>1. Loaded(h, t) /\ t # rs.table
      BY <1>17, <2>1, <2>4, LoadedFacts DEF Within, SstableLoader, Restores
    <3>2. Reverted(Source, t)
      BY <1>17, <2>1, <2>4, <3>1 DEF RevertInv, Within, Working
    <3> QED BY <1>15, <2>1, <2>2, <3>1, <3>2
  <2> QED BY <1>1, <1>15, <1>17, <2>1, <2>2, <2>3, <2>4, RevertStep, TouchesFacts
       DEF Within, Working
<1>18. ASSUME ~rs.clone, SstableLoader PROVE RevertInv'
  <2>1. Within /\ rs.pc = "load" /\ rs'.pc = "table" /\ AddsRows(SavedRows)
    BY <1>1, <1>14, <1>18, TableFacts DEF Within, SstableLoader, Restores
  <2>2. /\ \A l, t, x : <<l, t, x>> \in SavedRows =>
             l = Source /\ t = rs.table /\ <<Source, t, x>> \in vault[rs.from].rows
        /\ \A x : <<Source, rs.table, x>> \in vault[rs.from].rows =>
             <<Source, rs.table, x>> \in SavedRows
    BY <1>1, <2>1, SavedFacts DEF Within
  <2>3. \A t : t # rs.table =>
          /\ <<Source, t>> \in live'.tables <=> <<Source, t>> \in live.tables
          /\ \A x \in Rows : <<Source, t, x>> \in live'.rows <=> <<Source, t, x>> \in live.rows
    BY <2>1, <2>2 DEF AddsRows
  <2>4. TouchesOnly(Source)
    BY <2>1, <2>2 DEF AddsRows, TouchesOnly
  <2>5. Reverted(Source, rs.table)'
    <3>1. Upper(Source, rs.table)
      BY <1>18, <2>1 DEF RevertInv, Within
    <3>2. \A x \in Rows : <<Source, rs.table, x>> \in live'.rows =>
            <<Source, rs.table, x>> \in live.rows \/ x \in Archived(Source, rs.table)
      BY <2>1, <2>2 DEF AddsRows, Archived, Within
    <3>3. /\ vault' = vault /\ Source' = Source /\ rs'.table = rs.table /\ since' = since
          /\ TargetOf(Source) = Source /\ TargetOf(Source)' = Source /\ rs.from \in Hosts
          /\ rs.table \in TablesIn(vault[rs.from], Source)
      BY <2>1 DEF Within, TargetOf
    <3>4. Upper(Source, rs.table)'
      BY <3>1, <3>2, <3>3 DEF Upper, RowsIn, Archived
    <3>5. RowsIn(vault[rs.from], Source, rs.table) \subseteq RowsIn(live', Source, rs.table)
      BY <2>1, <2>2 DEF RowsIn, AddsRows
    <3>6. rs.table \in TablesIn(vault'[rs.from], Source')
          /\ RowsIn(vault'[rs.from], Source', rs'.table)
               \subseteq RowsIn(live', TargetOf(Source)', rs'.table)
      BY <3>3, <3>5
    <3> QED BY <3>3, <3>4, <3>6 DEF Reverted, Lower
  <2>6. ASSUME NEW h \in Hosts, NEW t \in Tables, Loaded(h, t)',
               t \in TablesIn(vault[h], Source)
        PROVE  Reverted(Source, t)'
    <3>1. CASE t = rs.table
      BY <2>1, <2>5, <3>1 DEF Within
    <3>2. CASE t # rs.table
      <4>1. Loaded(h, t)
        BY <1>18, <2>6, <3>2, LoadedFacts
      <4>2. Reverted(Source, t)
        BY <1>18, <2>1, <2>6, <3>2, <4>1 DEF RevertInv, Within, Working
      <4> QED BY <1>15, <2>1, <2>3, <3>2, <4>2
    <3> QED BY <3>1, <3>2
  <2> QED BY <1>1, <1>15, <1>18, <2>1, <2>3, <2>4, <2>6, RevertStep DEF Within, Working
<1>19. CASE RestoreFails
  BY <1>1, <1>2, <1>19, RestoreFailsFacts
<1>20. ASSUME NEW l \in Keyspaces, NEW s \in Tables,
              \/ ClientCreatesTable(l, s)
              \/ \E x \in Rows : ClientWrites(l, s, x)
       PROVE  RevertInv'
  <2>1. ClientsAdd
    BY <1>1, <1>20, ClientsAddOnly
  <2> USE <2>1 DEF ClientsAdd
  <2>2. /\ Active' <=> Active
        /\ AllTables' <=> AllTables
        /\ Source' = Source
        /\ \A k : (Passed(k)' <=> Passed(k))
        /\ \A h, t : (Loaded(h, t)' <=> Loaded(h, t))
        /\ \A h, k : TablesIn(vault[h], k)' = TablesIn(vault[h], k)
        /\ \A k : ArchivedTables(k)' = ArchivedTables(k)
    BY DEF Active, AllTables, Source, Passed, Loaded, HostDone, TablesIn, ArchivedTables
  <2>3. ASSUME NEW k, NEW t, Reverted(k, t) PROVE Reverted(k, t)'
    BY <2>3, RevertedKept
  <2>4. ASSUME NEW k, NEW t, Upper(k, t) PROVE Upper(k, t)'
    BY <2>4, UpperKept
  <2>5. ASSUME NEW k, NEW t, Gone(k, t) PROVE Gone(k, t)'
    BY <2>5 DEF Gone, RowsIn
  <2>6. \A k, t : RowsIn(before, k, t) \subseteq RowsIn(live, k, t)
                    => RowsIn(before', k, t) \subseteq RowsIn(live', k, t)
    BY DEF RowsIn
  <2>7. rs.pc \in {"createTable", "load"} /\ Upper(Source, rs.table) => Upper(Source, rs.table)'
    BY <2>2, <2>4 DEF Upper, RowsIn, Archived, TargetOf
  <2> QED BY <2>2, <2>3, <2>5, <2>6, <2>7 DEF RevertInv
<1>21. CASE rs.clone /\ rs'.clone = rs.clone
  BY <1>2, <1>21
<1>22. ASSUME \/ OpenArchive \/ KeyspaceDone \/ DropKeyspace \/ CreateKeyspace
              \/ DropAllTables \/ RestoreRoles \/ RestoreKeyspace \/ DropTable
              \/ CreateTable \/ SstableLoader
       PROVE  rs'.clone = rs.clone
  BY <1>1, <1>22, OpenArchiveFacts, KeyspaceDoneFacts, DropKeyspaceFacts, CreateKeyspaceFacts,
     DropAllTablesFacts, RestoreRolesFacts, RestoreKeyspaceFacts, TableFacts DEF SameRequest
<1> QED BY <1>3, <1>4, <1>5, <1>6, <1>7, <1>8, <1>9, <1>10, <1>11, <1>12, <1>13, <1>16,
           <1>17, <1>18, <1>19, <1>20, <1>21, <1>22 DEF Next

\* RevertInv is invariant.
LEMMA RevertInvariant == Spec => []RevertInv
<1>1. Init => RevertInv
  BY DEF Init, RevertInv, Active
<1>2. BackupInv /\ FirstOnly /\ RevertInv /\ [Next]_vars => RevertInv'
  <2>1. RevertInv /\ UNCHANGED vars => RevertInv'
    BY DEF RevertInv, Active, AllTables, Passed, Source, TargetOf, Lower, Upper, Reverted, Gone,
           Loaded, HostDone, TablesIn, RowsIn, Archived, ArchivedTables, vars, backupVars
  <2> QED BY <2>1, RevertNext
<1> QED BY <1>1, <1>2, BackupInvariant, FirstInvariant, PTL DEF Spec

(***************************************************************************)
(* RestoreReverts: a finished restore has taken every archived table back  *)
(* to the archive of some host, has removed what was not archived if it    *)
(* dropped the keyspace, and left it alone otherwise, whatever restores    *)
(* failed before it.                                                       *)
(***************************************************************************)
THEOREM RestoresRevert == Spec => []RestoreReverts
<1>1. TypeInv /\ RevertInv => RestoreReverts
  <2> SUFFICES ASSUME TypeInv, RevertInv, rs.pc = "finished", ~rs.clone
               PROVE  RestoreReverts
    BY DEF RestoreReverts
  <2>1. \A k \in Sources : Passed(k) /\ TargetOf(k) = k
    BY FinishedFacts DEF TargetOf
  <2>2. \A k \in Sources : \A t \in ArchivedTables(k) : Reverted(k, t)
    BY <2>1, FinishedFacts DEF RevertInv
  <2>3. AllTables /\ rs.roles => \A k \in Sources, t \in Tables :
          t \notin ArchivedTables(k) => Gone(k, t)
    BY <2>1, FinishedFacts DEF RevertInv
  <2>4. ~(AllTables /\ rs.roles) => \A k \in Sources, t \in Tables :
          t \notin ArchivedTables(k) =>
            /\ RowsIn(before, k, t) \subseteq RowsIn(live, k, t)
            /\ <<k, t>> \in before.tables => <<k, t>> \in live.tables
    BY FinishedFacts DEF RevertInv
  <2>5. \A k \in Sources : \A t \in ArchivedTables(k) :
          /\ RowsIn(live, k, t) \subseteq Archived(k, t) \cup RowsIn(since, k, t)
          /\ \E h \in Hosts : /\ t \in TablesIn(vault[h], k)
                              /\ RowsIn(vault[h], k, t) \subseteq RowsIn(live, k, t)
    BY <2>1, <2>2 DEF Reverted, Upper, Lower
  <2> QED BY <2>3, <2>4, <2>5 DEF RestoreReverts, Gone
<1>2. BackupInv => TypeInv
  BY DEF BackupInv
<1> QED BY <1>1, <1>2, BackupInvariant, RevertInvariant, PTL
=============================================================================
