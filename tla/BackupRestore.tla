---------------------------- MODULE BackupRestore ----------------------------
(***************************************************************************)
(* The backup daemon (services/backup-daemon): a backup that runs on every *)
(* Cassandra host by itself (backup_remote.py, started by a playbook), and *)
(* restores (backup_and_restore.py) that go through the archives of the    *)
(* hosts one after another, into the same keyspaces or into clones. Any    *)
(* command may fail, clients go on writing all the time, and a restore,    *)
(* failed or not, may be followed by another one.                          *)
(*                                                                         *)
(* A row is stored by the hosts Place gives it: the snapshot of a host     *)
(* holds the rows of that host, and sstableloader sends them to all hosts  *)
(* in charge. The cluster and the archives are sets of facts, all of the   *)
(* form of Cluster.                                                        *)
(*                                                                         *)
(* Nobody grants or revokes anything between the backup and the restores,  *)
(* and a role exists when something is granted to it. No name of a table   *)
(* contains that of its keyspace: restore_keyspace would rename the table  *)
(* in a clone.                                                             *)
(***************************************************************************)
EXTENDS Naturals, Sequences

CONSTANTS
  Hosts,            \* Cassandra hosts
  Dbs,              \* the keyspaces to back up and to restore, in order
  DbMap,            \* DbMap[k]: the name of the clone of k
  Tables,           \* names of tables
  Rows,             \* contents of rows
  Place,            \* Place[x]: the hosts that store row x
  Users,            \* roles
  Admin,            \* the role the backup daemon logs in as
  Skipped,          \* Admin and "cassandra"
  Unhashed,         \* roles without a salted_hash
  Token,            \* Token[u]: the place of role u in what a query returns
  CloneRole,        \* CloneRole[k][u]: u with DbMap[k] for each k in its name
  InitialClusters,  \* what a cluster may hold when the backup is requested
  None,             \* absent
  MaxFaults,        \* bound on commands that fail
  MaxRestores,      \* bound on restores
  MaxWrites         \* bound on what clients write

Sources == {Dbs[i] : i \in 1..Len(Dbs)}
Keyspaces == Sources \cup {DbMap[k] : k \in Sources}

Cluster == [keyspaces : SUBSET Keyspaces,
            tables : SUBSET (Keyspaces \X Tables),
            rows : SUBSET (Keyspaces \X Tables \X Rows),
            grants : SUBSET (Keyspaces \X Users),
            tableGrants : SUBSET (Keyspaces \X Tables \X Users)]
\* Rows are rows of a table.
Consistent(cluster) == \A x \in cluster.rows : <<x[1], x[2]>> \in cluster.tables
Nothing == [keyspaces |-> {}, tables |-> {}, rows |-> {}, grants |-> {}, tableGrants |-> {}]

ASSUME BackupAssumption ==
  /\ Dbs \in Seq(Sources) /\ Len(Dbs) > 0
  /\ \A k \in Sources : DbMap[k] \notin Sources
  /\ \A k, l \in Sources : DbMap[k] = DbMap[l] => k = l
  /\ Hosts # {} /\ Place \in [Rows -> (SUBSET Hosts) \ {{}}]
  /\ InitialClusters \subseteq {c \in Cluster : Consistent(c)}
  /\ None \notin Hosts \cup Tables
  /\ Admin \in Skipped /\ Skipped \subseteq Users /\ Unhashed \subseteq Users
  /\ Token \in [Users -> Nat] /\ \A u, v \in Users : Token[u] = Token[v] => u = v
  /\ CloneRole \in [Sources -> [Users -> Users]]
  /\ {MaxFaults, MaxRestores, MaxWrites} \subseteq Nat

VARIABLES
  live,    \* the Cassandra cluster
  sel,     \* the tables named by the backup request, {} for whole keyspaces
  hpc,     \* hpc[h]: the next command of the backup on host h
  hpos,    \* hpos[h]: the keyspace it is at, an index of Dbs
  local,   \* local[h]: snapshots and archives on host h
  vault,   \* vault[h]: the archives host h delivered
  rs,      \* the running or last restore
  faults, restores, writes,  \* what has been used of the bounds
  start,   \* history: the cluster when the backup started
  before,  \* history: the cluster when the restore started
  since    \* history: tables and rows clients wrote since the restore started

backupVars == <<sel, hpc, hpos, local, vault, start>>
vars == <<live, backupVars, rs, faults, restores, writes, before, since>>

Restore == [pc : {"idle", "keyspace", "archive", "dropKeyspace", "createKeyspace",
                  "dropAll", "roles", "table", "dropTable", "createTable", "load",
                  "finished", "failed"},
            clone : BOOLEAN,         \* a dbmap was given
            roles : BOOLEAN,         \* need_restore_roles
            pos : 1..(Len(Dbs) + 1), \* position in Dbs
            todo : SUBSET Hosts,     \* archives of the keyspace still to handle
            from : Hosts \cup {None},
            dropped : BOOLEAN,       \* keyspace_dropped
            tables : SUBSET Tables,  \* tables still to handle
            table : Tables \cup {None}]

TypeOK ==
  /\ {live, start, before, since} \subseteq Cluster
  /\ sel \subseteq Tables
  /\ hpc \in [Hosts -> {"idle", "snapshot", "archive", "clear", "copy", "done", "failed"}]
  /\ hpos \in [Hosts -> 1..Len(Dbs)]
  /\ local \in [Hosts -> Cluster] /\ vault \in [Hosts -> Cluster]
  /\ rs \in Restore
  /\ faults \in 0..MaxFaults /\ restores \in 0..MaxRestores /\ writes \in 0..MaxWrites

Init ==
  /\ live \in InitialClusters
  /\ sel = {}
  /\ hpc = [h \in Hosts |-> "idle"]
  /\ hpos = [h \in Hosts |-> 1]
  /\ local = [h \in Hosts |-> Nothing]
  /\ vault = [h \in Hosts |-> Nothing]
  /\ rs = [pc |-> "idle", clone |-> FALSE, roles |-> FALSE, pos |-> 1, todo |-> {},
           from |-> None, dropped |-> FALSE, tables |-> {}, table |-> None]
  /\ faults = 0 /\ restores = 0 /\ writes = 0
  /\ start = Nothing /\ before = Nothing /\ since = Nothing

TablesIn(cluster, k) == {t \in Tables : <<k, t>> \in cluster.tables}
-----------------------------------------------------------------------------
(* The backup: cluster_backup starts the same script on all hosts.         *)

ClusterBackup(tables) ==
  /\ \A h \in Hosts : hpc[h] = "idle"
  /\ sel' = tables
  /\ hpc' = [h \in Hosts |-> "snapshot"]
  /\ start' = live
  /\ UNCHANGED <<live, hpos, local, vault, rs, faults, restores, writes, before, since>>

HostMoves(h, step) == hpc' = [hpc EXCEPT ![h] = step]

\* nodetool snapshot, for the keyspace or for each of the requested tables.
ExecuteSnapshot(h) ==
  LET k == Dbs[hpos[h]]
      wanted == IF sel = {} THEN Tables ELSE sel
  IN  /\ hpc[h] = "snapshot"
      /\ k \in live.keyspaces /\ sel \subseteq TablesIn(live, k)
      /\ local' = [local EXCEPT ![h] =
           [local[h] EXCEPT
              !.tables = @ \cup {x \in live.tables : x[1] = k /\ x[2] \in wanted},
              !.rows = @ \cup {x \in live.rows : /\ x[1] = k /\ x[2] \in wanted
                                                 /\ h \in Place[x[3]]}]]
      /\ HostMoves(h, "archive")
      /\ UNCHANGED <<live, sel, hpos, vault, start, rs, faults, restores, writes, before,
                     since>>

(***************************************************************************)
(* backup_roles saves nothing of a keyspace on which one role alone holds  *)
(* permissions, passes over the administrators' roles and gives up at a    *)
(* role without a password hash. Permissions on tables are not read.       *)
(***************************************************************************)
SavedRoles(k) ==
  LET roles == {u \in Users : <<k, u>> \in live.grants}
  IN  {u \in roles \ Skipped :
         /\ roles # {u}
         /\ \A v \in roles \ Skipped : Token[v] <= Token[u] => v \notin Unhashed}

\* backup_roles, whose answer is not looked at, backup_keyspace_schema, make_archive.
MakeArchive(h) ==
  LET k == Dbs[hpos[h]]
  IN  /\ hpc[h] = "archive"
      /\ local' = [local EXCEPT ![h] =
           [local[h] EXCEPT !.keyspaces = @ \cup {k},
                            !.grants = @ \cup ({k} \X SavedRoles(k))]]
      /\ HostMoves(h, "clear")
      /\ UNCHANGED <<live, sel, hpos, vault, start, rs, faults, restores, writes, before,
                     since>>

\* Mutant: the loop runs once too often.
DeleteSnapshotPastEnd(h) ==
  /\ hpc[h] = "clear"
  /\ IF hpos[h] <= Len(Dbs)
       THEN HostMoves(h, "snapshot") /\ hpos' = [hpos EXCEPT ![h] = @ + 1]
       ELSE HostMoves(h, "copy") /\ UNCHANGED hpos
  /\ UNCHANGED <<live, sel, local, vault, start, rs, faults, restores, writes, before,
                 since>>

\* nodetool clearsnapshot, then the next keyspace, or metadata.json.
DeleteSnapshot(h) ==
  /\ hpc[h] = "clear"
  /\ IF hpos[h] < Len(Dbs)
       THEN HostMoves(h, "snapshot") /\ hpos' = [hpos EXCEPT ![h] = @ + 1]
       ELSE HostMoves(h, "copy") /\ UNCHANGED hpos
  /\ UNCHANGED <<live, sel, local, vault, start, rs, faults, restores, writes, before,
                 since>>

\* The playbook fetches the archives and cleans the host.
CopyToVault(h) ==
  /\ hpc[h] = "copy"
  /\ vault' = [vault EXCEPT ![h] = local[h]]
  /\ local' = [local EXCEPT ![h] = Nothing]
  /\ HostMoves(h, "done")
  /\ UNCHANGED <<live, sel, hpos, start, rs, faults, restores, writes, before, since>>

\* A command fails: the host is cleaned all the same. What it may have delivered in
\* part is of no use, because the whole backup has failed.
HostFails(h) ==
  /\ hpc[h] \in {"snapshot", "archive", "clear", "copy"}
  /\ \/ faults < MaxFaults /\ faults' = faults + 1
     \/ /\ hpc[h] = "snapshot" /\ UNCHANGED faults
        /\ ~(Dbs[hpos[h]] \in live.keyspaces /\ sel \subseteq TablesIn(live, Dbs[hpos[h]]))
  /\ local' = [local EXCEPT ![h] = Nothing]
  /\ HostMoves(h, "failed")
  /\ UNCHANGED <<live, sel, hpos, vault, start, rs, restores, writes, before, since>>

\* Mutant: one host is enough.
BackupSucceededOnce == \E h \in Hosts : hpc[h] = "done"

\* The playbook, and with it the backup, succeeds if it does on every host.
BackupSucceeded == \A h \in Hosts : hpc[h] = "done"
-----------------------------------------------------------------------------
(* The restore.                                                            *)

Ended == {"idle", "finished", "failed"}
Source == Dbs[rs.pos]
Target == IF rs.clone THEN DbMap[Source] ELSE Source
AllTables == sel = {}     \* all_tables of metadata.json

Restores(step, newlive, newrs) ==
  /\ rs.pc = step
  /\ live' = newlive
  /\ rs' = newrs
  /\ UNCHANGED <<backupVars, faults, restores, writes, before, since>>

StartRestore(clone, roles) ==
  /\ BackupSucceeded
  /\ rs.pc \in Ended
  /\ restores < MaxRestores
  /\ restores' = restores + 1
  /\ rs' = [pc |-> "keyspace", clone |-> clone, roles |-> roles, pos |-> 1, todo |-> {},
            from |-> None, dropped |-> FALSE, tables |-> {}, table |-> None]
  /\ before' = live
  /\ since' = Nothing
  /\ UNCHANGED <<live, backupVars, faults, writes>>

\* The next keyspace and its archives on all hosts; without any it is an error.
OpenKeyspace ==
  LET backups == {h \in Hosts : Source \in vault[h].keyspaces}
  IN  Restores("keyspace", live,
        IF rs.pos > Len(Dbs) THEN [rs EXCEPT !.pc = "finished"]
        ELSE [rs EXCEPT !.pc = IF backups = {} THEN "failed" ELSE "archive",
                        !.todo = backups, !.dropped = FALSE])

\* Mutant: the keyspace is dropped whether or not its roles are restored.
OpenArchiveDropsAlways ==
  \E h \in rs.todo :
    Restores("archive", live,
      [rs EXCEPT !.todo = @ \ {h}, !.from = h,
                 !.pc = CASE rs.clone -> "createKeyspace"
                          [] ~rs.clone /\ rs.dropped -> "roles"
                          [] ~rs.clone /\ ~rs.dropped /\ AllTables -> "dropKeyspace"
                          [] OTHER -> "createKeyspace",
                 !.dropped = @ \/ (~rs.clone /\ AllTables)])

(***************************************************************************)
(* The next archive, in the order the directory is listed. Without dbmap,  *)
(* a whole keyspace is marked as dropped at its first archive - and really *)
(* dropped only when its roles are restored too.                           *)
(***************************************************************************)
OpenArchive ==
  \E h \in rs.todo :
    Restores("archive", live,
      [rs EXCEPT !.todo = @ \ {h}, !.from = h,
                 !.pc = CASE rs.clone -> "createKeyspace"
                          [] ~rs.clone /\ rs.dropped -> "roles"
                          [] ~rs.clone /\ ~rs.dropped /\ AllTables /\ rs.roles -> "dropKeyspace"
                          [] OTHER -> "createKeyspace",
                 !.dropped = @ \/ (~rs.clone /\ AllTables)])

KeyspaceDone ==
  /\ rs.todo = {}
  /\ Restores("archive", live, [rs EXCEPT !.pc = "keyspace", !.pos = @ + 1])

\* Permissions on a table go with it.
Without(cluster, k, tables) ==
  [cluster EXCEPT !.tables = @ \ ({k} \X tables), !.rows = @ \ ({k} \X tables \X Rows),
                  !.tableGrants = @ \ ({k} \X tables \X Users)]

DropKeyspace ==
  Restores("dropKeyspace",
    [Without(live, Source, Tables) EXCEPT !.keyspaces = @ \ {Source},
                                          !.grants = @ \ ({Source} \X Users)],
    [rs EXCEPT !.pc = "createKeyspace"])

\* CREATE KEYSPACE IF NOT EXISTS from tsschema.cql, renamed for a clone. Whoever creates
\* a keyspace has all permissions on it.
CreateKeyspace ==
  Restores("createKeyspace",
    [live EXCEPT !.keyspaces = @ \cup {Target},
                 !.grants = IF Target \in live.keyspaces THEN @ ELSE @ \cup {<<Target, Admin>>}],
    IF rs.clone /\ ~rs.dropped /\ ~rs.roles
      THEN [rs EXCEPT !.pc = "dropAll", !.tables = TablesIn(live, Target)]
      ELSE [rs EXCEPT !.pc = "roles"])

\* Mutant: the clone is not marked as emptied.
DropAllTablesAgain ==
  \/ \E t \in rs.tables :
       Restores("dropAll", Without(live, Target, {t}), [rs EXCEPT !.tables = @ \ {t}])
  \/ /\ rs.tables = {}
     /\ Restores("dropAll", live, [rs EXCEPT !.pc = "roles"])

\* drop_all_tables: the tables listed before, one after another.
DropAllTables ==
  \/ \E t \in rs.tables :
       Restores("dropAll", Without(live, Target, {t}), [rs EXCEPT !.tables = @ \ {t}])
  \/ /\ rs.tables = {}
     /\ Restores("dropAll", live, [rs EXCEPT !.pc = "roles", !.dropped = TRUE])

\* What the role files grant. For a clone its name is substituted for that of the
\* keyspace all over the file, in the role's name too.
SavedGrants ==
  {<<Target, IF rs.clone THEN CloneRole[Source][x[2]] ELSE x[2]>> :
     x \in {y \in vault[rs.from].grants : y[1] = Source}}

\* restore_roles, then the list of the tables in the archive.
RestoreRoles ==
  Restores("roles",
    [live EXCEPT !.grants = IF rs.roles THEN @ \cup SavedGrants ELSE @],
    [rs EXCEPT !.pc = "table", !.tables = TablesIn(vault[rs.from], Source)])

RestoreKeyspace ==
  \/ \E t \in rs.tables :
       Restores("table", live,
         [rs EXCEPT !.tables = @ \ {t}, !.table = t,
                    !.pc = IF rs.clone THEN "createTable" ELSE "dropTable"])
  \/ /\ rs.tables = {}
     /\ Restores("table", live, [rs EXCEPT !.pc = "archive"])

\* Mutant: the table is not dropped.
DropTableNot == Restores("dropTable", live, [rs EXCEPT !.pc = "createTable"])

DropTable ==
  Restores("dropTable", Without(live, Target, {rs.table}), [rs EXCEPT !.pc = "createTable"])

\* CREATE TABLE IF NOT EXISTS from schema.cql.
CreateTable ==
  Restores("createTable",
    [live EXCEPT !.tables = @ \cup {<<Target, rs.table>>}], [rs EXCEPT !.pc = "load"])

SavedRows ==
  {<<Target, rs.table, x[3]>> :
     x \in {y \in vault[rs.from].rows : y[1] = Source /\ y[2] = rs.table}}

SstableLoader ==
  Restores("load", [live EXCEPT !.rows = @ \cup SavedRows], [rs EXCEPT !.pc = "table"])

\* An exception ends the restore; the roles and the rows may be there in part.
RestoreFails ==
  /\ rs.pc \notin Ended
  /\ faults < MaxFaults
  /\ faults' = faults + 1
  /\ rs' = [rs EXCEPT !.pc = "failed"]
  /\ \E r \in SUBSET (IF rs.pc = "load" THEN SavedRows ELSE {}),
        g \in SUBSET (IF rs.pc = "roles" /\ rs.roles THEN SavedGrants ELSE {}) :
       live' = [live EXCEPT !.rows = @ \cup r, !.grants = @ \cup g]
  /\ UNCHANGED <<backupVars, restores, writes, before, since>>
-----------------------------------------------------------------------------
(* Clients.                                                                *)

ClientWrites(k, t, x) ==
  /\ writes < MaxWrites
  /\ <<k, t>> \in live.tables /\ <<k, t, x>> \notin live.rows
  /\ writes' = writes + 1
  /\ live' = [live EXCEPT !.rows = @ \cup {<<k, t, x>>}]
  /\ since' = [since EXCEPT !.rows = @ \cup {<<k, t, x>>}]
  /\ UNCHANGED <<backupVars, rs, faults, restores, before>>

ClientCreatesTable(k, t) ==
  /\ writes < MaxWrites
  /\ k \in live.keyspaces /\ <<k, t>> \notin live.tables
  /\ writes' = writes + 1
  /\ live' = [live EXCEPT !.tables = @ \cup {<<k, t>>}]
  /\ since' = [since EXCEPT !.tables = @ \cup {<<k, t>>}]
  /\ UNCHANGED <<backupVars, rs, faults, restores, before>>

Next ==
  \/ \E tables \in SUBSET Tables : ClusterBackup(tables)
  \/ \E h \in Hosts : \/ ExecuteSnapshot(h) \/ MakeArchive(h) \/ DeleteSnapshot(h)
                      \/ CopyToVault(h) \/ HostFails(h)
  \/ \E clone, roles \in BOOLEAN : StartRestore(clone, roles)
  \/ OpenKeyspace \/ OpenArchive \/ KeyspaceDone
  \/ DropKeyspace \/ CreateKeyspace \/ DropAllTables \/ RestoreRoles
  \/ RestoreKeyspace \/ DropTable \/ CreateTable \/ SstableLoader
  \/ RestoreFails
  \/ \E k \in Keyspaces, t \in Tables, x \in Rows : ClientWrites(k, t, x)
  \/ \E k \in Keyspaces, t \in Tables : ClientCreatesTable(k, t)

Spec == Init /\ [][Next]_vars
-----------------------------------------------------------------------------
Archived(k, t) == {x \in Rows : \E h \in Hosts : <<k, t, x>> \in vault[h].rows}
ArchivedTables(k) == UNION {TablesIn(vault[h], k) : h \in Hosts}
RowsIn(cluster, k, t) == {x \in Rows : <<k, t, x>> \in cluster.rows}

(***************************************************************************)
(* A backup that is reported as successful holds, between its hosts, every *)
(* requested row that was there when it was requested, although the hosts  *)
(* take their snapshots at different times, one keyspace after another,    *)
(* and clients go on writing. Each host has all the roles that held        *)
(* permissions on a keyspace, the administrators' aside, if there were     *)
(* two roles and each of them has a password hash; BackupHoldsRoles says   *)
(* what happens otherwise.                                                 *)
(***************************************************************************)
BackupHoldsCluster ==
  BackupSucceeded =>
    \A k \in Sources :
      LET roles == {u \in Users : <<k, u>> \in start.grants}
      IN  /\ \A h \in Hosts : k \in vault[h].keyspaces
          /\ \A t \in (IF AllTables THEN Tables ELSE sel) :
               RowsIn(start, k, t) \subseteq Archived(k, t)
          /\ roles \cap Unhashed \subseteq Skipped =>
               \A u \in roles \ Skipped, h \in Hosts :
                 roles # {u} => <<k, u>> \in vault[h].grants

(***************************************************************************)
(* A finished clone holds everything the hosts archived - the archive of a *)
(* later host takes nothing away from that of an earlier one - and, when   *)
(* it was restored without roles, nothing else but what clients wrote      *)
(* meanwhile: neither what the clone held before nor the remains of a      *)
(* restore that failed. The source is as it was.                           *)
(***************************************************************************)
CloneHoldsBackup ==
  rs.pc = "finished" /\ rs.clone =>
    \A k \in Sources, t \in Tables :
      LET c == DbMap[k]
      IN  /\ Archived(k, t) \subseteq RowsIn(live, c, t)
          /\ ~rs.roles =>
               RowsIn(live, c, t) \subseteq Archived(k, t) \cup RowsIn(since, c, t)
          /\ RowsIn(before, k, t) \subseteq RowsIn(live, k, t)
          /\ <<k, t>> \in before.tables => <<k, t>> \in live.tables

(***************************************************************************)
(* A finished restore has taken every archived table back to the archive   *)
(* of some host: nothing written between the backup and the restore is     *)
(* left in it. A table that was not archived is gone if the keyspace was   *)
(* dropped, and untouched otherwise - also when only some tables were      *)
(* backed up, and after restores that failed half way.                     *)
(***************************************************************************)
RestoreReverts ==
  rs.pc = "finished" /\ ~rs.clone =>
    \A k \in Sources, t \in Tables :
      IF t \in ArchivedTables(k)
        THEN /\ RowsIn(live, k, t) \subseteq Archived(k, t) \cup RowsIn(since, k, t)
             /\ \E h \in Hosts : /\ t \in TablesIn(vault[h], k)
                                 /\ RowsIn(vault[h], k, t) \subseteq RowsIn(live, k, t)
        ELSE IF AllTables /\ rs.roles
          THEN /\ <<k, t>> \in live.tables => <<k, t>> \in since.tables
               /\ RowsIn(live, k, t) \subseteq RowsIn(since, k, t)
          ELSE /\ <<k, t>> \in before.tables => <<k, t>> \in live.tables
               /\ RowsIn(before, k, t) \subseteq RowsIn(live, k, t)

(***************************************************************************)
(* What a restore drops, and permissions are revoked with it: the whole    *)
(* keyspace; the archived tables; the tables of a clone without roles.     *)
(***************************************************************************)
KeyspaceDropped(k) == k \in Sources /\ ~rs.clone /\ AllTables /\ rs.roles
TableDropped(k, t) ==
  \/ KeyspaceDropped(k)
  \/ k \in Sources /\ ~rs.clone /\ t \in ArchivedTables(k)
  \/ k \notin Sources /\ rs.clone /\ ~rs.roles

(***************************************************************************)
(* Permissions over a restore, and over those that failed before it. With  *)
(* roles, whoever is in an archive of a keyspace has his permissions on it *)
(* at the end, although dropping the keyspace revoked them; on a clone it  *)
(* is the role of the rewritten name that has them, which is his own only  *)
(* when it does not contain the keyspace's name. Apart from that nobody    *)
(* loses a permission, on a keyspace or on a table, but with a keyspace or *)
(* table the restore drops: a clone leaves the source's alone.             *)
(***************************************************************************)
GrantsKept ==
  rs.pc = "finished" =>
    /\ rs.roles => \A k \in Sources, u \in Users :
         (\E h \in Hosts : <<k, u>> \in vault[h].grants) =>
           IF rs.clone THEN <<DbMap[k], CloneRole[k][u]>> \in live.grants
                       ELSE <<k, u>> \in live.grants
    /\ \A k \in Keyspaces, u \in Users :
         <<k, u>> \in before.grants /\ ~KeyspaceDropped(k) => <<k, u>> \in live.grants
    /\ \A k \in Keyspaces, t \in Tables, u \in Users :
         <<k, t, u>> \in before.tableGrants /\ ~TableDropped(k, t) =>
           <<k, t, u>> \in live.tableGrants

(***************************************************************************)
(* "Backup for keyspace ... is successful": what is reported as saved has  *)
(* the permissions of every role, not those before the first one without a *)
(* password hash, and not none when there is one role.                     *)
(***************************************************************************)
BackupHoldsRoles ==
  BackupSucceeded =>
    \A k \in Sources, u \in Users \ Skipped, h \in Hosts :
      <<k, u>> \in start.grants => <<k, u>> \in vault[h].grants

(***************************************************************************)
(* "find keyspace backups on all hosts": a restore that finished has       *)
(* restored what all hosts archived.                                       *)
(***************************************************************************)
RestoreComplete ==
  rs.pc = "finished" /\ ~rs.clone =>
    \A k \in Sources, t \in Tables : Archived(k, t) \subseteq RowsIn(live, k, t)
=============================================================================
