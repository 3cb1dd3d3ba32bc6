---------------------------- MODULE DbaasAdapter ----------------------------
(***************************************************************************)
(* The DBaaS adapter (services/dbaas-adapter): HTTP requests that create   *)
(* and drop databases and users, served concurrently by one process, each  *)
(* as a sequence of CQL statements. Nothing is locked and nothing is       *)
(* transactional: between two statements of a request any statement of     *)
(* another one may run, every statement may fail - also after it took      *)
(* effect, when the time-out is the client's - and the process may die.    *)
(*                                                                         *)
(* A request stands for the values it carries: r is the password of the    *)
(* users, the content of the rows and the owner of the keyspace that       *)
(* request r writes.                                                       *)
(***************************************************************************)
EXTENDS Naturals, Sequences

CONSTANTS
  Reqs,            \* requests
  Dbs,             \* database names
  Users,           \* user names that requests carry
  Fold,            \* Fold[u]: u in lower case, what an unquoted u means in CQL
  SupportedRoles,  \* GetSupportedRoles(): <<"admin">>, or more with multi-users
  Ops,             \* the kinds of requests that arrive
  None,            \* absent
  MaxFaults        \* bound on statements that fail for no reason of their own
                   \* and deaths of the adapter process, together

AllOps == {"create", "createUser", "createRoles", "drop", "updateMetadata",
           "getMetadata", "updateSettings"}

\* generateUserName and "dbaas_" + generateUUID: a name nobody else has.
Generated == Reqs \X (1..Len(SupportedRoles))
AllUsers == Users \cup Generated

\* known: roleToPermissions has an entry for the role in the request. It has one for
\* every supported role, and for "admin", which stands for an empty one.
Request == [op : AllOps, db : Dbs \cup {None}, user : AllUsers \cup {None}, known : BOOLEAN]
Lower(u) == IF u \in Users THEN Fold[u] ELSE u

ASSUME AdapterAssumption ==
  /\ Ops \subseteq AllOps
  /\ None \notin Reqs \cup Dbs \cup AllUsers /\ None \notin Request
  /\ Users \cap Generated = {}
  /\ Fold \in [Users -> Users]
  /\ SupportedRoles \in Seq(STRING)
  /\ Len(SupportedRoles) > 0 /\ SupportedRoles[1] = "admin"
  /\ \A i \in 2..Len(SupportedRoles) : SupportedRoles[i] # "admin"
  /\ MaxFaults \in Nat

VARIABLES
  db,       \* the database: a record, see DbType
  args,     \* args[r]: the request r, None before it arrives
  pc,       \* the statement r is about to run, or how r ended
  idx,      \* position of r in SupportedRoles
  leak,     \* history: a statement of r's rollback failed
  reply,    \* history: what r, a GetMetadata, answered ("returned") and what it
            \* should have ("stored")
  earlier,  \* history: the requests that had ended when r, which is to create a
            \* database or a user, arrived
  faults    \* how much of MaxFaults has been used

vars == <<db, args, pc, idx, leak, reply, earlier, faults>>

DbType ==
  [owner : [Dbs -> Reqs \cup {None}],        \* keyspaces
   table : SUBSET Dbs,                       \* keyspaces with a metadata table
   metadata : [Dbs -> Reqs \cup {None}],     \* row "metadata" of that table
   replication : [Dbs -> Reqs \cup {None}],  \* row "replication"
   roles : [AllUsers -> Reqs \cup {None}],   \* passwords
   grants : SUBSET (Dbs \X AllUsers)]

Ended == {"done", "failed", "gone"}
Steps == {"idle", "keyspace", "table", "metadata", "replication", "role", "grant",
          "dropKeyspace", "dropRole", "listRoles", "listPermissions", "alter",
          "userRole", "userGrant", "dropDb", "dropUser", "update", "select",
          "ensure", "upsert"} \cup Ended

TypeOK ==
  /\ db \in DbType
  /\ args \in [Reqs -> Request \cup {None}]
  /\ pc \in [Reqs -> Steps]
  /\ idx \in [Reqs -> 1..Len(SupportedRoles)]
  /\ leak \in [Reqs -> BOOLEAN]
  /\ reply \in [Reqs -> [returned : Reqs \cup {None}, stored : Reqs \cup {None}]]
  /\ earlier \in [Reqs -> SUBSET Reqs]
  /\ faults \in Nat

Init ==
  /\ db = [owner |-> [d \in Dbs |-> None], table |-> {},
           metadata |-> [d \in Dbs |-> None], replication |-> [d \in Dbs |-> None],
           roles |-> [u \in AllUsers |-> None], grants |-> {}]
  /\ args = [r \in Reqs |-> None]
  /\ pc = [r \in Reqs |-> "idle"]
  /\ idx = [r \in Reqs |-> 1]
  /\ leak = [r \in Reqs |-> FALSE]
  /\ reply = [r \in Reqs |-> [returned |-> None, stored |-> None]]
  /\ earlier = [r \in Reqs |-> {}]
  /\ faults = 0
-----------------------------------------------------------------------------
(* CQL statements, as functions on the database.                           *)

KeyspaceExists(d) == d \in Dbs /\ db.owner[d] # None
TableExists(d) == d \in db.table

\* A dropped keyspace takes its tables and the permissions on it with it.
DropKeyspace(d) ==
  [db EXCEPT !.owner[d] = None, !.table = @ \ {d}, !.metadata[d] = None,
             !.replication[d] = None, !.grants = {g \in @ : g[1] # d}]

\* "drop role if exists name": the name is not quoted, so it is folded.
DropRole(u) ==
  [db EXCEPT !.roles[Lower(u)] = None, !.grants = {g \in @ : g[2] # Lower(u)}]

\* "CREATE ROLE IF NOT EXISTS 'name'": quoted, and an existing role is kept.
CreateRole(u, r) ==
  [db EXCEPT !.roles[u] = IF @ = None THEN r ELSE @]

(***************************************************************************)
(* Request r runs a statement. It succeeds and turns the database into     *)
(* newdb; or it is refused, or fails, with or without having taken effect. *)
(***************************************************************************)
Goto(r, step) == pc' = [pc EXCEPT ![r] = step]

Exec(r, allowed, newdb, next, error) ==
  \/ allowed /\ db' = newdb /\ Goto(r, next) /\ UNCHANGED faults
  \/ ~allowed /\ UNCHANGED db /\ Goto(r, error) /\ UNCHANGED faults
  \/ /\ faults < MaxFaults
     /\ faults' = faults + 1
     /\ UNCHANGED db \/ (allowed /\ db' = newdb)
     /\ Goto(r, error)
-----------------------------------------------------------------------------
(* Arrival of a request.                                                   *)

FirstStep(op) ==
  CASE op = "create" -> "keyspace"
    [] op \in {"createUser", "createRoles"} -> "listRoles"
    [] op = "drop" -> "dropDb"
    [] op = "updateMetadata" -> "update"
    [] op = "getMetadata" -> "select"
    [] op = "updateSettings" -> "ensure"

Arrive(r, a, start) ==
  /\ pc[r] = "idle"
  /\ a.op \in Ops
  /\ args' = [args EXCEPT ![r] = a]
  /\ idx' = [idx EXCEPT ![r] = start]
  /\ Goto(r, FirstStep(a.op))
  /\ earlier' = [earlier EXCEPT ![r] =
       {q \in Reqs : pc[q] \in Ended /\ a.op \in {"create", "createUser"}}]
  /\ UNCHANGED <<db, leak, reply, faults>>

\* The inputs of each kind of request. CreateUser may leave out the database and ask
\* for any role; one without a user name is a CreateRoles for the last role.
\* CreateRoles is told which roles the database has already.
Requests ==
  {[op |-> o, db |-> d, user |-> u, known |-> TRUE] :
     o \in {"create", "drop"}, d \in Dbs, u \in Users}
    \cup {[op |-> "createUser", db |-> d, user |-> u, known |-> b] :
            d \in Dbs \cup {None}, u \in Users, b \in BOOLEAN}
    \cup {[op |-> o, db |-> d, user |-> None, known |-> TRUE] :
            o \in {"createRoles", "updateMetadata", "getMetadata", "updateSettings"},
            d \in Dbs}

StartIndices(a) == IF a.op = "createRoles" THEN 1..Len(SupportedRoles) ELSE {1}
-----------------------------------------------------------------------------
(* CreateDatabase. A panic runs the deferred rollback.                     *)

DbOf(r) == args[r].db

CreateKeyspace(r) ==
  /\ pc[r] = "keyspace"
  /\ Exec(r, ~KeyspaceExists(DbOf(r)), [db EXCEPT !.owner[DbOf(r)] = r],
          "table", "dropKeyspace")
  /\ UNCHANGED <<args, idx, leak, reply, earlier>>

\* Mutant: an error of CREATE TABLE ends the request without the panic.
CreateTableNoPanic(r) ==
  /\ pc[r] = "table"
  /\ Exec(r, KeyspaceExists(DbOf(r)), [db EXCEPT !.table = @ \cup {DbOf(r)}],
          "metadata", "failed")
  /\ UNCHANGED <<args, idx, leak, reply, earlier>>

CreateTable(r) ==
  /\ pc[r] = "table"
  /\ Exec(r, KeyspaceExists(DbOf(r)), [db EXCEPT !.table = @ \cup {DbOf(r)}],
          "metadata", "dropKeyspace")
  /\ UNCHANGED <<args, idx, leak, reply, earlier>>

InsertMetadata(r) ==
  /\ pc[r] = "metadata"
  /\ Exec(r, TableExists(DbOf(r)), [db EXCEPT !.metadata[DbOf(r)] = r],
          "replication", "dropKeyspace")
  /\ UNCHANGED <<args, idx, leak, reply, earlier>>

InsertReplication(r) ==
  /\ pc[r] = "replication"
  /\ Exec(r, TableExists(DbOf(r)), [db EXCEPT !.replication[DbOf(r)] = r],
          "role", "dropKeyspace")
  /\ UNCHANGED <<args, idx, leak, reply, earlier>>

\* The admin role has the requested name, the others get generated ones.
RoleUser(r) ==
  IF args[r].op = "createUser" \/ (args[r].op = "create" /\ SupportedRoles[idx[r]] = "admin")
    THEN args[r].user
    ELSE <<r, idx[r]>>

CreateRoleForDb(r) ==
  /\ pc[r] = "role"
  /\ Exec(r, TRUE, CreateRole(RoleUser(r), r), "grant", "dropKeyspace")
  /\ UNCHANGED <<args, idx, leak, reply, earlier>>

\* Mutant: the loop over the supported roles runs once too often.
GrantingPastEnd(r, again, error) ==
  LET u == RoleUser(r)
      last == args[r].op = "createUser" \/ idx[r] > Len(SupportedRoles)
  IN  /\ Exec(r, KeyspaceExists(DbOf(r)) /\ db.roles[u] # None,
              [db EXCEPT !.grants = @ \cup {<<DbOf(r), u>>}],
              IF last THEN "done" ELSE again, error)
      /\ idx' = [idx EXCEPT ![r] = IF last \/ pc'[r] = error THEN @ ELSE @ + 1]

\* GrantPermissions, then the next supported role: the statements for the
\* permissions of one role count as one.
Granting(r, again, error) ==
  LET u == RoleUser(r)
      last == args[r].op = "createUser" \/ idx[r] = Len(SupportedRoles)
  IN  /\ Exec(r, KeyspaceExists(DbOf(r)) /\ db.roles[u] # None,
              [db EXCEPT !.grants = @ \cup {<<DbOf(r), u>>}],
              IF last THEN "done" ELSE again, error)
      /\ idx' = [idx EXCEPT ![r] = IF last \/ pc'[r] = error THEN @ ELSE @ + 1]

\* Mutant: the error of GrantPermissions is not looked at.
GrantPermissionsIgnored(r) ==
  /\ pc[r] = "grant"
  /\ Granting(r, "role", "done")
  /\ UNCHANGED <<args, leak, reply, earlier>>

GrantPermissions(r) ==
  /\ pc[r] = "grant"
  /\ Granting(r, "role", "dropKeyspace")
  /\ UNCHANGED <<args, leak, reply, earlier>>

\* The rollback; a drop that fails only adds to the error message.
RollbackKeyspace(r) ==
  /\ pc[r] = "dropKeyspace"
  /\ Exec(r, TRUE, DropKeyspace(DbOf(r)), "dropRole", "dropRole")
  /\ leak' = [leak EXCEPT ![r] = faults' # faults]
  /\ UNCHANGED <<args, idx, reply, earlier>>

RollbackRole(r) ==
  /\ pc[r] = "dropRole"
  /\ Exec(r, TRUE, DropRole(args[r].user), "failed", "failed")
  /\ leak' = [leak EXCEPT ![r] = @ \/ faults' # faults]
  /\ UNCHANGED <<args, idx, reply, earlier>>
-----------------------------------------------------------------------------
(* CreateUser, and CreateRoles as a CreateUser for every missing role: the *)
(* user is looked up first and then either altered or created.             *)

\* Mutant: an existing role is not looked for.
ListRolesNot(r) ==
  /\ pc[r] = "listRoles"
  /\ Exec(r, TRUE, db, "userRole", "failed")
  /\ UNCHANGED <<args, idx, leak, reply, earlier>>

ListRoles(r) ==
  /\ pc[r] = "listRoles"
  /\ Exec(r, TRUE, db,
          CASE db.roles[RoleUser(r)] = None -> "userRole"
            [] db.roles[RoleUser(r)] # None /\ DbOf(r) = None -> "alter"
            [] OTHER -> "listPermissions", "failed")
  /\ UNCHANGED <<args, idx, leak, reply, earlier>>

ListPermissions(r) ==
  /\ pc[r] = "listPermissions"
  /\ Exec(r, KeyspaceExists(DbOf(r)), db,
          IF <<DbOf(r), RoleUser(r)>> \in db.grants THEN "alter" ELSE "failed", "failed")
  /\ UNCHANGED <<args, idx, leak, reply, earlier>>

AlterRole(r) ==
  /\ pc[r] = "alter"
  /\ Exec(r, db.roles[RoleUser(r)] # None, [db EXCEPT !.roles[RoleUser(r)] = r],
          "done", "failed")
  /\ UNCHANGED <<args, idx, leak, reply, earlier>>

CreateUserRole(r) ==
  /\ pc[r] = "userRole"
  /\ Exec(r, TRUE, CreateRole(RoleUser(r), r), "userGrant", "failed")
  /\ UNCHANGED <<args, idx, leak, reply, earlier>>

\* An unsupported role is logged and has no permissions: nothing is granted, and that
\* is a success.
GrantUser(r) ==
  /\ pc[r] = "userGrant"
  /\ \/ args[r].known /\ Granting(r, "listRoles", "failed")
     \/ ~args[r].known /\ Goto(r, "done") /\ UNCHANGED <<db, idx, faults>>
  /\ UNCHANGED <<args, leak, reply, earlier>>
-----------------------------------------------------------------------------
(* DropResources for a database and its user: one status per resource.     *)

DropDb(r) ==
  /\ pc[r] = "dropDb"
  /\ Exec(r, TRUE, DropKeyspace(DbOf(r)), "dropUser", "dropUser")
  /\ UNCHANGED <<args, idx, leak, reply, earlier>>

DropUser(r) ==
  /\ pc[r] = "dropUser"
  /\ Exec(r, TRUE, DropRole(args[r].user), "done", "done")
  /\ UNCHANGED <<args, idx, leak, reply, earlier>>

(***************************************************************************)
(* The metadata table. GetMetadata reads the first row of the table, which *)
(* is "replication" if there is one: its token is the lower one. The value *)
(* of that row is a CQL map, which is not JSON, so that nothing is         *)
(* returned.                                                               *)
(***************************************************************************)
UpdateMetadata(r) ==
  /\ pc[r] = "update"
  /\ Exec(r, TableExists(DbOf(r)), [db EXCEPT !.metadata[DbOf(r)] = r], "done", "failed")
  /\ UNCHANGED <<args, idx, leak, reply, earlier>>

FirstRow(d) == IF db.replication[d] # None THEN None ELSE db.metadata[d]

GetMetadata(r) ==
  /\ pc[r] = "select"
  /\ Exec(r, TableExists(DbOf(r)), db, "done", "done")
  /\ reply' = [reply EXCEPT ![r] =
       [returned |-> IF faults' = faults THEN FirstRow(DbOf(r)) ELSE None,
        stored |-> db.metadata[DbOf(r)]]]
  /\ UNCHANGED <<args, idx, leak, earlier>>

(***************************************************************************)
(* UpdateCassandraSettingsHandler: an error of EnsureMetadataTable is put  *)
(* into the response, which the handler's last line overwrites; an error   *)
(* of the upsert panics.                                                   *)
(***************************************************************************)
EnsureMetadataTable(r) ==
  /\ pc[r] = "ensure"
  /\ Exec(r, KeyspaceExists(DbOf(r)), [db EXCEPT !.table = @ \cup {DbOf(r)}],
          "upsert", "done")
  /\ UNCHANGED <<args, idx, leak, reply, earlier>>

UpsertMetadataSetting(r) ==
  /\ pc[r] = "upsert"
  /\ Exec(r, TableExists(DbOf(r)), [db EXCEPT !.replication[DbOf(r)] = r],
          "done", "failed")
  /\ UNCHANGED <<args, idx, leak, reply, earlier>>

\* The process dies: its requests are never answered, nothing is rolled back.
Crash ==
  /\ faults < MaxFaults
  /\ faults' = faults + 1
  /\ pc' = [r \in Reqs |-> IF pc[r] \in {"idle"} \cup Ended THEN pc[r] ELSE "gone"]
  /\ UNCHANGED <<db, args, idx, leak, reply, earlier>>

Step(r) ==
  \/ CreateKeyspace(r) \/ CreateTable(r) \/ InsertMetadata(r) \/ InsertReplication(r)
  \/ CreateRoleForDb(r) \/ GrantPermissions(r)
  \/ RollbackKeyspace(r) \/ RollbackRole(r)
  \/ ListRoles(r) \/ ListPermissions(r) \/ AlterRole(r)
  \/ CreateUserRole(r) \/ GrantUser(r)
  \/ DropDb(r) \/ DropUser(r)
  \/ UpdateMetadata(r) \/ GetMetadata(r)
  \/ EnsureMetadataTable(r) \/ UpsertMetadataSetting(r)

Next ==
  \/ \E r \in Reqs : \/ \E a \in Requests : \E i \in StartIndices(a) : Arrive(r, a, i)
                     \/ Step(r)
  \/ Crash

Spec == Init /\ [][Next]_vars
-----------------------------------------------------------------------------
(***************************************************************************)
(* A CreateDatabase that failed and whose rollback went through has left   *)
(* neither its keyspace nor a user with its password, wherever it failed   *)
(* and whatever other requests did in the meantime. The users generated    *)
(* for the other supported roles are not part of it - the rollback does    *)
(* not know them - nor are names that folding changes.                     *)
(***************************************************************************)
RollbackLeavesNothing ==
  \A r \in Reqs :
    args[r] # None /\ args[r].op = "create" /\ pc[r] = "failed" /\ ~leak[r] =>
      /\ \A d \in Dbs : db.owner[d] # r
      /\ Lower(args[r].user) = args[r].user => db.roles[args[r].user] # r

(***************************************************************************)
(* A database that CreateDatabase returned stays usable: the keyspace, its *)
(* two metadata rows, the user with the returned password and the user's   *)
(* permission are there, whatever failed before, fails meanwhile or later,  *)
(* and whatever requests for other databases and users, or for this one's  *)
(* metadata and additional roles, do. Excluded are requests that create or *)
(* drop the same database or drop its user and had not ended when this one *)
(* arrived, and any other request that creates or alters the same user.    *)
(***************************************************************************)
Interferes(q, r) ==
  /\ args[q] # None
  /\ \/ /\ q \notin earlier[r]
        /\ args[q].op \in {"create", "drop"}
        /\ args[q].db = args[r].db \/ Lower(args[q].user) = args[r].user
     \/ args[q].op \in {"create", "createUser"} /\ args[q].user = args[r].user

DatabaseUsable ==
  \A r \in Reqs :
    /\ args[r] # None /\ args[r].op = "create" /\ pc[r] = "done"
    /\ \A q \in Reqs \ {r} : ~Interferes(q, r)
    =>
      LET d == args[r].db
          u == args[r].user
      IN  /\ db.owner[d] = r
          /\ db.metadata[d] # None /\ db.replication[d] # None
          /\ db.roles[u] = r
          /\ <<d, u>> \in db.grants

(***************************************************************************)
(* The user a CreateUser returned can log in with the returned password    *)
(* and, if the role was one with permissions, has a permission on the      *)
(* requested keyspace, whether it was created or existed before, and       *)
(* whatever earlier requests did to it, failed or died over. Excluded are  *)
(* requests that create, alter or drop the user, or drop the database, and *)
(* had not ended when this one arrived: between LIST ROLES and the         *)
(* statement chosen after it nothing is locked. A user that is created for *)
(* a role the adapter does not know is returned too, without a permission. *)
(***************************************************************************)
Races(q, r) ==
  /\ args[q] # None
  /\ q \notin earlier[r]
  /\ \/ args[q].op \in {"create", "createUser"} /\ args[q].user = args[r].user
     \/ /\ args[q].op = "drop" \/ (args[q].op = "create" /\ pc[q] # "done")
        /\ Lower(args[q].user) = args[r].user \/ args[q].db = args[r].db

UserUsable ==
  \A r \in Reqs :
    /\ args[r] # None /\ args[r].op = "createUser" /\ pc[r] = "done"
    /\ \A q \in Reqs \ {r} : ~Races(q, r)
    =>
      /\ db.roles[args[r].user] = r
      /\ args[r].db # None /\ args[r].known => <<args[r].db, args[r].user>> \in db.grants

(***************************************************************************)
(* The rollback drops "created resources": a database that was returned to *)
(* a client, and that nobody asked to drop, is still that client's.        *)
(***************************************************************************)
CreatedDatabaseKept ==
  \A r \in Reqs :
    /\ args[r] # None /\ args[r].op = "create" /\ pc[r] = "done"
    /\ \A q \in Reqs : args[q] # None /\ args[q].op = "drop" => args[q].db # args[r].db
    => db.owner[args[r].db] = r

(***************************************************************************)
(* GetMetadata returns the metadata the database has; "can't get metadata" *)
(* is said only when there is none.                                        *)
(***************************************************************************)
MetadataReturned ==
  \A r \in Reqs :
    args[r] # None /\ args[r].op = "getMetadata" /\ pc[r] = "done" =>
      reply[r].returned = reply[r].stored
=============================================================================
