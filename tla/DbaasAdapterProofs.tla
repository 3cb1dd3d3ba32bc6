------------------------- MODULE DbaasAdapterProofs -------------------------
(***************************************************************************)
(* Theorems about DbaasAdapter for any number of concurrent requests, any  *)
(* databases, users and supported roles, and any number of faults: type    *)
(* correctness, that a rollback that goes through leaves nothing, and that *)
(* databases and users that were returned can be used.                     *)
(***************************************************************************)
EXTENDS DbaasAdapter, TLAPS

(***************************************************************************)
(* The statements a request of each kind can be at. TypeOK needs it: that  *)
(* the database of a GRANT or a SELECT is one, and not absent, depends on  *)
(* the kind of request that runs the statement.                            *)
(***************************************************************************)
StepsOf ==
  [create |-> {"keyspace", "table", "metadata", "replication", "role", "grant",
               "dropKeyspace", "dropRole"},
   createUser |-> {"listRoles", "listPermissions", "alter", "userRole", "userGrant"},
   createRoles |-> {"listRoles", "listPermissions", "alter", "userRole", "userGrant"},
   drop |-> {"dropDb", "dropUser"},
   updateMetadata |-> {"update"},
   getMetadata |-> {"select"},
   updateSettings |-> {"ensure", "upsert"}]

StepInv ==
  \A r \in Reqs :
    pc[r] # "idle" => /\ args[r] \in Requests
                      /\ pc[r] \in StepsOf[args[r].op] \cup Ended

TypeInv == TypeOK /\ StepInv
-----------------------------------------------------------------------------
\* What the inputs of each kind look like.
LEMMA RequestFacts ==
  ASSUME NEW a \in Requests
  PROVE  /\ a \in Request
         /\ a.op # "createUser" => a.db \in Dbs
         /\ a.op \in {"create", "createUser", "drop"} => a.user \in Users
<1> DEFINE named == {[op |-> o, db |-> d, user |-> u, known |-> TRUE] :
                       o \in {"create", "drop"}, d \in Dbs, u \in Users}
           created == {[op |-> "createUser", db |-> d, user |-> u, known |-> b] :
                         d \in Dbs \cup {None}, u \in Users, b \in BOOLEAN}
           others == {[op |-> o, db |-> d, user |-> None, known |-> TRUE] :
                        o \in {"createRoles", "updateMetadata", "getMetadata",
                               "updateSettings"}, d \in Dbs}
<1>1. a \in named \/ a \in created \/ a \in others
  BY DEF Requests
<1>2. CASE a \in named
  <2> PICK o \in {"create", "drop"}, d \in Dbs, u \in Users :
             a = [op |-> o, db |-> d, user |-> u, known |-> TRUE]
    BY <1>2
  <2> QED BY DEF Request, AllOps, AllUsers
<1>3. CASE a \in created
  <2> PICK d \in Dbs \cup {None}, u \in Users, b \in BOOLEAN :
             a = [op |-> "createUser", db |-> d, user |-> u, known |-> b]
    BY <1>3
  <2> QED BY DEF Request, AllOps, AllUsers
<1>4. CASE a \in others
  <2> PICK o \in {"createRoles", "updateMetadata", "getMetadata", "updateSettings"},
           d \in Dbs :
             a = [op |-> o, db |-> d, user |-> None, known |-> TRUE]
    BY <1>4
  <2> QED BY DEF Request, AllOps, AllUsers
<1> QED BY <1>1, <1>2, <1>3, <1>4

\* A running request is known, and at a statement of its kind.
LEMMA RunningFacts ==
  ASSUME TypeInv, NEW r \in Reqs, pc[r] # "idle"
  PROVE  /\ args[r] \in Requests /\ args[r] \in Request
         /\ args[r].op # "createUser" => args[r].db \in Dbs
         /\ args[r].op \in {"create", "createUser", "drop"} => args[r].user \in Users
         /\ pc[r] \in StepsOf[args[r].op] \cup Ended
  BY RequestFacts DEF TypeInv, StepInv

\* The user a request creates has a name the database can hold.
LEMMA RoleUserType ==
  ASSUME TypeInv, NEW r \in Reqs, pc[r] # "idle"
  PROVE  args[r].op \in {"create", "createUser", "createRoles"} => RoleUser(r) \in AllUsers
  BY RunningFacts DEF RoleUser, AllUsers, Generated, TypeInv, TypeOK

\* The supported roles can be counted, and there is one.
LEMMA RolesCount == Len(SupportedRoles) \in Nat /\ 1 \in 1..Len(SupportedRoles)
  BY AdapterAssumption

\* Every statement turns a database into a database: first DROP KEYSPACE.
LEMMA DropKeyspaceType ==
  ASSUME db \in DbType, NEW d
  PROVE  DropKeyspace(d) \in DbType
  BY DEF DbType, DropKeyspace

\* DROP ROLE removes a role and its permissions and nothing else.
LEMMA DropRoleType ==
  ASSUME db \in DbType, NEW v
  PROVE  DropRole(v) \in DbType
  BY DEF DbType, DropRole

\* CREATE ROLE writes a password of a request.
LEMMA CreateRoleType ==
  ASSUME db \in DbType, NEW v, NEW r \in Reqs
  PROVE  CreateRole(v, r) \in DbType
  BY DEF DbType, CreateRole

\* CREATE KEYSPACE, the INSERTs, ALTER ROLE, CREATE TABLE and GRANT.
LEMMA InsertType ==
  ASSUME db \in DbType, NEW d, NEW v, NEW r \in Reqs
  PROVE  /\ [db EXCEPT !.owner[d] = r] \in DbType
         /\ [db EXCEPT !.metadata[d] = r] \in DbType
         /\ [db EXCEPT !.replication[d] = r] \in DbType
         /\ [db EXCEPT !.roles[v] = r] \in DbType
         /\ d \in Dbs => [db EXCEPT !.table = @ \cup {d}] \in DbType
         /\ d \in Dbs /\ v \in AllUsers =>
              [db EXCEPT !.grants = @ \cup {<<d, v>>}] \in DbType
<1>1. [db EXCEPT !.owner[d] = r] \in DbType
  BY DEF DbType
<1>2. [db EXCEPT !.metadata[d] = r] \in DbType
  BY DEF DbType
<1>3. [db EXCEPT !.replication[d] = r] \in DbType
  BY DEF DbType
<1>4. [db EXCEPT !.roles[v] = r] \in DbType
  BY DEF DbType
<1>5. ASSUME d \in Dbs PROVE [db EXCEPT !.table = @ \cup {d}] \in DbType
  BY <1>5 DEF DbType
<1>6. ASSUME d \in Dbs, v \in AllUsers
      PROVE  [db EXCEPT !.grants = @ \cup {<<d, v>>}] \in DbType
  BY <1>6 DEF DbType
<1> QED BY <1>1, <1>2, <1>3, <1>4, <1>5, <1>6

\* Moving on within the statements of its kind keeps a request where it belongs.
LEMMA MoveKeepsSteps ==
  ASSUME TypeInv, NEW r \in Reqs, pc[r] # "idle", NEW x,
         x \in StepsOf[args[r].op] \cup Ended, Goto(r, x), UNCHANGED args
  PROVE  StepInv' /\ pc' \in [Reqs -> Steps]
<1>1. args[r].op \in AllOps
  BY RunningFacts DEF Request
<1>2. x \in Steps
  BY <1>1 DEF StepsOf, AllOps, Steps
<1>3. pc' \in [Reqs -> Steps] /\ \A q \in Reqs : pc'[q] = IF q = r THEN x ELSE pc[q]
  BY <1>2 DEF TypeInv, TypeOK, Goto
<1>4. args[r] \in Requests
  BY RunningFacts
<1> QED BY <1>3, <1>4 DEF TypeInv, StepInv

\* The kind of a request follows from the statement it is at.
LEMMA KindOfStep ==
  ASSUME TypeInv, NEW r \in Reqs
  PROVE  /\ pc[r] \in StepsOf.create => args[r].op = "create"
         /\ pc[r] \in StepsOf.createUser => args[r].op \in {"createUser", "createRoles"}
         /\ pc[r] \in StepsOf.drop => args[r].op = "drop"
         /\ pc[r] = "update" => args[r].op = "updateMetadata"
         /\ pc[r] = "select" => args[r].op = "getMetadata"
         /\ pc[r] \in StepsOf.updateSettings => args[r].op = "updateSettings"
<1>1. CASE pc[r] = "idle"
  BY <1>1 DEF StepsOf
<1>2. CASE pc[r] # "idle"
  <2>1. args[r].op \in AllOps /\ pc[r] \in StepsOf[args[r].op] \cup Ended
    BY <1>2, RunningFacts DEF Request
  <2> QED BY <2>1 DEF StepsOf, AllOps, Ended
<1> QED BY <1>1, <1>2

(***************************************************************************)
(* A statement that turns the database into a database, in a request that  *)
(* moves on within its kind, keeps the type invariant.                     *)
(***************************************************************************)
LEMMA ExecKeepsType ==
  ASSUME TypeInv, NEW r \in Reqs, pc[r] # "idle",
         NEW allowed, NEW newdb, NEW next, NEW error,
         Exec(r, allowed, newdb, next, error),
         allowed => newdb \in DbType,
         {next, error} \subseteq StepsOf[args[r].op] \cup Ended,
         UNCHANGED <<args, earlier>>,
         idx' \in [Reqs -> 1..Len(SupportedRoles)],
         leak' \in [Reqs -> BOOLEAN],
         reply' \in [Reqs -> [returned : Reqs \cup {None}, stored : Reqs \cup {None}]]
  PROVE  TypeInv'
<1>1. db' \in DbType /\ faults' \in Nat /\ \E x \in {next, error} : Goto(r, x)
  BY DEF Exec, TypeInv, TypeOK
<1>2. StepInv' /\ pc' \in [Reqs -> Steps]
  BY <1>1, MoveKeepsSteps
<1>3. args' \in [Reqs -> Request \cup {None}] /\ earlier' \in [Reqs -> SUBSET Reqs]
  BY DEF TypeInv, TypeOK
<1> QED BY <1>1, <1>2, <1>3 DEF TypeInv, TypeOK

\* Granting moves on to the next supported role only if there is one.
LEMMA GrantingType ==
  ASSUME TypeInv, NEW r \in Reqs, pc[r] # "idle",
         args[r].op \in {"create", "createUser", "createRoles"},
         NEW again, NEW error,
         {"done", again, error} \subseteq StepsOf[args[r].op] \cup Ended,
         Granting(r, again, error), UNCHANGED <<args, leak, reply, earlier>>
  PROVE  TypeInv'
<1> DEFINE v == RoleUser(r)
           last == args[r].op = "createUser" \/ idx[r] = Len(SupportedRoles)
           next == IF last THEN "done" ELSE again
           allowed == KeyspaceExists(DbOf(r)) /\ db.roles[v] # None
           newdb == [db EXCEPT !.grants = @ \cup {<<DbOf(r), v>>}]
<1>1. Exec(r, allowed, newdb, next, error)
  BY DEF Granting
<1>2. allowed => newdb \in DbType
  BY RoleUserType, InsertType DEF KeyspaceExists, TypeInv, TypeOK
<1>3. {next, error} \subseteq StepsOf[args[r].op] \cup Ended
  OBVIOUS
<1>4. idx' \in [Reqs -> 1..Len(SupportedRoles)]
  BY RolesCount DEF Granting, TypeInv, TypeOK
<1>5. /\ leak' \in [Reqs -> BOOLEAN]
      /\ reply' \in [Reqs -> [returned : Reqs \cup {None}, stored : Reqs \cup {None}]]
  BY DEF TypeInv, TypeOK
<1> HIDE DEF allowed, newdb, next
<1> QED BY <1>1, <1>2, <1>3, <1>4, <1>5, ExecKeepsType

\* The type invariant is kept by every statement of a request.
LEMMA StepType ==
  ASSUME TypeInv, NEW r \in Reqs, Step(r)
  PROVE  TypeInv'
<1> DEFINE OwnType == /\ idx' \in [Reqs -> 1..Len(SupportedRoles)]
                      /\ leak' \in [Reqs -> BOOLEAN]
                      /\ reply' \in [Reqs -> [returned : Reqs \cup {None},
                                              stored : Reqs \cup {None}]]
<1>1. CASE CreateKeyspace(r)
  <2>1. args[r].op \in {"create"} /\ pc[r] # "idle"
    BY <1>1, KindOfStep DEF CreateKeyspace, StepsOf
  <2>2. [db EXCEPT !.owner[DbOf(r)] = r] \in DbType
    BY InsertType DEF TypeInv, TypeOK
  <2>3. {"table", "dropKeyspace"} \subseteq StepsOf[args[r].op] \cup Ended
    BY <2>1 DEF StepsOf, Ended
  <2>4. OwnType
    BY <1>1 DEF CreateKeyspace, TypeInv, TypeOK
  <2>5. /\ Exec(r, ~KeyspaceExists(DbOf(r)), [db EXCEPT !.owner[DbOf(r)] = r], "table", "dropKeyspace")
        /\ UNCHANGED <<args, earlier>>
    BY <1>1 DEF CreateKeyspace
  <2> QED BY <2>1, <2>2, <2>3, <2>4, <2>5, ExecKeepsType
<1>2. CASE CreateTable(r)
  <2>1. args[r].op \in {"create"} /\ pc[r] # "idle"
    BY <1>2, KindOfStep DEF CreateTable, StepsOf
  <2>2. KeyspaceExists(DbOf(r)) => [db EXCEPT !.table = @ \cup {DbOf(r)}] \in DbType
    BY InsertType DEF TypeInv, TypeOK, KeyspaceExists
  <2>3. {"metadata", "dropKeyspace"} \subseteq StepsOf[args[r].op] \cup Ended
    BY <2>1 DEF StepsOf, Ended
  <2>4. OwnType
    BY <1>2 DEF CreateTable, TypeInv, TypeOK
  <2>5. /\ Exec(r, KeyspaceExists(DbOf(r)), [db EXCEPT !.table = @ \cup {DbOf(r)}], "metadata", "dropKeyspace")
        /\ UNCHANGED <<args, earlier>>
    BY <1>2 DEF CreateTable
  <2> QED BY <2>1, <2>2, <2>3, <2>4, <2>5, ExecKeepsType
<1>3. CASE InsertMetadata(r)
  <2>1. args[r].op \in {"create"} /\ pc[r] # "idle"
    BY <1>3, KindOfStep DEF InsertMetadata, StepsOf
  <2>2. [db EXCEPT !.metadata[DbOf(r)] = r] \in DbType
    BY InsertType DEF TypeInv, TypeOK
  <2>3. {"replication", "dropKeyspace"} \subseteq StepsOf[args[r].op] \cup Ended
    BY <2>1 DEF StepsOf, Ended
  <2>4. OwnType
    BY <1>3 DEF InsertMetadata, TypeInv, TypeOK
  <2>5. /\ Exec(r, TableExists(DbOf(r)), [db EXCEPT !.metadata[DbOf(r)] = r], "replication", "dropKeyspace")
        /\ UNCHANGED <<args, earlier>>
    BY <1>3 DEF InsertMetadata
  <2> QED BY <2>1, <2>2, <2>3, <2>4, <2>5, ExecKeepsType
<1>4. CASE InsertReplication(r)
  <2>1. args[r].op \in {"create"} /\ pc[r] # "idle"
    BY <1>4, KindOfStep DEF InsertReplication, StepsOf
  <2>2. [db EXCEPT !.replication[DbOf(r)] = r] \in DbType
    BY InsertType DEF TypeInv, TypeOK
  <2>3. {"role", "dropKeyspace"} \subseteq StepsOf[args[r].op] \cup Ended
    BY <2>1 DEF StepsOf, Ended
  <2>4. OwnType
    BY <1>4 DEF InsertReplication, TypeInv, TypeOK
  <2>5. /\ Exec(r, TableExists(DbOf(r)), [db EXCEPT !.replication[DbOf(r)] = r], "role", "dropKeyspace")
        /\ UNCHANGED <<args, earlier>>
    BY <1>4 DEF InsertReplication
  <2> QED BY <2>1, <2>2, <2>3, <2>4, <2>5, ExecKeepsType
<1>5. CASE CreateRoleForDb(r)
  <2>1. args[r].op \in {"create"} /\ pc[r] # "idle"
    BY <1>5, KindOfStep DEF CreateRoleForDb, StepsOf
  <2>2. CreateRole(RoleUser(r), r) \in DbType
    BY CreateRoleType DEF TypeInv, TypeOK
  <2>3. {"grant", "dropKeyspace"} \subseteq StepsOf[args[r].op] \cup Ended
    BY <2>1 DEF StepsOf, Ended
  <2>4. OwnType
    BY <1>5 DEF CreateRoleForDb, TypeInv, TypeOK
  <2>5. /\ Exec(r, TRUE, CreateRole(RoleUser(r), r), "grant", "dropKeyspace")
        /\ UNCHANGED <<args, earlier>>
    BY <1>5 DEF CreateRoleForDb
  <2> QED BY <2>1, <2>2, <2>3, <2>4, <2>5, ExecKeepsType
<1>6. CASE RollbackKeyspace(r)
  <2>1. args[r].op \in {"create"} /\ pc[r] # "idle"
    BY <1>6, KindOfStep DEF RollbackKeyspace, StepsOf
  <2>2. DropKeyspace(DbOf(r)) \in DbType
    BY DropKeyspaceType DEF TypeInv, TypeOK
  <2>3. {"dropRole", "dropRole"} \subseteq StepsOf[args[r].op] \cup Ended
    BY <2>1 DEF StepsOf, Ended
  <2>4. OwnType
    BY <1>6 DEF RollbackKeyspace, TypeInv, TypeOK
  <2>5. /\ Exec(r, TRUE, DropKeyspace(DbOf(r)), "dropRole", "dropRole")
        /\ UNCHANGED <<args, earlier>>
    BY <1>6 DEF RollbackKeyspace
  <2> QED BY <2>1, <2>2, <2>3, <2>4, <2>5, ExecKeepsType
<1>7. CASE RollbackRole(r)
  <2>1. args[r].op \in {"create"} /\ pc[r] # "idle"
    BY <1>7, KindOfStep DEF RollbackRole, StepsOf
  <2>2. DropRole(args[r].user) \in DbType
    BY DropRoleType DEF TypeInv, TypeOK
  <2>3. {"failed", "failed"} \subseteq StepsOf[args[r].op] \cup Ended
    BY <2>1 DEF StepsOf, Ended
  <2>4. OwnType
    BY <1>7 DEF RollbackRole, TypeInv, TypeOK
  <2>5. /\ Exec(r, TRUE, DropRole(args[r].user), "failed", "failed")
        /\ UNCHANGED <<args, earlier>>
    BY <1>7 DEF RollbackRole
  <2> QED BY <2>1, <2>2, <2>3, <2>4, <2>5, ExecKeepsType
<1>8. CASE AlterRole(r)
  <2>1. args[r].op \in {"createUser", "createRoles"} /\ pc[r] # "idle"
    BY <1>8, KindOfStep DEF AlterRole, StepsOf
  <2>2. [db EXCEPT !.roles[RoleUser(r)] = r] \in DbType
    BY InsertType DEF TypeInv, TypeOK
  <2>3. {"done", "failed"} \subseteq StepsOf[args[r].op] \cup Ended
    BY <2>1 DEF StepsOf, Ended
  <2>4. OwnType
    BY <1>8 DEF AlterRole, TypeInv, TypeOK
  <2>5. /\ Exec(r, db.roles[RoleUser(r)] # None, [db EXCEPT !.roles[RoleUser(r)] = r], "done", "failed")
        /\ UNCHANGED <<args, earlier>>
    BY <1>8 DEF AlterRole
  <2> QED BY <2>1, <2>2, <2>3, <2>4, <2>5, ExecKeepsType
<1>9. CASE CreateUserRole(r)
  <2>1. args[r].op \in {"createUser", "createRoles"} /\ pc[r] # "idle"
    BY <1>9, KindOfStep DEF CreateUserRole, StepsOf
  <2>2. CreateRole(RoleUser(r), r) \in DbType
    BY CreateRoleType DEF TypeInv, TypeOK
  <2>3. {"userGrant", "failed"} \subseteq StepsOf[args[r].op] \cup Ended
    BY <2>1 DEF StepsOf, Ended
  <2>4. OwnType
    BY <1>9 DEF CreateUserRole, TypeInv, TypeOK
  <2>5. /\ Exec(r, TRUE, CreateRole(RoleUser(r), r), "userGrant", "failed")
        /\ UNCHANGED <<args, earlier>>
    BY <1>9 DEF CreateUserRole
  <2> QED BY <2>1, <2>2, <2>3, <2>4, <2>5, ExecKeepsType
<1>10. CASE DropDb(r)
  <2>1. args[r].op \in {"drop"} /\ pc[r] # "idle"
    BY <1>10, KindOfStep DEF DropDb, StepsOf
  <2>2. DropKeyspace(DbOf(r)) \in DbType
    BY DropKeyspaceType DEF TypeInv, TypeOK
  <2>3. {"dropUser", "dropUser"} \subseteq StepsOf[args[r].op] \cup Ended
    BY <2>1 DEF StepsOf, Ended
  <2>4. OwnType
    BY <1>10 DEF DropDb, TypeInv, TypeOK
  <2>5. /\ Exec(r, TRUE, DropKeyspace(DbOf(r)), "dropUser", "dropUser")
        /\ UNCHANGED <<args, earlier>>
    BY <1>10 DEF DropDb
  <2> QED BY <2>1, <2>2, <2>3, <2>4, <2>5, ExecKeepsType
<1>11. CASE DropUser(r)
  <2>1. args[r].op \in {"drop"} /\ pc[r] # "idle"
    BY <1>11, KindOfStep DEF DropUser, StepsOf
  <2>2. DropRole(args[r].user) \in DbType
    BY DropRoleType DEF TypeInv, TypeOK
  <2>3. {"done", "done"} \subseteq StepsOf[args[r].op] \cup Ended
    BY <2>1 DEF StepsOf, Ended
  <2>4. OwnType
    BY <1>11 DEF DropUser, TypeInv, TypeOK
  <2>5. /\ Exec(r, TRUE, DropRole(args[r].user), "done", "done")
        /\ UNCHANGED <<args, earlier>>
    BY <1>11 DEF DropUser
  <2> QED BY <2>1, <2>2, <2>3, <2>4, <2>5, ExecKeepsType
<1>12. CASE UpdateMetadata(r)
  <2>1. args[r].op \in {"updateMetadata"} /\ pc[r] # "idle"
    BY <1>12, KindOfStep DEF UpdateMetadata, StepsOf
  <2>2. [db EXCEPT !.metadata[DbOf(r)] = r] \in DbType
    BY InsertType DEF TypeInv, TypeOK
  <2>3. {"done", "failed"} \subseteq StepsOf[args[r].op] \cup Ended
    BY <2>1 DEF StepsOf, Ended
  <2>4. OwnType
    BY <1>12 DEF UpdateMetadata, TypeInv, TypeOK
  <2>5. /\ Exec(r, TableExists(DbOf(r)), [db EXCEPT !.metadata[DbOf(r)] = r], "done", "failed")
        /\ UNCHANGED <<args, earlier>>
    BY <1>12 DEF UpdateMetadata
  <2> QED BY <2>1, <2>2, <2>3, <2>4, <2>5, ExecKeepsType
<1>13. CASE EnsureMetadataTable(r)
  <2>1. args[r].op \in {"updateSettings"} /\ pc[r] # "idle"
    BY <1>13, KindOfStep DEF EnsureMetadataTable, StepsOf
  <2>2. KeyspaceExists(DbOf(r)) => [db EXCEPT !.table = @ \cup {DbOf(r)}] \in DbType
    BY InsertType DEF TypeInv, TypeOK, KeyspaceExists
  <2>3. {"upsert", "done"} \subseteq StepsOf[args[r].op] \cup Ended
    BY <2>1 DEF StepsOf, Ended
  <2>4. OwnType
    BY <1>13 DEF EnsureMetadataTable, TypeInv, TypeOK
  <2>5. /\ Exec(r, KeyspaceExists(DbOf(r)), [db EXCEPT !.table = @ \cup {DbOf(r)}], "upsert", "done")
        /\ UNCHANGED <<args, earlier>>
    BY <1>13 DEF EnsureMetadataTable
  <2> QED BY <2>1, <2>2, <2>3, <2>4, <2>5, ExecKeepsType
<1>14. CASE ListRoles(r)
  <2> DEFINE next == CASE db.roles[RoleUser(r)] = None -> "userRole"
                       [] db.roles[RoleUser(r)] # None /\ DbOf(r) = None -> "alter"
                       [] OTHER -> "listPermissions"
  <2>1. args[r].op \in {"createUser", "createRoles"} /\ pc[r] # "idle"
    BY <1>14, KindOfStep DEF ListRoles, StepsOf
  <2>2. next \in {"userRole", "alter", "listPermissions"}
    OBVIOUS
  <2>3. {next, "failed"} \subseteq StepsOf[args[r].op] \cup Ended
    BY <2>1, <2>2 DEF StepsOf, Ended
  <2>4. OwnType /\ db \in DbType
    BY <1>14 DEF ListRoles, TypeInv, TypeOK
  <2>5. /\ Exec(r, TRUE, db, next, "failed")
        /\ UNCHANGED <<args, earlier>>
    BY <1>14 DEF ListRoles
  <2> HIDE DEF next
  <2> QED BY <2>1, <2>3, <2>4, <2>5, ExecKeepsType
<1>15. CASE ListPermissions(r)
  <2> DEFINE next == IF <<DbOf(r), RoleUser(r)>> \in db.grants THEN "alter" ELSE "failed"
  <2>1. args[r].op \in {"createUser", "createRoles"} /\ pc[r] # "idle"
    BY <1>15, KindOfStep DEF ListPermissions, StepsOf
  <2>3. {next, "failed"} \subseteq StepsOf[args[r].op] \cup Ended
    BY <2>1 DEF StepsOf, Ended
  <2>4. OwnType /\ db \in DbType
    BY <1>15 DEF ListPermissions, TypeInv, TypeOK
  <2>5. /\ Exec(r, KeyspaceExists(DbOf(r)), db, next, "failed")
        /\ UNCHANGED <<args, earlier>>
    BY <1>15 DEF ListPermissions
  <2> HIDE DEF next
  <2> QED BY <2>1, <2>3, <2>4, <2>5, ExecKeepsType
<1>16. CASE GrantPermissions(r)
  <2>1. args[r].op = "create" /\ pc[r] # "idle"
    BY <1>16, KindOfStep DEF GrantPermissions, StepsOf
  <2>2. {"done", "role", "dropKeyspace"} \subseteq StepsOf[args[r].op] \cup Ended
    BY <2>1 DEF StepsOf, Ended
  <2> QED BY <1>16, <2>1, <2>2, GrantingType DEF GrantPermissions
<1>17. CASE GrantUser(r)
  <2>1. args[r].op \in {"createUser", "createRoles"} /\ pc[r] # "idle"
    BY <1>17, KindOfStep DEF GrantUser, StepsOf
  <2>2. {"done", "listRoles", "failed"} \subseteq StepsOf[args[r].op] \cup Ended
    BY <2>1 DEF StepsOf, Ended
  <2>3. CASE args[r].known
    BY <1>17, <2>1, <2>2, <2>3, GrantingType DEF GrantUser
  <2>4. CASE ~args[r].known
    <3>1. Goto(r, "done") /\ UNCHANGED <<db, args, idx, leak, reply, earlier, faults>>
      BY <1>17, <2>4 DEF GrantUser
    <3>2. StepInv' /\ pc' \in [Reqs -> Steps]
      BY <2>1, <2>2, <3>1, MoveKeepsSteps
    <3> QED BY <3>1, <3>2 DEF TypeInv, TypeOK
  <2> QED BY <2>3, <2>4
<1>18. CASE GetMetadata(r)
  <2>1. args[r].op = "getMetadata" /\ pc[r] # "idle"
    BY <1>18, KindOfStep DEF GetMetadata
  <2>2. DbOf(r) \in Dbs
    BY <2>1, RunningFacts DEF DbOf
  <2>3. {"done"} \subseteq StepsOf[args[r].op] \cup Ended
    BY DEF Ended
  <2>4. db.metadata[DbOf(r)] \in Reqs \cup {None} /\ FirstRow(DbOf(r)) \in Reqs \cup {None}
    BY <2>2 DEF TypeInv, TypeOK, DbType, FirstRow
  <2>5. OwnType /\ db \in DbType
    BY <1>18, <2>4 DEF GetMetadata, TypeInv, TypeOK
  <2>6. Exec(r, TableExists(DbOf(r)), db, "done", "done") /\ UNCHANGED <<args, earlier>>
    BY <1>18 DEF GetMetadata
  <2> QED BY <2>1, <2>3, <2>5, <2>6, ExecKeepsType
<1>19. CASE UpsertMetadataSetting(r)
  <2>1. args[r].op \in {"updateSettings"} /\ pc[r] # "idle"
    BY <1>19, KindOfStep DEF UpsertMetadataSetting, StepsOf
  <2>2. [db EXCEPT !.replication[DbOf(r)] = r] \in DbType
    BY InsertType DEF TypeInv, TypeOK
  <2>3. {"done", "failed"} \subseteq StepsOf[args[r].op] \cup Ended
    BY DEF Ended
  <2>4. OwnType
    BY <1>19 DEF UpsertMetadataSetting, TypeInv, TypeOK
  <2>5. /\ Exec(r, TableExists(DbOf(r)), [db EXCEPT !.replication[DbOf(r)] = r], "done", "failed")
        /\ UNCHANGED <<args, earlier>>
    BY <1>19 DEF UpsertMetadataSetting
  <2> QED BY <2>1, <2>2, <2>3, <2>4, <2>5, ExecKeepsType
<1> QED
  BY <1>1, <1>2, <1>3, <1>4, <1>5, <1>6, <1>7, <1>8, <1>9, <1>10, <1>11, <1>12,
     <1>13, <1>14, <1>15, <1>16, <1>17, <1>18, <1>19 DEF Step

\* A request that arrives is at the first statement of its kind.
LEMMA ArriveType ==
  ASSUME TypeInv, NEW r \in Reqs, NEW a \in Requests, NEW i \in StartIndices(a),
         Arrive(r, a, i)
  PROVE  TypeInv'
<1>1. a \in Request /\ a.op \in AllOps
  BY RequestFacts DEF Request
<1>2. FirstStep(a.op) \in StepsOf[a.op] /\ FirstStep(a.op) \in Steps
  BY <1>1 DEF AllOps, FirstStep, StepsOf, Steps
<1>3. i \in 1..Len(SupportedRoles)
  BY RolesCount DEF StartIndices
<1>4. TypeOK'
  <2>1. args' \in [Reqs -> Request \cup {None}] /\ pc' \in [Reqs -> Steps]
    BY <1>1, <1>2 DEF Arrive, Goto, TypeInv, TypeOK
  <2>2. idx' \in [Reqs -> 1..Len(SupportedRoles)]
    BY <1>3 DEF Arrive, TypeInv, TypeOK
  <2>3. earlier' \in [Reqs -> SUBSET Reqs]
    BY DEF Arrive, TypeInv, TypeOK
  <2> QED BY <2>1, <2>2, <2>3 DEF Arrive, TypeInv, TypeOK
<1>5. ASSUME NEW q \in Reqs, pc'[q] # "idle"
      PROVE  args'[q] \in Requests /\ pc'[q] \in StepsOf[args'[q].op] \cup Ended
  <2>1. CASE q = r
    BY <1>2, <2>1 DEF Arrive, Goto, TypeInv, TypeOK
  <2>2. CASE q # r
    BY <1>5, <2>2 DEF Arrive, Goto, TypeInv, TypeOK, StepInv
  <2> QED BY <2>1, <2>2
<1> QED BY <1>4, <1>5 DEF TypeInv, StepInv

\* Every request is where its kind can be, initially and after every step.
LEMMA TypeInvInductive ==
  /\ Init => TypeInv
  /\ TypeInv /\ [Next]_vars => TypeInv'
<1>1. ASSUME Init PROVE TypeInv
  <2>1. db \in DbType
    BY <1>1 DEF Init, DbType
  <2>2. idx \in [Reqs -> 1..Len(SupportedRoles)]
    BY <1>1, RolesCount DEF Init
  <2>3. TypeOK
    BY <1>1, <2>1, <2>2 DEF Init, TypeOK, Steps
  <2> QED BY <1>1, <2>3 DEF TypeInv, StepInv, Init
<1>2. ASSUME TypeInv, [Next]_vars PROVE TypeInv'
  <2>1. ASSUME NEW r \in Reqs, NEW a \in Requests, NEW i \in StartIndices(a),
               Arrive(r, a, i)
        PROVE  TypeInv'
    BY <1>2, <2>1, ArriveType
  <2>2. ASSUME NEW r \in Reqs, Step(r) PROVE TypeInv'
    BY <1>2, <2>2, StepType
  <2>3. CASE Crash
    <3>1. TypeOK'
      BY <1>2, <2>3 DEF Crash, TypeInv, TypeOK, Steps, Ended
    <3>2. \A q \in Reqs : pc'[q] # "idle" => pc[q] # "idle" /\ pc'[q] \in {pc[q], "gone"}
      BY <1>2, <2>3 DEF Crash, TypeInv, TypeOK
    <3>3. StepInv'
      BY <1>2, <2>3, <3>2 DEF Crash, TypeInv, StepInv, Ended
    <3> QED BY <3>1, <3>3 DEF TypeInv
  <2>4. CASE UNCHANGED vars
    BY <1>2, <2>4 DEF vars, TypeInv, TypeOK, StepInv
  <2> QED BY <1>2, <2>1, <2>2, <2>3, <2>4 DEF Next
<1> QED BY <1>1, <1>2

(***************************************************************************)
(* Every variable keeps its type. The loop over the supported roles never  *)
(* leaves them, and no statement names a database or a user the request    *)
(* does not have, for all requests of all kinds and wherever they fail.    *)
(***************************************************************************)
THEOREM TypeCorrect == Spec => []TypeOK
<1>1. TypeInv => TypeOK
  BY DEF TypeInv
<1> QED BY <1>1, TypeInvInductive, PTL DEF Spec
-----------------------------------------------------------------------------
(***************************************************************************)
(* Why a rollback leaves nothing. A keyspace belongs to the CreateDatabase *)
(* that made it, which made no other; a password is written by nobody but  *)
(* the request it belongs to. Once the rollback has dropped the keyspace   *)
(* (without a fault) it is gone, and once it has dropped the role, so is   *)
(* the password; the request runs no statement after that, and no other    *)
(* request can bring either back.                                          *)
(***************************************************************************)
Owned ==
  \A r \in Reqs, d \in Dbs :
    db.owner[d] = r =>
      /\ pc[r] # "idle"
      /\ args[r].op = "create" /\ args[r].db = d

KeyspaceDropped ==
  \A r \in Reqs :
    pc[r] \in {"dropRole", "failed"} /\ args[r].op = "create" /\ ~leak[r] =>
      \A d \in Dbs : db.owner[d] # r

RoleDropped ==
  \A r \in Reqs :
    /\ pc[r] = "failed" /\ args[r].op = "create" /\ ~leak[r]
    /\ Lower(args[r].user) = args[r].user
    => db.roles[args[r].user] # r

RollbackInv == TypeInv /\ Owned /\ KeyspaceDropped /\ RoleDropped

(***************************************************************************)
(* What a statement of r can do to keyspaces, passwords and other requests *)
(* and how r gets to the end of a rollback.                                *)
(***************************************************************************)
DbEffect(r) ==
  /\ \A d \in Dbs : \/ db'.owner[d] \in {db.owner[d], None}
                    \/ db'.owner[d] = r /\ pc[r] = "keyspace" /\ d = args[r].db
  /\ \A v \in AllUsers : db'.roles[v] \in {db.roles[v], None, r}

PcEffect(r) ==
  /\ UNCHANGED args
  /\ \A q \in Reqs \ {r} : pc'[q] = pc[q] /\ leak'[q] = leak[q]
  /\ pc[r] # "idle" /\ pc'[r] # "idle"
  /\ pc[r] = "keyspace" => pc'[r] \in {"table", "dropKeyspace"}
  /\ pc'[r] = "dropRole" /\ ~leak'[r] =>
       args[r].op = "create" /\ db'.owner[args[r].db] = None
  /\ pc'[r] = "failed" /\ args[r].op = "create" =>
       /\ pc[r] = "dropRole"
       /\ ~leak'[r] => ~leak[r] /\ db'.roles[Lower(args[r].user)] = None

\* Every statement has these effects and no others.
LEMMA StepEffect ==
  ASSUME TypeInv, NEW r \in Reqs, Step(r)
  PROVE  DbEffect(r) /\ PcEffect(r)
<1>a. db \in DbType /\ pc \in [Reqs -> Steps] /\ leak \in [Reqs -> BOOLEAN]
      /\ db.owner \in [Dbs -> Reqs \cup {None}] /\ db.roles \in [AllUsers -> Reqs \cup {None}]
  BY DEF TypeInv, TypeOK, DbType
<1>1. CASE CreateTable(r)
  <2>1. db' = db \/ db' = [db EXCEPT !.table = @ \cup {DbOf(r)}]
    BY <1>1 DEF CreateTable, Exec
  <2>2. db'.owner = db.owner /\ db'.roles = db.roles
    BY <2>1, <1>a DEF DbType
  <2>3. PcEffect(r)
    BY <1>1, <1>a, KindOfStep DEF CreateTable, PcEffect, StepsOf, Exec, Goto
  <2> QED BY <2>2, <2>3 DEF DbEffect
<1>2. CASE InsertMetadata(r)
  <2>1. db' = db \/ db' = [db EXCEPT !.metadata[DbOf(r)] = r]
    BY <1>2 DEF InsertMetadata, Exec
  <2>2. db'.owner = db.owner /\ db'.roles = db.roles
    BY <2>1, <1>a DEF DbType
  <2>3. PcEffect(r)
    BY <1>2, <1>a, KindOfStep DEF InsertMetadata, PcEffect, StepsOf, Exec, Goto
  <2> QED BY <2>2, <2>3 DEF DbEffect
<1>3. CASE InsertReplication(r)
  <2>1. db' = db \/ db' = [db EXCEPT !.replication[DbOf(r)] = r]
    BY <1>3 DEF InsertReplication, Exec
  <2>2. db'.owner = db.owner /\ db'.roles = db.roles
    BY <2>1, <1>a DEF DbType
  <2>3. PcEffect(r)
    BY <1>3, <1>a, KindOfStep DEF InsertReplication, PcEffect, StepsOf, Exec, Goto
  <2> QED BY <2>2, <2>3 DEF DbEffect
<1>4. CASE UpdateMetadata(r)
  <2>1. db' = db \/ db' = [db EXCEPT !.metadata[DbOf(r)] = r]
    BY <1>4 DEF UpdateMetadata, Exec
  <2>2. db'.owner = db.owner /\ db'.roles = db.roles
    BY <2>1, <1>a DEF DbType
  <2>3. PcEffect(r)
    BY <1>4, <1>a, KindOfStep DEF UpdateMetadata, PcEffect, StepsOf, Exec, Goto
  <2> QED BY <2>2, <2>3 DEF DbEffect
<1>5. CASE EnsureMetadataTable(r)
  <2>1. db' = db \/ db' = [db EXCEPT !.table = @ \cup {DbOf(r)}]
    BY <1>5 DEF EnsureMetadataTable, Exec
  <2>2. db'.owner = db.owner /\ db'.roles = db.roles
    BY <2>1, <1>a DEF DbType
  <2>3. PcEffect(r)
    BY <1>5, <1>a, KindOfStep DEF EnsureMetadataTable, PcEffect, StepsOf, Exec, Goto
  <2> QED BY <2>2, <2>3 DEF DbEffect
<1>6. CASE UpsertMetadataSetting(r)
  <2>1. db' = db \/ db' = [db EXCEPT !.replication[DbOf(r)] = r]
    BY <1>6 DEF UpsertMetadataSetting, Exec
  <2>2. db'.owner = db.owner /\ db'.roles = db.roles
    BY <2>1, <1>a DEF DbType
  <2>3. PcEffect(r)
    BY <1>6, <1>a, KindOfStep DEF UpsertMetadataSetting, PcEffect, StepsOf, Exec, Goto
  <2> QED BY <2>2, <2>3 DEF DbEffect
<1>7. CASE GetMetadata(r)
  <2>2. db'.owner = db.owner /\ db'.roles = db.roles
    BY <1>7 DEF GetMetadata, Exec
  <2>3. PcEffect(r)
    BY <1>7, <1>a, KindOfStep DEF GetMetadata, PcEffect, StepsOf, Exec, Goto
  <2> QED BY <2>2, <2>3 DEF DbEffect
<1>8. CASE ListRoles(r)
  <2>2. db'.owner = db.owner /\ db'.roles = db.roles
    BY <1>8 DEF ListRoles, Exec
  <2>3. PcEffect(r)
    BY <1>8, <1>a, KindOfStep DEF ListRoles, PcEffect, StepsOf, Exec, Goto
  <2> QED BY <2>2, <2>3 DEF DbEffect
<1>9. CASE ListPermissions(r)
  <2>2. db'.owner = db.owner /\ db'.roles = db.roles
    BY <1>9 DEF ListPermissions, Exec
  <2>3. PcEffect(r)
    BY <1>9, <1>a, KindOfStep DEF ListPermissions, PcEffect, StepsOf, Exec, Goto
  <2> QED BY <2>2, <2>3 DEF DbEffect
<1>10. CASE GrantPermissions(r)
  <2>1. db' = db \/ db' = [db EXCEPT !.grants = @ \cup {<<DbOf(r), RoleUser(r)>>}]
    BY <1>10 DEF GrantPermissions, Granting, Exec
  <2>2. db'.owner = db.owner /\ db'.roles = db.roles
    BY <2>1, <1>a DEF DbType
  <2>3. PcEffect(r)
    BY <1>10, <1>a, KindOfStep DEF GrantPermissions, Granting, PcEffect, StepsOf, Exec, Goto
  <2> QED BY <2>2, <2>3 DEF DbEffect
<1>11. CASE GrantUser(r)
  <2>1. db' = db \/ db' = [db EXCEPT !.grants = @ \cup {<<DbOf(r), RoleUser(r)>>}]
    BY <1>11 DEF GrantUser, Granting, Exec
  <2>2. db'.owner = db.owner /\ db'.roles = db.roles
    BY <2>1, <1>a DEF DbType
  <2>3. PcEffect(r)
    BY <1>11, <1>a, KindOfStep DEF GrantUser, Granting, PcEffect, StepsOf, Exec, Goto
  <2> QED BY <2>2, <2>3 DEF DbEffect
<1>12. CASE CreateKeyspace(r)
  <2>1. db' = db \/ db' = [db EXCEPT !.owner[DbOf(r)] = r]
    BY <1>12 DEF CreateKeyspace, Exec
  <2>2. DbOf(r) \in Dbs
    BY <1>12, KindOfStep, RunningFacts DEF CreateKeyspace, DbOf, StepsOf
  <2>3. /\ db'.owner = [db.owner EXCEPT ![DbOf(r)] = r] \/ db'.owner = db.owner
        /\ db'.roles = db.roles
    BY <2>1, <1>a DEF DbType
  <2>4. DbEffect(r)
    BY <1>12, <2>3, <2>2, <1>a DEF CreateKeyspace, DbEffect, DbOf
  <2>7. PcEffect(r)
    BY <1>12, <1>a, KindOfStep DEF CreateKeyspace, PcEffect, StepsOf, Exec, Goto
  <2> QED BY <2>4, <2>7
<1>13. CASE CreateRoleForDb(r)
  <2>1. db' = db \/ db' = CreateRole(RoleUser(r), r)
    BY <1>13 DEF CreateRoleForDb, Exec
  <2>3. /\ db'.roles = [db.roles EXCEPT ![RoleUser(r)] = IF @ = None THEN r ELSE @] \/ db'.roles = db.roles
        /\ db'.owner = db.owner
    BY <2>1, <1>a DEF DbType, CreateRole
  <2>4. DbEffect(r)
    BY <1>13, <2>3, <1>a DEF CreateRoleForDb, DbEffect, DbOf
  <2>7. PcEffect(r)
    BY <1>13, <1>a, KindOfStep DEF CreateRoleForDb, PcEffect, StepsOf, Exec, Goto
  <2> QED BY <2>4, <2>7
<1>14. CASE AlterRole(r)
  <2>1. db' = db \/ db' = [db EXCEPT !.roles[RoleUser(r)] = r]
    BY <1>14 DEF AlterRole, Exec
  <2>3. /\ db'.roles = [db.roles EXCEPT ![RoleUser(r)] = r] \/ db'.roles = db.roles
        /\ db'.owner = db.owner
    BY <2>1, <1>a DEF DbType
  <2>4. DbEffect(r)
    BY <1>14, <2>3, <1>a DEF AlterRole, DbEffect, DbOf
  <2>7. PcEffect(r)
    BY <1>14, <1>a, KindOfStep DEF AlterRole, PcEffect, StepsOf, Exec, Goto
  <2> QED BY <2>4, <2>7
<1>15. CASE CreateUserRole(r)
  <2>1. db' = db \/ db' = CreateRole(RoleUser(r), r)
    BY <1>15 DEF CreateUserRole, Exec
  <2>3. /\ db'.roles = [db.roles EXCEPT ![RoleUser(r)] = IF @ = None THEN r ELSE @] \/ db'.roles = db.roles
        /\ db'.owner = db.owner
    BY <2>1, <1>a DEF DbType, CreateRole
  <2>4. DbEffect(r)
    BY <1>15, <2>3, <1>a DEF CreateUserRole, DbEffect, DbOf
  <2>7. PcEffect(r)
    BY <1>15, <1>a, KindOfStep DEF CreateUserRole, PcEffect, StepsOf, Exec, Goto
  <2> QED BY <2>4, <2>7
<1>16. CASE DropDb(r)
  <2>1. db' = db \/ db' = DropKeyspace(DbOf(r))
    BY <1>16 DEF DropDb, Exec
  <2>2. DbOf(r) \in Dbs
    BY <1>16, KindOfStep, RunningFacts DEF DropDb, DbOf, StepsOf
  <2>3. /\ db'.owner = [db.owner EXCEPT ![DbOf(r)] = None] \/ db'.owner = db.owner
        /\ db'.roles = db.roles
    BY <2>1, <1>a DEF DbType, DropKeyspace
  <2>4. DbEffect(r)
    BY <1>16, <2>3, <2>2, <1>a DEF DropDb, DbEffect, DbOf
  <2>7. PcEffect(r)
    BY <1>16, <1>a, KindOfStep DEF DropDb, PcEffect, StepsOf, Exec, Goto
  <2> QED BY <2>4, <2>7
<1>17. CASE DropUser(r)
  <2>1. db' = db \/ db' = DropRole(args[r].user)
    BY <1>17 DEF DropUser, Exec
  <2>3. /\ db'.roles = [db.roles EXCEPT ![Lower(args[r].user)] = None] \/ db'.roles = db.roles
        /\ db'.owner = db.owner
    BY <2>1, <1>a DEF DbType, DropRole
  <2>4. DbEffect(r)
    BY <1>17, <2>3, <1>a DEF DropUser, DbEffect, DbOf
  <2>7. PcEffect(r)
    BY <1>17, <1>a, KindOfStep DEF DropUser, PcEffect, StepsOf, Exec, Goto
  <2> QED BY <2>4, <2>7
<1>18. CASE RollbackKeyspace(r)
  <2>1. db' = db \/ db' = DropKeyspace(DbOf(r))
    BY <1>18 DEF RollbackKeyspace, Exec
  <2>2. DbOf(r) \in Dbs
    BY <1>18, KindOfStep, RunningFacts DEF RollbackKeyspace, DbOf, StepsOf
  <2>3. /\ db'.owner = [db.owner EXCEPT ![DbOf(r)] = None] \/ db'.owner = db.owner
        /\ db'.roles = db.roles
    BY <2>1, <1>a DEF DbType, DropKeyspace
  <2>4. DbEffect(r)
    BY <1>18, <2>3, <2>2, <1>a DEF RollbackKeyspace, DbEffect, DbOf
  <2>5. ~leak'[r] => db' = DropKeyspace(DbOf(r))
    <3>1. leak'[r] <=> faults' # faults
      BY <1>18, <1>a, Zenon DEF RollbackKeyspace
    <3>2. faults' = faults => db' = DropKeyspace(DbOf(r))
      BY <1>18 DEF RollbackKeyspace, Exec, TypeInv, TypeOK
    <3> QED BY <3>1, <3>2
  <2>6. DropKeyspace(DbOf(r)).owner[args[r].db] = None
    BY <2>2, <1>a DEF DropKeyspace, DbType, DbOf
  <2>7. PcEffect(r)
    BY <1>18, <1>a, KindOfStep, <2>5, <2>6 DEF RollbackKeyspace, PcEffect, StepsOf, Exec, Goto
  <2> QED BY <2>4, <2>7
<1>19. CASE RollbackRole(r)
  <2>1. db' = db \/ db' = DropRole(args[r].user)
    BY <1>19 DEF RollbackRole, Exec
  <2>3. /\ db'.roles = [db.roles EXCEPT ![Lower(args[r].user)] = None] \/ db'.roles = db.roles
        /\ db'.owner = db.owner
    BY <2>1, <1>a DEF DbType, DropRole
  <2>4. DbEffect(r)
    BY <1>19, <2>3, <1>a DEF RollbackRole, DbEffect, DbOf
  <2>2. Lower(args[r].user) \in AllUsers
    BY <1>19, KindOfStep, RunningFacts, AdapterAssumption
       DEF RollbackRole, StepsOf, Lower, AllUsers
  <2>5. ~leak'[r] => ~leak[r] /\ db' = DropRole(args[r].user)
    <3>1. leak'[r] <=> leak[r] \/ faults' # faults
      BY <1>19, <1>a, Zenon DEF RollbackRole
    <3>2. faults' = faults => db' = DropRole(args[r].user)
      BY <1>19 DEF RollbackRole, Exec, TypeInv, TypeOK
    <3> QED BY <3>1, <3>2
  <2>6. DropRole(args[r].user).roles[Lower(args[r].user)] = None
    BY <2>2, <1>a DEF DropRole, DbType
  <2>7. PcEffect(r)
    BY <1>19, <1>a, KindOfStep, <2>5, <2>6 DEF RollbackRole, PcEffect, StepsOf, Exec, Goto
  <2> QED BY <2>4, <2>7
<1> QED
  BY <1>1, <1>2, <1>3, <1>4, <1>5, <1>6, <1>7, <1>8, <1>9, <1>10, <1>11, <1>12,
     <1>13, <1>14, <1>15, <1>16, <1>17, <1>18, <1>19 DEF Step

\* A statement of any request keeps what the rollbacks rest on.
LEMMA StepRollback ==
  ASSUME RollbackInv, NEW r \in Reqs, Step(r)
  PROVE  RollbackInv'
<1> USE DEF RollbackInv
<1>1. DbEffect(r) /\ PcEffect(r) /\ TypeInv'
  BY StepEffect, StepType
<1>2. None \notin Reqs
  BY AdapterAssumption
<1>3. Owned'
  <2> SUFFICES ASSUME NEW q \in Reqs, NEW d \in Dbs, db'.owner[d] = q
               PROVE  pc'[q] # "idle" /\ args'[q].op = "create" /\ args'[q].db = d
    BY DEF Owned
  <2>1. CASE db'.owner[d] = db.owner[d]
    BY <1>1, <2>1 DEF Owned, PcEffect
  <2>2. CASE db'.owner[d] = r /\ pc[r] = "keyspace" /\ d = args[r].db
    BY <1>1, <2>2, KindOfStep DEF PcEffect, StepsOf
  <2> QED BY <1>1, <1>2, <2>1, <2>2 DEF DbEffect
<1>4. KeyspaceDropped'
  <2> SUFFICES ASSUME NEW q \in Reqs, pc'[q] \in {"dropRole", "failed"},
                      args'[q].op = "create", ~leak'[q], NEW d \in Dbs, db'.owner[d] = q
               PROVE  FALSE
    BY DEF KeyspaceDropped
  <2>1. CASE q # r
    <3>1. db.owner[d] = q /\ pc[q] = pc'[q] /\ leak[q] = leak'[q] /\ args[q] = args'[q]
      BY <1>1, <1>2, <2>1 DEF DbEffect, PcEffect
    <3> QED BY <3>1 DEF KeyspaceDropped
  <2>2. CASE q = r /\ pc'[q] = "dropRole"
    <3>1. db'.owner[args[q].db] = None /\ args'[q].db = args[q].db
      BY <1>1, <2>2 DEF PcEffect
    <3>2. args'[q].db = d
      BY <1>3 DEF Owned
    <3> QED BY <1>2, <3>1, <3>2
  <2>3. CASE q = r /\ pc'[q] = "failed"
    <3>1. pc[q] = "dropRole" /\ ~leak[q] /\ args[q].op = "create"
      BY <1>1, <2>3 DEF PcEffect
    <3>2. db.owner[d] = q
      BY <1>1, <1>2, <2>3, <3>1 DEF DbEffect
    <3> QED BY <3>1, <3>2 DEF KeyspaceDropped
  <2> QED BY <2>1, <2>2, <2>3
<1>5. RoleDropped'
  <2> SUFFICES ASSUME NEW q \in Reqs, pc'[q] = "failed", args'[q].op = "create", ~leak'[q],
                      Lower(args'[q].user) = args'[q].user, db'.roles[args'[q].user] = q
               PROVE  FALSE
    BY DEF RoleDropped, Lower
  <2>1. CASE q # r
    <3>1. pc[q] = "failed" /\ args[q] = args'[q] /\ leak[q] = leak'[q]
      BY <1>1, <2>1 DEF PcEffect
    <3>2. args[q].user \in AllUsers
      BY <3>1, RunningFacts DEF AllUsers
    <3>3. db.roles[args[q].user] = q
      BY <1>1, <1>2, <2>1, <3>1, <3>2 DEF DbEffect
    <3> QED BY <3>1, <3>3 DEF RoleDropped
  <2>2. CASE q = r
    BY <1>1, <1>2, <2>2 DEF PcEffect
  <2> QED BY <2>1, <2>2
<1> QED BY <1>1, <1>3, <1>4, <1>5

\* What the rollbacks rest on holds initially and is kept by every step.
LEMMA RollbackInductive ==
  /\ Init => RollbackInv
  /\ RollbackInv /\ [Next]_vars => RollbackInv'
<1>1. ASSUME Init PROVE RollbackInv
  <2>1. TypeInv
    BY <1>1, TypeInvInductive
  <2>2. Owned /\ KeyspaceDropped /\ RoleDropped
    BY <1>1, AdapterAssumption DEF Init, Owned, KeyspaceDropped, RoleDropped
  <2> QED BY <2>1, <2>2 DEF RollbackInv
<1>2. ASSUME RollbackInv, [Next]_vars PROVE RollbackInv'
  <2>1. TypeInv'
    BY <1>2, TypeInvInductive DEF RollbackInv
  <2>2. ASSUME NEW r \in Reqs, NEW a \in Requests, NEW i \in StartIndices(a),
               Arrive(r, a, i)
        PROVE  Owned' /\ KeyspaceDropped' /\ RoleDropped'
    <3>1. a.op \in AllOps
      BY RequestFacts DEF Request
    <3>2. /\ \A q \in Reqs \ {r} : pc'[q] = pc[q] /\ args'[q] = args[q]
          /\ pc[r] = "idle" /\ pc'[r] \notin {"idle", "dropRole", "failed"}
          /\ UNCHANGED <<db, leak>>
      BY <1>2, <2>2, <3>1 DEF Arrive, Goto, FirstStep, AllOps, RollbackInv, TypeInv, TypeOK
    <3>3. Owned'
      BY <1>2, <3>2 DEF RollbackInv, Owned
    <3>4. KeyspaceDropped'
      BY <1>2, <3>2 DEF RollbackInv, KeyspaceDropped
    <3>5. RoleDropped'
      BY <1>2, <3>2 DEF RollbackInv, RoleDropped, Lower
    <3> QED BY <3>3, <3>4, <3>5
  <2>3. ASSUME NEW r \in Reqs, Step(r) PROVE RollbackInv'
    BY <1>2, <2>3, StepRollback
  <2>4. CASE Crash
    <3>1. /\ \A q \in Reqs : /\ pc'[q] \in {pc[q], "gone"}
                            /\ args'[q] = args[q] /\ leak'[q] = leak[q]
          /\ db' = db
      BY <1>2, <2>4 DEF Crash, RollbackInv, TypeInv, TypeOK
    <3>2. Owned'
      BY <1>2, <3>1 DEF RollbackInv, Owned
    <3>3. KeyspaceDropped'
      BY <1>2, <3>1 DEF RollbackInv, KeyspaceDropped
    <3>4. RoleDropped'
      BY <1>2, <3>1 DEF RollbackInv, RoleDropped, Lower
    <3> QED BY <2>1, <3>2, <3>3, <3>4 DEF RollbackInv
  <2>5. CASE UNCHANGED vars
    BY <1>2, <2>1, <2>5 DEF vars, RollbackInv, Owned, KeyspaceDropped, RoleDropped, Lower
  <2> QED BY <1>2, <2>1, <2>2, <2>3, <2>4, <2>5 DEF Next, RollbackInv
<1> QED BY <1>1, <1>2

(***************************************************************************)
(* However many requests run concurrently and wherever statements fail, a  *)
(* CreateDatabase that failed and whose two DROPs did not fail has left no *)
(* keyspace of its own and no user with its password.                      *)
(***************************************************************************)
THEOREM NothingLeft == Spec => []RollbackLeavesNothing
<1>1. RollbackInv => RollbackLeavesNothing
  BY DEF RollbackInv, RollbackLeavesNothing, KeyspaceDropped, RoleDropped
<1> QED BY <1>1, RollbackInductive, PTL DEF Spec
-----------------------------------------------------------------------------
(***************************************************************************)
(* Why what was created stays usable. A request that had ended when r      *)
(* arrived runs no more statements, so that every other statement is one   *)
(* of a request the two properties know of. A user name that requests      *)
(* carry has a password only of a request that carries it: without another *)
(* such request, r is the one that creates the user. What r has written is *)
(* there at the next statement of r, and the one after.                    *)
(***************************************************************************)
EarlierEnded == \A r, q \in Reqs : q \in earlier[r] => pc[q] \in Ended

NotYetThere == \A r \in Reqs : pc[r] = "idle" => args[r] = None

RoleOwned ==
  \A v \in Users, q \in Reqs :
    db.roles[v] = q => /\ pc[q] # "idle"
                       /\ args[q].op \in {"create", "createUser"} /\ args[q].user = v

Alone(r) == \A q \in Reqs \ {r} : ~Interferes(q, r)

CreateProgress(r) ==
  LET d == args[r].db
      u == args[r].user
      later == pc[r] \in {"role", "grant"} /\ idx[r] > 1
  IN  /\ pc[r] \in {"keyspace", "table", "metadata", "replication"} => idx[r] = 1
      /\ pc[r] \in {"table", "metadata", "replication", "role", "grant", "done"} =>
           db.owner[d] = r
      /\ pc[r] \in {"replication", "role", "grant", "done"} => db.metadata[d] # None
      /\ pc[r] \in {"role", "grant", "done"} => db.replication[d] # None
      /\ later \/ pc[r] \in {"grant", "done"} => db.roles[u] = r
      /\ later \/ pc[r] = "done" => <<d, u>> \in db.grants

(***************************************************************************)
(* For a CreateUser a concurrent CreateDatabase matters, apart from one    *)
(* for the same user, once it has started its rollback, and from then on.  *)
(***************************************************************************)
RollingBack == {"dropKeyspace", "dropRole", "failed", "gone"}

Disturbs(q, r) ==
  /\ args[q] # None
  /\ q \notin earlier[r]
  /\ \/ args[q].op \in {"create", "createUser"} /\ args[q].user = args[r].user
     \/ /\ args[q].op = "drop" \/ (args[q].op = "create" /\ pc[q] \in RollingBack)
        /\ Lower(args[q].user) = args[r].user \/ args[q].db = args[r].db

Undisturbed(r) == \A q \in Reqs \ {r} : ~Disturbs(q, r)

UserProgress(r) ==
  LET granted == args[r].db # None /\ args[r].known =>
                   <<args[r].db, args[r].user>> \in db.grants
  IN  /\ pc[r] = "userRole" => db.roles[args[r].user] = None
      /\ pc[r] \in {"userGrant", "done"} => db.roles[args[r].user] = r
      /\ pc[r] \in {"alter", "done"} => granted

Progress ==
  \A r \in Reqs : pc[r] # "idle" =>
    /\ args[r].op = "create" /\ Alone(r) => CreateProgress(r)
    /\ args[r].op = "createUser" /\ Undisturbed(r) => UserProgress(r)

UsableInv == TypeInv /\ EarlierEnded /\ NotYetThere /\ RoleOwned /\ Progress
-----------------------------------------------------------------------------
(***************************************************************************)
(* The statements of the adapter, by the step they are run at, and what a  *)
(* step leaves alone.                                                      *)
(***************************************************************************)
Statement(r) ==
  \/ db' = db
  \/ pc[r] = "keyspace" /\ db' = [db EXCEPT !.owner[DbOf(r)] = r]
  \/ pc[r] \in {"table", "ensure"} /\ db' = [db EXCEPT !.table = @ \cup {DbOf(r)}]
  \/ pc[r] \in {"metadata", "update"} /\ db' = [db EXCEPT !.metadata[DbOf(r)] = r]
  \/ pc[r] \in {"replication", "upsert"} /\ db' = [db EXCEPT !.replication[DbOf(r)] = r]
  \/ pc[r] \in {"role", "userRole"} /\ db' = CreateRole(RoleUser(r), r)
  \/ pc[r] = "alter" /\ db' = [db EXCEPT !.roles[RoleUser(r)] = r]
  \/ /\ pc[r] \in {"grant", "userGrant"}
     /\ db' = [db EXCEPT !.grants = @ \cup {<<DbOf(r), RoleUser(r)>>}]
  \/ pc[r] \in {"dropKeyspace", "dropDb"} /\ db' = DropKeyspace(DbOf(r))
  \/ pc[r] \in {"dropRole", "dropUser"} /\ db' = DropRole(args[r].user)

Others(r) ==
  /\ UNCHANGED <<args, earlier>>
  /\ \A q \in Reqs \ {r} : pc'[q] = pc[q] /\ idx'[q] = idx[q]
  /\ pc[r] \notin Ended \cup {"idle"} /\ pc'[r] # "idle"
  /\ pc[r] \in RollingBack => pc'[r] \in RollingBack

\* Every step of a request runs one of the statements and touches only itself.
LEMMA StepStatement ==
  ASSUME TypeInv, NEW r \in Reqs, Step(r)
  PROVE  Statement(r) /\ Others(r)
<1>a. pc \in [Reqs -> Steps] /\ idx \in [Reqs -> 1..Len(SupportedRoles)]
  BY DEF TypeInv, TypeOK
<1> USE <1>a DEF Statement, Others, Exec, Goto, Ended, RollingBack
<1>1. ASSUME CreateKeyspace(r) PROVE Statement(r) /\ Others(r)
  BY <1>1 DEF CreateKeyspace
<1>2. ASSUME CreateTable(r) PROVE Statement(r) /\ Others(r)
  BY <1>2 DEF CreateTable
<1>3. ASSUME InsertMetadata(r) PROVE Statement(r) /\ Others(r)
  BY <1>3 DEF InsertMetadata
<1>4. ASSUME InsertReplication(r) PROVE Statement(r) /\ Others(r)
  BY <1>4 DEF InsertReplication
<1>5. ASSUME CreateRoleForDb(r) PROVE Statement(r) /\ Others(r)
  BY <1>5 DEF CreateRoleForDb
<1>6. ASSUME GrantPermissions(r) PROVE Statement(r) /\ Others(r)
  BY <1>6 DEF GrantPermissions, Granting
<1>7. ASSUME RollbackKeyspace(r) PROVE Statement(r) /\ Others(r)
  BY <1>7 DEF RollbackKeyspace
<1>8. ASSUME RollbackRole(r) PROVE Statement(r) /\ Others(r)
  BY <1>8 DEF RollbackRole
<1>9. ASSUME ListRoles(r) PROVE Statement(r) /\ Others(r)
  BY <1>9 DEF ListRoles
<1>10. ASSUME ListPermissions(r) PROVE Statement(r) /\ Others(r)
  BY <1>10 DEF ListPermissions
<1>11. ASSUME AlterRole(r) PROVE Statement(r) /\ Others(r)
  BY <1>11 DEF AlterRole
<1>12. ASSUME CreateUserRole(r) PROVE Statement(r) /\ Others(r)
  BY <1>12 DEF CreateUserRole
<1>13. ASSUME GrantUser(r) PROVE Statement(r) /\ Others(r)
  BY <1>13 DEF GrantUser, Granting
<1>14. ASSUME DropDb(r) PROVE Statement(r) /\ Others(r)
  BY <1>14 DEF DropDb
<1>15. ASSUME DropUser(r) PROVE Statement(r) /\ Others(r)
  BY <1>15 DEF DropUser
<1>16. ASSUME UpdateMetadata(r) PROVE Statement(r) /\ Others(r)
  BY <1>16 DEF UpdateMetadata
<1>17. ASSUME GetMetadata(r) PROVE Statement(r) /\ Others(r)
  BY <1>17 DEF GetMetadata
<1>18. ASSUME EnsureMetadataTable(r) PROVE Statement(r) /\ Others(r)
  BY <1>18 DEF EnsureMetadataTable
<1>19. ASSUME UpsertMetadataSetting(r) PROVE Statement(r) /\ Others(r)
  BY <1>19 DEF UpsertMetadataSetting
<1> QED
  BY <1>1, <1>2, <1>3, <1>4, <1>5, <1>6, <1>7, <1>8, <1>9, <1>10, <1>11,
     <1>12, <1>13, <1>14, <1>15, <1>16, <1>17, <1>18, <1>19 DEF Step

\* What each statement that drops something leaves.
LEMMA DropEffects ==
  ASSUME db \in DbType, NEW d, NEW v
  PROVE  /\ DropKeyspace(d).owner = [db.owner EXCEPT ![d] = None]
         /\ DropKeyspace(d).metadata = [db.metadata EXCEPT ![d] = None]
         /\ DropKeyspace(d).replication = [db.replication EXCEPT ![d] = None]
         /\ DropKeyspace(d).roles = db.roles
         /\ DropKeyspace(d).grants = {g \in db.grants : g[1] # d}
         /\ DropRole(v).owner = db.owner
         /\ DropRole(v).metadata = db.metadata
         /\ DropRole(v).replication = db.replication
         /\ DropRole(v).roles = [db.roles EXCEPT ![Lower(v)] = None]
         /\ DropRole(v).grants = {g \in db.grants : g[2] # Lower(v)}
<1>1. /\ DropKeyspace(d).owner = [db.owner EXCEPT ![d] = None]
      /\ DropKeyspace(d).metadata = [db.metadata EXCEPT ![d] = None]
      /\ DropKeyspace(d).replication = [db.replication EXCEPT ![d] = None]
      /\ DropKeyspace(d).roles = db.roles
      /\ DropKeyspace(d).grants = {g \in db.grants : g[1] # d}
  BY DEF DbType, DropKeyspace
<1>2. /\ DropRole(v).owner = db.owner
      /\ DropRole(v).metadata = db.metadata
      /\ DropRole(v).replication = db.replication
      /\ DropRole(v).roles = [db.roles EXCEPT ![Lower(v)] = None]
      /\ DropRole(v).grants = {g \in db.grants : g[2] # Lower(v)}
  BY DEF DbType, DropRole
<1> QED BY <1>1, <1>2

(***************************************************************************)
(* What a step can do to the keyspaces, the users and the permissions that *)
(* others rely on.                                                         *)
(***************************************************************************)
DropsDb(q, d) == pc[q] \in {"dropKeyspace", "dropDb"} /\ args[q].db = d
DropsUser(q, v) == pc[q] \in {"dropRole", "dropUser"} /\ Lower(args[q].user) = v
WritesUser(q, v) == args[q].op \in {"create", "createUser"} /\ args[q].user = v

KeyspaceEffect(q) ==
  \A d \in Dbs :
    \/ DropsDb(q, d)
    \/ /\ db'.owner[d] = db.owner[d] \/ (pc[q] = "keyspace" /\ args[q].db = d)
       /\ db.metadata[d] # None => db'.metadata[d] # None
       /\ db.replication[d] # None => db'.replication[d] # None

UserEffect(q) ==
  \A v \in Users :
    \/ db'.roles[v] = db.roles[v]
    \/ DropsUser(q, v) /\ db'.roles[v] = None
    \/ WritesUser(q, v) /\ db'.roles[v] = q

GrantEffect(q) ==
  \A d \in Dbs, v \in AllUsers :
    <<d, v>> \in db.grants =>
      <<d, v>> \in db'.grants \/ DropsDb(q, d) \/ DropsUser(q, v)

\* Every step has these effects and no others.
LEMMA StepEffects ==
  ASSUME TypeInv, NEW q \in Reqs, Step(q)
  PROVE  KeyspaceEffect(q) /\ UserEffect(q) /\ GrantEffect(q)
<1>a. /\ db \in DbType /\ None \notin Reqs
      /\ db.owner \in [Dbs -> Reqs \cup {None}] /\ db.roles \in [AllUsers -> Reqs \cup {None}]
      /\ db.metadata \in [Dbs -> Reqs \cup {None}]
      /\ db.replication \in [Dbs -> Reqs \cup {None}]
  BY AdapterAssumption DEF TypeInv, TypeOK, DbType
<1>b. Statement(q) /\ Others(q)
  BY StepStatement
<1> USE <1>a
<1>1. CASE db' = db
  BY <1>1 DEF KeyspaceEffect, UserEffect, GrantEffect
<1>2. CASE pc[q] = "keyspace" /\ db' = [db EXCEPT !.owner[DbOf(q)] = q]
  <2>1. /\ db'.owner = [db.owner EXCEPT ![DbOf(q)] = q]
        /\ db'.roles = db.roles /\ db'.grants = db.grants
        /\ db'.metadata = db.metadata /\ db'.replication = db.replication
    BY <1>2 DEF DbType
  <2> QED BY <1>2, <2>1 DEF KeyspaceEffect, UserEffect, GrantEffect, DbOf
<1>3. CASE db' = [db EXCEPT !.table = @ \cup {DbOf(q)}]
  <2>1. /\ db'.owner = db.owner /\ db'.roles = db.roles /\ db'.grants = db.grants
        /\ db'.metadata = db.metadata /\ db'.replication = db.replication
    BY <1>3 DEF DbType
  <2> QED BY <2>1 DEF KeyspaceEffect, UserEffect, GrantEffect
<1>4. CASE db' = [db EXCEPT !.metadata[DbOf(q)] = q]
  <2>1. /\ db'.owner = db.owner /\ db'.roles = db.roles /\ db'.grants = db.grants
        /\ db'.metadata = [db.metadata EXCEPT ![DbOf(q)] = q]
        /\ db'.replication = db.replication
    BY <1>4 DEF DbType
  <2> QED BY <2>1 DEF KeyspaceEffect, UserEffect, GrantEffect
<1>5. CASE db' = [db EXCEPT !.replication[DbOf(q)] = q]
  <2>1. /\ db'.owner = db.owner /\ db'.roles = db.roles /\ db'.grants = db.grants
        /\ db'.metadata = db.metadata
        /\ db'.replication = [db.replication EXCEPT ![DbOf(q)] = q]
    BY <1>5 DEF DbType
  <2> QED BY <2>1 DEF KeyspaceEffect, UserEffect, GrantEffect
<1>6. ASSUME pc[q] \in {"role", "userRole", "alter"},
             \/ db' = CreateRole(RoleUser(q), q)
             \/ db' = [db EXCEPT !.roles[RoleUser(q)] = q]
      PROVE  KeyspaceEffect(q) /\ UserEffect(q) /\ GrantEffect(q)
  <2>1. /\ db'.owner = db.owner /\ db'.grants = db.grants
        /\ db'.metadata = db.metadata /\ db'.replication = db.replication
        /\ \/ db'.roles = [db.roles EXCEPT ![RoleUser(q)] = IF @ = None THEN q ELSE @]
           \/ db'.roles = [db.roles EXCEPT ![RoleUser(q)] = q]
    BY <1>6 DEF DbType, CreateRole
  <2>2. \A v \in Users : db'.roles[v] # db.roles[v] => db'.roles[v] = q /\ v = RoleUser(q)
    BY <2>1 DEF AllUsers
  <2>3. args[q].op \in {"create", "createUser", "createRoles"}
    BY <1>6, KindOfStep DEF StepsOf
  <2>4. RoleUser(q) \in Users => WritesUser(q, RoleUser(q))
    BY <2>3, AdapterAssumption DEF RoleUser, WritesUser, Generated, TypeInv, TypeOK
  <2> QED BY <2>1, <2>2, <2>4 DEF KeyspaceEffect, UserEffect, GrantEffect
<1>7. CASE db' = [db EXCEPT !.grants = @ \cup {<<DbOf(q), RoleUser(q)>>}]
  <2>1. /\ db'.owner = db.owner /\ db'.roles = db.roles
        /\ db'.grants = db.grants \cup {<<DbOf(q), RoleUser(q)>>}
        /\ db'.metadata = db.metadata /\ db'.replication = db.replication
    BY <1>7 DEF DbType
  <2> QED BY <2>1 DEF KeyspaceEffect, UserEffect, GrantEffect
<1>8. CASE pc[q] \in {"dropKeyspace", "dropDb"} /\ db' = DropKeyspace(DbOf(q))
  <2>1. /\ db'.owner = [db.owner EXCEPT ![DbOf(q)] = None]
        /\ db'.metadata = [db.metadata EXCEPT ![DbOf(q)] = None]
        /\ db'.replication = [db.replication EXCEPT ![DbOf(q)] = None]
        /\ db'.roles = db.roles /\ db'.grants = {g \in db.grants : g[1] # DbOf(q)}
    BY <1>8, DropEffects
  <2>2. \A d, v : <<d, v>> \in db.grants /\ d # DbOf(q) => <<d, v>> \in db'.grants
    BY <2>1
  <2>3. \A d \in Dbs : d = DbOf(q) => DropsDb(q, d)
    BY <1>8 DEF DropsDb, DbOf
  <2>4. KeyspaceEffect(q)
    BY <2>1, <2>3 DEF KeyspaceEffect
  <2> QED BY <2>1, <2>2, <2>3, <2>4 DEF UserEffect, GrantEffect
<1>9. CASE pc[q] \in {"dropRole", "dropUser"} /\ db' = DropRole(args[q].user)
  <2> DEFINE l == Lower(args[q].user)
  <2>1. /\ db'.owner = db.owner /\ db'.metadata = db.metadata
        /\ db'.replication = db.replication
        /\ db'.roles = [db.roles EXCEPT ![l] = None]
        /\ db'.grants = {g \in db.grants : g[2] # l}
    BY <1>9, DropEffects
  <2>2. \A d, v : <<d, v>> \in db.grants /\ v # l => <<d, v>> \in db'.grants
    BY <2>1
  <2>3. \A v : v = l => DropsUser(q, v)
    BY <1>9 DEF DropsUser
  <2> HIDE DEF l
  <2>4. UserEffect(q)
    BY <2>1, <2>3 DEF UserEffect, AllUsers
  <2> QED BY <2>1, <2>2, <2>3, <2>4 DEF KeyspaceEffect, GrantEffect
<1> QED BY <1>b, <1>1, <1>2, <1>3, <1>4, <1>5, <1>6, <1>7, <1>8, <1>9 DEF Statement
-----------------------------------------------------------------------------
\* A request that has arrived is not None.
LEMMA ArrivedNotNone ==
  ASSUME TypeInv, NEW r \in Reqs, pc[r] # "idle"
  PROVE  args[r] # None
BY RunningFacts, AdapterAssumption

\* A statement of q is that of a request that drops, or that rolls back.
LEMMA DroppingKind ==
  ASSUME TypeInv, NEW q \in Reqs, NEW x
  PROVE  /\ DropsDb(q, x) => /\ args[q].db = x
                             /\ \/ args[q].op = "drop"
                                \/ args[q].op = "create" /\ pc[q] \in RollingBack
         /\ DropsUser(q, x) => /\ Lower(args[q].user) = x
                               /\ \/ args[q].op = "drop"
                                  \/ args[q].op = "create" /\ pc[q] \in RollingBack
BY KindOfStep DEF DropsDb, DropsUser, StepsOf, RollingBack

(***************************************************************************)
(* A statement of another request takes nothing from a CreateDatabase it   *)
(* does not interfere with.                                                *)
(***************************************************************************)
LEMMA OthersSpareDatabase ==
  ASSUME UsableInv, NEW r \in Reqs, NEW q \in Reqs \ {r}, Step(q),
         pc[r] # "idle", args[r].op = "create", Alone(r)'
  PROVE  CreateProgress(r)'
<1>a. TypeInv /\ EarlierEnded /\ Progress
  BY DEF UsableInv
<1>b. KeyspaceEffect(q) /\ UserEffect(q) /\ GrantEffect(q) /\ Others(q)
  BY <1>a, StepEffects, StepStatement
<1>1. Alone(r)
  BY <1>b DEF Alone, Interferes, Others
<1>2. CreateProgress(r)
  BY <1>a, <1>1 DEF Progress
<1>3. q \notin earlier[r] /\ args[q] # None
  BY <1>a, <1>b, ArrivedNotNone DEF EarlierEnded, Others
<1>4. args[r].db \in Dbs /\ args[r].user \in Users /\ args[r].user \in AllUsers
  BY <1>a, RunningFacts DEF AllUsers
<1>5. ~Interferes(q, r)
  BY <1>1 DEF Alone
<1>6. ~DropsDb(q, args[r].db) /\ ~DropsUser(q, args[r].user) /\ ~WritesUser(q, args[r].user)
  BY <1>a, <1>3, <1>5, DroppingKind DEF Interferes, WritesUser
<1>7. ~(pc[q] = "keyspace" /\ args[q].db = args[r].db)
  BY <1>a, <1>3, <1>5, KindOfStep DEF Interferes, StepsOf
<1>8. /\ pc'[r] = pc[r] /\ idx'[r] = idx[r] /\ args'[r] = args[r]
      /\ db'.owner[args[r].db] = db.owner[args[r].db]
      /\ db.metadata[args[r].db] # None => db'.metadata[args[r].db] # None
      /\ db.replication[args[r].db] # None => db'.replication[args[r].db] # None
      /\ db'.roles[args[r].user] = db.roles[args[r].user]
      /\ <<args[r].db, args[r].user>> \in db.grants =>
           <<args[r].db, args[r].user>> \in db'.grants
  BY <1>b, <1>4, <1>6, <1>7 DEF Others, KeyspaceEffect, UserEffect, GrantEffect
<1> QED BY <1>2, <1>8 DEF CreateProgress

(***************************************************************************)
(* A statement of another request takes nothing from a CreateUser it does  *)
(* not disturb.                                                            *)
(***************************************************************************)
LEMMA OthersSpareUser ==
  ASSUME UsableInv, NEW r \in Reqs, NEW q \in Reqs \ {r}, Step(q),
         pc[r] # "idle", args[r].op = "createUser", Undisturbed(r)'
  PROVE  UserProgress(r)'
<1>a. TypeInv /\ EarlierEnded /\ Progress
  BY DEF UsableInv
<1>b. UserEffect(q) /\ GrantEffect(q) /\ Others(q)
  BY <1>a, StepEffects, StepStatement
<1>1. Undisturbed(r)
  BY <1>b DEF Undisturbed, Disturbs, Others
<1>2. UserProgress(r)
  BY <1>a, <1>1 DEF Progress
<1>3. q \notin earlier[r] /\ args[q] # None
  BY <1>a, <1>b, ArrivedNotNone DEF EarlierEnded, Others
<1>4. args[r].user \in Users /\ args[r].user \in AllUsers /\ args[r].db \in Dbs \cup {None}
  BY <1>a, RunningFacts DEF AllUsers, Request
<1>5. ~Disturbs(q, r)
  BY <1>1 DEF Undisturbed
<1>6. ~DropsDb(q, args[r].db) /\ ~DropsUser(q, args[r].user) /\ ~WritesUser(q, args[r].user)
  BY <1>a, <1>3, <1>5, DroppingKind DEF Disturbs, WritesUser
<1>7. /\ pc'[r] = pc[r] /\ args'[r] = args[r]
      /\ db'.roles[args[r].user] = db.roles[args[r].user]
  BY <1>b, <1>4, <1>6 DEF Others, UserEffect
<1>8. args[r].db # None /\ <<args[r].db, args[r].user>> \in db.grants =>
        <<args[r].db, args[r].user>> \in db'.grants
  BY <1>b, <1>4, <1>6 DEF GrantEffect
<1> QED BY <1>2, <1>7, <1>8 DEF UserProgress

\* Without another request for its user, the one a CreateDatabase finds is its own.
LEMMA AloneRole ==
  ASSUME TypeInv, RoleOwned, NEW r \in Reqs, pc[r] # "idle", args[r].op = "create", Alone(r)
  PROVE  db.roles[args[r].user] \in {None, r}
<1>1. args[r].user \in Users /\ args[r].user \in AllUsers
  BY RunningFacts DEF AllUsers
<1>2. db.roles[args[r].user] \in Reqs \cup {None}
  BY <1>1 DEF TypeInv, TypeOK, DbType
<1> SUFFICES ASSUME NEW q \in Reqs \ {r}, db.roles[args[r].user] = q
             PROVE  FALSE
  BY <1>2
<1>3. pc[q] # "idle" /\ args[q].op \in {"create", "createUser"} /\ args[q].user = args[r].user
  BY <1>1 DEF RoleOwned
<1>4. args[q] # None
  BY <1>3, ArrivedNotNone
<1> QED BY <1>3, <1>4 DEF Alone, Interferes

(***************************************************************************)
(* A CreateDatabase that nobody interferes with moves on only with what    *)
(* its statement has written.                                              *)
(***************************************************************************)
LEMMA CreateMovesOn ==
  ASSUME UsableInv, NEW r \in Reqs, Step(r), args[r].op = "create", Alone(r)'
  PROVE  CreateProgress(r)'
<1> DEFINE d == args[r].db
           u == args[r].user
<1>a. TypeInv /\ RoleOwned /\ Progress
  BY DEF UsableInv
<1>b. Others(r)
  BY <1>a, StepStatement
<1>c. pc[r] # "idle" /\ args'[r] = args[r] /\ Alone(r)
  BY <1>b DEF Others, Alone, Interferes
<1>d. CreateProgress(r)
  BY <1>a, <1>c DEF Progress
<1>e. /\ DbOf(r) = d /\ d \in Dbs /\ u \in AllUsers /\ None \notin Reqs
      /\ pc \in [Reqs -> Steps] /\ idx \in [Reqs -> 1..Len(SupportedRoles)]
      /\ idx[r] \in Nat /\ idx[r] >= 1
      /\ db \in DbType
      /\ db.owner \in [Dbs -> Reqs \cup {None}] /\ db.roles \in [AllUsers -> Reqs \cup {None}]
      /\ db.metadata \in [Dbs -> Reqs \cup {None}]
      /\ db.replication \in [Dbs -> Reqs \cup {None}]
  BY <1>a, <1>c, RunningFacts, AdapterAssumption DEF DbOf, AllUsers, TypeInv, TypeOK, DbType
<1>f. db.roles[u] \in {None, r}
  BY <1>a, <1>c, AloneRole
<1>g. /\ idx[r] = 1 => RoleUser(r) = u
      /\ idx[r] > 1 => RoleUser(r) # u /\ RoleUser(r) \in AllUsers
  <2>1. u \in Users /\ RoleUser(r) \in AllUsers
    BY <1>a, <1>c, RunningFacts, RoleUserType
  <2>2. idx[r] > 1 => SupportedRoles[idx[r]] # "admin" /\ <<r, idx[r]>> \in Generated
    BY <1>e, AdapterAssumption DEF Generated
  <2> QED BY <2>1, <2>2, AdapterAssumption DEF RoleUser
<1> HIDE DEF d, u
<1>p. CreateProgress(r)' <=>
        LET later == pc'[r] \in {"role", "grant"} /\ idx'[r] > 1
        IN  /\ pc'[r] \in {"keyspace", "table", "metadata", "replication"} => idx'[r] = 1
            /\ pc'[r] \in {"table", "metadata", "replication", "role", "grant", "done"} =>
                 db'.owner[d] = r
            /\ pc'[r] \in {"replication", "role", "grant", "done"} => db'.metadata[d] # None
            /\ pc'[r] \in {"role", "grant", "done"} => db'.replication[d] # None
            /\ later \/ pc'[r] \in {"grant", "done"} => db'.roles[u] = r
            /\ later \/ pc'[r] = "done" => <<d, u>> \in db'.grants
  BY <1>c DEF CreateProgress, d, u
<1>1. CASE pc'[r] \notin {"keyspace", "table", "metadata", "replication", "role", "grant", "done"}
  BY <1>1, <1>d, <1>p
<1>2. CASE CreateKeyspace(r)
  <2>1. pc'[r] # "dropKeyspace" => pc'[r] = "table" /\ db' = [db EXCEPT !.owner[d] = r]
    BY <1>2, <1>e DEF CreateKeyspace, Exec, Goto
  <2>2. pc'[r] # "dropKeyspace" => db'.owner[d] = r
    BY <2>1, <1>e DEF DbType
  <2>3. pc[r] = "keyspace" /\ idx' = idx
    BY <1>2 DEF CreateKeyspace
  <2> QED BY <1>1, <1>d, <1>p, <2>1, <2>2, <2>3 DEF CreateProgress
<1>3. CASE CreateTable(r)
  <2>1. /\ pc'[r] # "dropKeyspace" =>
             pc'[r] = "metadata" /\ db' = [db EXCEPT !.table = @ \cup {d}]
        /\ pc[r] = "table" /\ idx' = idx
    BY <1>3, <1>e DEF CreateTable, Exec, Goto
  <2>2. pc'[r] # "dropKeyspace" => db'.owner = db.owner
    BY <2>1, <1>e DEF DbType
  <2> QED BY <1>1, <1>d, <1>p, <2>1, <2>2 DEF CreateProgress, d, u
<1>4. CASE InsertMetadata(r)
  <2>1. /\ pc'[r] # "dropKeyspace" =>
             pc'[r] = "replication" /\ db' = [db EXCEPT !.metadata[d] = r]
        /\ pc[r] = "metadata" /\ idx' = idx
    BY <1>4, <1>e DEF InsertMetadata, Exec, Goto
  <2>2. pc'[r] # "dropKeyspace" => db'.owner = db.owner /\ db'.metadata[d] = r
    BY <2>1, <1>e DEF DbType
  <2> QED BY <1>1, <1>d, <1>e, <1>p, <2>1, <2>2 DEF CreateProgress, d, u
<1>5. CASE InsertReplication(r)
  <2>1. /\ pc'[r] # "dropKeyspace" =>
             pc'[r] = "role" /\ db' = [db EXCEPT !.replication[d] = r]
        /\ pc[r] = "replication" /\ idx' = idx
    BY <1>5, <1>e DEF InsertReplication, Exec, Goto
  <2>2. pc'[r] # "dropKeyspace" =>
          db'.owner = db.owner /\ db'.metadata = db.metadata /\ db'.replication[d] = r
    BY <2>1, <1>e DEF DbType
  <2> QED BY <1>1, <1>d, <1>e, <1>p, <2>1, <2>2 DEF CreateProgress, d, u
<1>6. CASE CreateRoleForDb(r)
  <2>1. /\ pc'[r] # "dropKeyspace" =>
             pc'[r] = "grant" /\ db' = CreateRole(RoleUser(r), r)
        /\ pc[r] = "role" /\ idx' = idx
    BY <1>6, <1>e DEF CreateRoleForDb, Exec, Goto
  <2>2. pc'[r] # "dropKeyspace" =>
          /\ db'.owner = db.owner /\ db'.metadata = db.metadata
          /\ db'.replication = db.replication /\ db'.grants = db.grants
          /\ db'.roles = [db.roles EXCEPT ![RoleUser(r)] = IF @ = None THEN r ELSE @]
    BY <2>1, <1>e DEF DbType, CreateRole
  <2>3. pc'[r] # "dropKeyspace" => db'.roles[u] = r
    <3>1. CASE idx[r] = 1
      BY <3>1, <2>2, <1>e, <1>f, <1>g
    <3>2. CASE idx[r] > 1
      <4>1. db.roles[u] = r
        BY <3>2, <2>1, <1>d DEF CreateProgress, u
      <4> QED BY <4>1, <3>2, <2>2, <1>e, <1>g
    <3> QED BY <3>1, <3>2, <1>e
  <2> QED BY <1>1, <1>d, <1>e, <1>p, <2>1, <2>2, <2>3 DEF CreateProgress, d, u
<1>7. CASE GrantPermissions(r)
  <2>1. /\ pc'[r] # "dropKeyspace" =>
             /\ pc'[r] \in {"done", "role"}
             /\ db' = [db EXCEPT !.grants = @ \cup {<<d, RoleUser(r)>>}]
        /\ pc[r] = "grant"
    BY <1>7, <1>e DEF GrantPermissions, Granting, Exec, Goto
  <2>2. pc'[r] # "dropKeyspace" =>
          /\ db'.owner = db.owner /\ db'.metadata = db.metadata
          /\ db'.replication = db.replication /\ db'.roles = db.roles
          /\ db'.grants = db.grants \cup {<<d, RoleUser(r)>>}
    BY <2>1, <1>e DEF DbType
  <2>3. pc'[r] # "dropKeyspace" => <<d, u>> \in db'.grants
    <3>1. CASE idx[r] = 1
      BY <3>1, <2>2, <1>g
    <3>2. CASE idx[r] > 1
      BY <3>2, <2>1, <2>2, <1>d DEF CreateProgress, d, u
    <3> QED BY <3>1, <3>2, <1>e
  <2> QED BY <1>1, <1>d, <1>e, <1>p, <2>1, <2>2, <2>3 DEF CreateProgress, d, u
<1>8. CASE RollbackKeyspace(r) \/ RollbackRole(r)
  <2>1. pc'[r] \in {"dropRole", "failed"}
    BY <1>8, <1>e DEF RollbackKeyspace, RollbackRole, Exec, Goto
  <2> QED BY <1>1, <2>1
<1>9. CASE \/ ListRoles(r) \/ ListPermissions(r) \/ AlterRole(r)
           \/ CreateUserRole(r) \/ GrantUser(r) \/ DropDb(r) \/ DropUser(r)
           \/ UpdateMetadata(r) \/ GetMetadata(r)
           \/ EnsureMetadataTable(r) \/ UpsertMetadataSetting(r)
  <2>1. pc[r] \in {"listRoles", "listPermissions", "alter", "userRole", "userGrant", "dropDb",
                   "dropUser", "update", "select", "ensure", "upsert"}
    BY <1>9 DEF ListRoles, ListPermissions, AlterRole, CreateUserRole, GrantUser, DropDb,
                DropUser, UpdateMetadata, GetMetadata, EnsureMetadataTable,
                UpsertMetadataSetting
  <2> QED BY <1>a, <2>1, KindOfStep DEF StepsOf
<1> QED BY <1>2, <1>3, <1>4, <1>5, <1>6, <1>7, <1>8, <1>9 DEF Step
(***************************************************************************)
(* A CreateUser that nobody disturbs moves on only with what its statement *)
(* has written, or found.                                                  *)
(***************************************************************************)
LEMMA UserMovesOn ==
  ASSUME UsableInv, NEW r \in Reqs, Step(r), args[r].op = "createUser", Undisturbed(r)'
  PROVE  UserProgress(r)'
<1> DEFINE d == args[r].db
           u == args[r].user
<1>a. TypeInv /\ Progress
  BY DEF UsableInv
<1>b. Others(r)
  BY <1>a, StepStatement
<1>c. pc[r] # "idle" /\ args'[r] = args[r] /\ Undisturbed(r)
  BY <1>b DEF Others, Undisturbed, Disturbs
<1>d. UserProgress(r)
  BY <1>a, <1>c DEF Progress
<1>e. /\ DbOf(r) = d /\ d \in Dbs \cup {None} /\ u \in AllUsers
      /\ None \notin Reqs /\ None \notin Dbs
      /\ RoleUser(r) = u
      /\ pc \in [Reqs -> Steps] /\ db \in DbType
      /\ db.roles \in [AllUsers -> Reqs \cup {None}]
  BY <1>a, <1>c, RunningFacts, AdapterAssumption
     DEF DbOf, AllUsers, RoleUser, TypeInv, TypeOK, DbType, Request
<1> HIDE DEF d, u
<1>p. UserProgress(r)' <=>
        LET granted == d # None /\ args[r].known => <<d, u>> \in db'.grants
        IN  /\ pc'[r] = "userRole" => db'.roles[u] = None
            /\ pc'[r] \in {"userGrant", "done"} => db'.roles[u] = r
            /\ pc'[r] \in {"alter", "done"} => granted
  BY <1>c DEF UserProgress, d, u
<1>1. CASE pc'[r] \in {"failed", "listPermissions"}
  BY <1>1, <1>p
<1>2. CASE ListRoles(r)
  <2>1. pc'[r] \notin {"failed", "listPermissions"} =>
          /\ db' = db
          /\ \/ pc'[r] = "userRole" /\ db.roles[u] = None
             \/ pc'[r] = "alter" /\ d = None
    BY <1>2, <1>e DEF ListRoles, Exec, Goto
  <2> QED BY <1>1, <1>p, <2>1
<1>3. CASE ListPermissions(r)
  <2>1. pc'[r] # "failed" => db' = db /\ pc'[r] = "alter" /\ <<d, u>> \in db.grants
    BY <1>3, <1>e DEF ListPermissions, Exec, Goto
  <2> QED BY <1>1, <1>p, <2>1
<1>4. CASE AlterRole(r)
  <2>1. /\ pc'[r] # "failed" => pc'[r] = "done" /\ db' = [db EXCEPT !.roles[u] = r]
        /\ pc[r] = "alter"
    BY <1>4, <1>e DEF AlterRole, Exec, Goto
  <2>2. pc'[r] # "failed" => db'.roles[u] = r /\ db'.grants = db.grants
    BY <2>1, <1>e DEF DbType
  <2> QED BY <1>1, <1>d, <1>p, <2>1, <2>2 DEF UserProgress, d, u
<1>5. CASE CreateUserRole(r)
  <2>1. /\ pc'[r] # "failed" => pc'[r] = "userGrant" /\ db' = CreateRole(u, r)
        /\ pc[r] = "userRole"
    BY <1>5, <1>e DEF CreateUserRole, Exec, Goto
  <2>2. pc'[r] # "failed" =>
          db'.roles = [db.roles EXCEPT ![u] = IF @ = None THEN r ELSE @]
    BY <2>1, <1>e DEF DbType, CreateRole
  <2>3. db.roles[u] = None
    BY <1>d, <2>1 DEF UserProgress, u
  <2> QED BY <1>1, <1>e, <1>p, <2>1, <2>2, <2>3
<1>6. CASE GrantUser(r)
  <2>1. /\ pc'[r] # "failed" =>
             /\ pc'[r] = "done"
             /\ \/ db' = [db EXCEPT !.grants = @ \cup {<<d, u>>}]
                \/ ~args[r].known /\ db' = db
        /\ pc[r] = "userGrant"
    BY <1>6, <1>e DEF GrantUser, Granting, Exec, Goto
  <2>2. pc'[r] # "failed" =>
          db'.roles = db.roles /\ (args[r].known => <<d, u>> \in db'.grants)
    BY <2>1, <1>e DEF DbType
  <2> QED BY <1>1, <1>d, <1>p, <2>1, <2>2 DEF UserProgress, d, u
<1>7. CASE \/ CreateKeyspace(r) \/ CreateTable(r) \/ InsertMetadata(r) \/ InsertReplication(r)
           \/ CreateRoleForDb(r) \/ GrantPermissions(r)
           \/ RollbackKeyspace(r) \/ RollbackRole(r) \/ DropDb(r) \/ DropUser(r)
           \/ UpdateMetadata(r) \/ GetMetadata(r)
           \/ EnsureMetadataTable(r) \/ UpsertMetadataSetting(r)
  <2>1. pc[r] \in {"keyspace", "table", "metadata", "replication", "role", "grant",
                   "dropKeyspace", "dropRole", "dropDb", "dropUser", "update", "select",
                   "ensure", "upsert"}
    BY <1>7 DEF CreateKeyspace, CreateTable, InsertMetadata, InsertReplication,
                CreateRoleForDb, GrantPermissions, RollbackKeyspace, RollbackRole, DropDb,
                DropUser, UpdateMetadata, GetMetadata, EnsureMetadataTable,
                UpsertMetadataSetting
  <2> QED BY <1>a, <2>1, KindOfStep DEF StepsOf
<1> QED BY <1>2, <1>3, <1>4, <1>5, <1>6, <1>7 DEF Step

\* A statement of any request keeps what the created things rest on.
LEMMA StepUsable ==
  ASSUME UsableInv, NEW r \in Reqs, Step(r)
  PROVE  UsableInv'
<1>a. TypeInv /\ EarlierEnded /\ NotYetThere /\ RoleOwned /\ TypeInv'
  BY StepType DEF UsableInv
<1>b. Others(r) /\ UserEffect(r)
  BY <1>a, StepStatement, StepEffects
<1>1. EarlierEnded'
  BY <1>a, <1>b DEF Others, EarlierEnded
<1>2. NotYetThere'
  BY <1>a, <1>b DEF Others, NotYetThere
<1>3. RoleOwned'
  <2> SUFFICES ASSUME NEW v \in Users, NEW q \in Reqs, db'.roles[v] = q
               PROVE  /\ pc'[q] # "idle"
                      /\ args'[q].op \in {"create", "createUser"} /\ args'[q].user = v
    BY DEF RoleOwned
  <2>1. q # None
    BY AdapterAssumption
  <2>2. CASE db'.roles[v] = db.roles[v]
    BY <1>a, <1>b, <2>2 DEF RoleOwned, Others
  <2>3. CASE WritesUser(r, v) /\ db'.roles[v] = r
    BY <1>b, <2>3 DEF WritesUser, Others
  <2> QED BY <1>b, <2>1, <2>2, <2>3 DEF UserEffect
<1>4. Progress'
  <2> SUFFICES ASSUME NEW q \in Reqs, pc'[q] # "idle"
               PROVE  /\ args'[q].op = "create" /\ Alone(q)' => CreateProgress(q)'
                      /\ args'[q].op = "createUser" /\ Undisturbed(q)' => UserProgress(q)'
    BY DEF Progress
  <2>1. pc[q] # "idle" /\ args'[q] = args[q]
    BY <1>b DEF Others
  <2>2. CASE q = r
    BY <2>1, <2>2, CreateMovesOn, UserMovesOn
  <2>3. CASE q # r
    BY <2>1, <2>3, OthersSpareDatabase, OthersSpareUser
  <2> QED BY <2>2, <2>3
<1> QED BY <1>a, <1>1, <1>2, <1>3, <1>4 DEF UsableInv

\* Another request that arrives, or one that dies, does not change what is written.
LEMMA ArriveUsable ==
  ASSUME UsableInv, NEW r \in Reqs, NEW a \in Requests, NEW i \in StartIndices(a),
         Arrive(r, a, i)
  PROVE  UsableInv'
<1>a. TypeInv /\ EarlierEnded /\ NotYetThere /\ RoleOwned /\ Progress /\ TypeInv'
  BY ArriveType DEF UsableInv
<1>b. a.op \in AllOps
  BY RequestFacts DEF Request
<1>c. FirstStep(a.op) \in {"keyspace", "listRoles", "dropDb", "update", "select", "ensure"}
      /\ (a.op = "create" => FirstStep(a.op) = "keyspace" /\ i = 1)
      /\ (a.op = "createUser" => FirstStep(a.op) = "listRoles")
  BY <1>b DEF FirstStep, AllOps, StartIndices
<1>d. /\ \A q \in Reqs \ {r} :
           /\ pc'[q] = pc[q] /\ args'[q] = args[q]
           /\ idx'[q] = idx[q] /\ earlier'[q] = earlier[q]
      /\ pc[r] = "idle" /\ pc'[r] = FirstStep(a.op) /\ args'[r] = a /\ idx'[r] = i
      /\ \A q \in earlier'[r] : pc[q] \in Ended
      /\ db' = db
  BY <1>a DEF Arrive, Goto, TypeInv, TypeOK
<1>1. EarlierEnded'
  BY <1>a, <1>d DEF EarlierEnded, Ended
<1>2. NotYetThere'
  BY <1>a, <1>c, <1>d DEF NotYetThere
<1>3. RoleOwned'
  BY <1>a, <1>d DEF RoleOwned
<1>4. Progress'
  <2> SUFFICES ASSUME NEW q \in Reqs, pc'[q] # "idle"
               PROVE  /\ args'[q].op = "create" /\ Alone(q)' => CreateProgress(q)'
                      /\ args'[q].op = "createUser" /\ Undisturbed(q)' => UserProgress(q)'
    BY DEF Progress
  <2>1. CASE q = r
    BY <1>c, <1>d, <2>1 DEF CreateProgress, UserProgress
  <2>2. CASE q # r
    <3>1. ASSUME args'[q].op = "create", Alone(q)' PROVE CreateProgress(q)'
      <4>1. Alone(q)
        <5> SUFFICES ASSUME NEW p \in Reqs \ {q}, Interferes(p, q) PROVE FALSE
          BY DEF Alone
        <5>1. p # r
          BY <1>a, <1>d DEF Interferes, NotYetThere
        <5>2. Interferes(p, q)'
          BY <1>d, <2>2, <5>1 DEF Interferes, Lower
        <5> QED BY <3>1, <5>2 DEF Alone
      <4>2. CreateProgress(q)
        BY <1>a, <1>d, <2>2, <3>1, <4>1 DEF Progress
      <4> QED BY <1>d, <2>2, <4>2 DEF CreateProgress
    <3>2. ASSUME args'[q].op = "createUser", Undisturbed(q)' PROVE UserProgress(q)'
      <4>1. Undisturbed(q)
        <5> SUFFICES ASSUME NEW p \in Reqs \ {q}, Disturbs(p, q) PROVE FALSE
          BY DEF Undisturbed
        <5>1. p # r
          BY <1>a, <1>d DEF Disturbs, NotYetThere
        <5>2. Disturbs(p, q)'
          BY <1>d, <2>2, <5>1 DEF Disturbs, Lower
        <5> QED BY <3>2, <5>2 DEF Undisturbed
      <4>2. UserProgress(q)
        BY <1>a, <1>d, <2>2, <3>2, <4>1 DEF Progress
      <4> QED BY <1>d, <2>2, <4>2 DEF UserProgress
    <3> QED BY <3>1, <3>2
  <2> QED BY <2>1, <2>2
<1> QED BY <1>a, <1>1, <1>2, <1>3, <1>4 DEF UsableInv

\* The death of the process ends requests and changes nothing they have done.
LEMMA CrashUsable ==
  ASSUME UsableInv, Crash
  PROVE  UsableInv'
<1>a. TypeInv /\ EarlierEnded /\ NotYetThere /\ RoleOwned /\ Progress /\ TypeInv'
  BY TypeInvInductive DEF UsableInv, Next
<1>b. /\ \A q \in Reqs :
           /\ pc'[q] = pc[q] \/ (pc'[q] = "gone" /\ pc[q] # "idle")
           /\ pc[q] \in Ended => pc'[q] = pc[q]
      /\ UNCHANGED <<db, args, idx, earlier>>
  BY <1>a DEF Crash, TypeInv, TypeOK
<1>1. EarlierEnded' /\ NotYetThere' /\ RoleOwned'
  BY <1>a, <1>b DEF EarlierEnded, NotYetThere, RoleOwned
<1>2. Progress'
  <2> SUFFICES ASSUME NEW q \in Reqs, pc'[q] # "idle"
               PROVE  /\ args'[q].op = "create" /\ Alone(q)' => CreateProgress(q)'
                      /\ args'[q].op = "createUser" /\ Undisturbed(q)' => UserProgress(q)'
    BY DEF Progress
  <2>1. CASE pc'[q] = "gone"
    BY <2>1 DEF CreateProgress, UserProgress
  <2>2. CASE pc'[q] = pc[q]
    <3>1. Alone(q)' => Alone(q)
      BY <1>b DEF Alone, Interferes, Lower
    <3>2. Undisturbed(q)' => Undisturbed(q)
      BY <1>b DEF Undisturbed, Disturbs, RollingBack, Lower
    <3> QED BY <1>a, <1>b, <2>2, <3>1, <3>2 DEF Progress, CreateProgress, UserProgress
  <2> QED BY <1>b, <2>1, <2>2
<1> QED BY <1>a, <1>1, <1>2 DEF UsableInv

\* What the created things rest on holds initially and is kept by every step.
LEMMA UsableInductive ==
  /\ Init => UsableInv
  /\ UsableInv /\ [Next]_vars => UsableInv'
<1>1. ASSUME Init PROVE UsableInv
  <2>1. TypeInv
    BY <1>1, TypeInvInductive
  <2>2. EarlierEnded /\ NotYetThere /\ Progress
    BY <1>1 DEF Init, EarlierEnded, NotYetThere, Progress
  <2>3. RoleOwned
    BY <1>1, AdapterAssumption DEF Init, RoleOwned, AllUsers
  <2> QED BY <2>1, <2>2, <2>3 DEF UsableInv
<1>2. ASSUME UsableInv, [Next]_vars PROVE UsableInv'
  <2>1. CASE UNCHANGED vars
    <3>1. TypeInv'
      BY <1>2, TypeInvInductive DEF UsableInv
    <3>2. EarlierEnded' /\ NotYetThere' /\ RoleOwned'
      BY <1>2, <2>1 DEF UsableInv, vars, EarlierEnded, NotYetThere, RoleOwned
    <3>3. Progress'
      BY <1>2, <2>1 DEF UsableInv, vars, Progress, Alone, Interferes, Undisturbed, Disturbs,
                        CreateProgress, UserProgress, Lower
    <3> QED BY <3>1, <3>2, <3>3 DEF UsableInv
  <2> QED BY <1>2, <2>1, StepUsable, ArriveUsable, CrashUsable DEF Next
<1> QED BY <1>1, <1>2

(***************************************************************************)
(* A database that CreateDatabase returned is usable, and stays so, among  *)
(* any number of requests for any databases and users, and whatever fails: *)
(* short of the requests the property excludes.                            *)
(***************************************************************************)
THEOREM DatabasesUsable == Spec => []DatabaseUsable
<1>1. UsableInv => DatabaseUsable
  <2> SUFFICES ASSUME UsableInv, NEW r \in Reqs, args[r].op = "create", pc[r] = "done",
                      \A q \in Reqs \ {r} : ~Interferes(q, r)
               PROVE  /\ db.owner[args[r].db] = r
                      /\ db.metadata[args[r].db] # None /\ db.replication[args[r].db] # None
                      /\ db.roles[args[r].user] = r
                      /\ <<args[r].db, args[r].user>> \in db.grants
    BY DEF DatabaseUsable
  <2>1. CreateProgress(r)
    BY DEF UsableInv, Progress, Alone
  <2> QED BY <2>1 DEF CreateProgress
<1> QED BY <1>1, UsableInductive, PTL DEF Spec

(***************************************************************************)
(* The user a CreateUser returned has the returned password and, for a     *)
(* role that has permissions, its permission, among any number of requests *)
(* and whatever fails: short of the concurrent requests the property       *)
(* excludes. It promises no permission to a user of an unsupported role.   *)
(***************************************************************************)
THEOREM UsersUsable == Spec => []UserUsable
<1>1. UsableInv => UserUsable
  <2> SUFFICES ASSUME UsableInv, NEW r \in Reqs, args[r].op = "createUser", pc[r] = "done",
                      \A q \in Reqs \ {r} : ~Races(q, r)
               PROVE  /\ db.roles[args[r].user] = r
                      /\ args[r].db # None /\ args[r].known =>
                           <<args[r].db, args[r].user>> \in db.grants
    BY DEF UserUsable
  <2>1. Undisturbed(r)
    BY DEF Undisturbed, Disturbs, Races, RollingBack
  <2>2. UserProgress(r)
    BY <2>1 DEF UsableInv, Progress
  <2> QED BY <2>2 DEF UserProgress
<1> QED BY <1>1, UsableInductive, PTL DEF Spec
=============================================================================
