------------------------- MODULE CredentialRotation -------------------------
(***************************************************************************)
(* The Cassandra operator's password and the server that lives on it.      *)
(*                                                                         *)
(* The administrator changes the password in a secret; the operator brings *)
(* it into the database with the help of the credential manager, which     *)
(* keeps the previous password in a second secret. A pass works with the   *)
(* password it read when it began. The first pass without changes of the   *)
(* specification starts a server, whose smoke tests go on for the life of  *)
(* the process with the password of that pass.                             *)
(*                                                                         *)
(* Passwords are numbered in the order they are set. The configured user   *)
(* is not the default one. The steps of a full pass that neither log in    *)
(* nor touch a password are in module CassandraDeploy.                     *)
(***************************************************************************)
EXTENDS Naturals, Sequences

CONSTANTS
  MaxRotations,  \* bound on changes of the secret
  MaxEdits,      \* bound on edits of the custom resource
  MaxFailures,   \* bound on failed passes and deaths of the operator
  MaxOutages,    \* bound on outages of Cassandra
  MaxDrops,      \* bound on losses of the smoke test's table
  None           \* nothing there

ASSUME RotationAssumption ==
  /\ {MaxRotations, MaxEdits, MaxFailures, MaxOutages, MaxDrops} \subseteq Nat
  /\ None \notin Nat

Passwords == 1..MaxRotations + 1
Tests == <<"insert", "select", "delete">>
TestNames == {Tests[i] : i \in 1..Len(Tests)}
Steps == {"idle", "setPassword", "serve", "checkLogin", "createUser", "actualize",
          "alterRole", "saveOld", "later", "done"}

VARIABLES
  secret,     \* the password in the secret
  oldSecret,  \* the one in the credential manager's copy
  role,       \* the one Cassandra accepts for the configured user
  defaultUser,   \* whether the default user can still log in
  deployed,   \* whether a pass has created the claims
  spec, recorded,   \* versions of the custom resource
  pc,         \* the step of the running pass
  pass,       \* what it works with: version, deploy type, password, and the
              \* two passwords given to the credential manager's callback
  server,     \* the server: its password, schemaCreated, the next test
  metric,     \* the result last exposed for each test
  up,         \* Cassandra answers
  table,      \* the smoke test's table exists
  spent,      \* how much of each bound is used up
  mishaps     \* history: what went wrong in a way the code does not repair

passVars == <<pc, pass>>
dbVars == <<role, defaultUser, up, table>>
vars == <<secret, oldSecret, spec, recorded, deployed, passVars, server, metric,
          dbVars, spent, mishaps>>

NoPass == [spec |-> 0, type |-> "none", password |-> None, new |-> None, old |-> None]
NoServer == [on |-> FALSE, password |-> None, schemaCreated |-> FALSE, test |-> 1]

Maybe == Passwords \cup {None}
PassRecords ==
  [spec : 0..MaxEdits + 1, type : {"none", "clean", "update", "check"},
   password : Maybe, new : Maybe, old : Maybe]
ServerRecords ==
  [on : BOOLEAN, password : Maybe, schemaCreated : BOOLEAN, test : 1..Len(Tests)]
Budgets ==
  [rotations : 0..MaxRotations, edits : 0..MaxEdits, failures : 0..MaxFailures,
   outages : 0..MaxOutages, drops : 0..MaxDrops]

TypeOK ==
  /\ secret \in Passwords /\ oldSecret \in Maybe /\ role \in Maybe
  /\ defaultUser \in BOOLEAN /\ deployed \in BOOLEAN
  /\ up \in BOOLEAN /\ table \in BOOLEAN
  /\ spec \in 1..MaxEdits + 1 /\ recorded \in 0..spec
  /\ pc \in Steps
  /\ pass \in PassRecords /\ pass.spec <= spec
  /\ pc \in {"alterRole", "saveOld"} => pass.new # None /\ pass.old # None
  /\ server \in ServerRecords /\ (server.on => server.password # None)
  /\ metric \in [TestNames -> {0, 1}]
  /\ spent \in Budgets
  /\ mishaps \subseteq {"interrupted", "lost", "crossed", "collided"}

Init ==
  /\ secret = 1 /\ oldSecret = None /\ role = None
  /\ defaultUser = TRUE /\ deployed = FALSE
  /\ spec = 1 /\ recorded = 0
  /\ pc = "idle" /\ pass = NoPass
  /\ server = NoServer /\ metric = [t \in TestNames |-> 0]
  /\ up = TRUE /\ table = FALSE
  /\ spent = [rotations |-> 0, edits |-> 0, failures |-> 0, outages |-> 0, drops |-> 0]
  /\ mishaps = {}
-----------------------------------------------------------------------------
(* A pass of the operator.                                                 *)

CanLogIn(password) == up /\ role = password
passRest == <<secret, spec, recorded, server, metric, up, table, spent>>

(***************************************************************************)
(* The operator core calls the full builder when the specification has     *)
(* changed, and only the step of UpdatePassword when it has not. Before    *)
(* either it reads the password and, without changes, starts the server.   *)
(***************************************************************************)
Reconcile ==
  /\ pc = "idle"
  /\ spec # recorded \/ secret # oldSecret \/ ~server.on
  /\ pc' = "setPassword"
  /\ pass' = [NoPass EXCEPT !.spec = spec,
                            !.type = IF spec = recorded THEN "check"
                                     ELSE IF deployed THEN "update" ELSE "clean"]
  /\ UNCHANGED <<passRest, oldSecret, deployed, role, defaultUser, mishaps>>

SetPasswordFromSecret ==
  /\ pc = "setPassword"
  /\ pass' = [pass EXCEPT !.password = secret]
  /\ pc' = IF pass.type = "check" THEN "serve" ELSE "checkLogin"
  /\ deployed' = (deployed \/ pass.type # "check")
  /\ UNCHANGED <<passRest, oldSecret, role, defaultUser, mishaps>>

\* Started once: a later pass leaves the server with the password it has.
RunFiberServer ==
  /\ pc = "serve"
  /\ server' = IF server.on THEN server
               ELSE [NoServer EXCEPT !.on = TRUE, !.password = pass.password]
  /\ pc' = "actualize"
  /\ UNCHANGED <<secret, spec, recorded, metric, up, table, spent, pass, oldSecret,
                 deployed, role, defaultUser, mishaps>>

\* The condition of CreateSuperUser.
CheckLogin ==
  /\ pc = "checkLogin"
  /\ pc' = IF CanLogIn(pass.password) THEN "actualize" ELSE "createUser"
  /\ UNCHANGED <<passRest, pass, oldSecret, deployed, role, defaultUser, mishaps>>

\* As the default user; CREATE ROLE IF NOT EXISTS leaves an existing one alone.
CreateUser ==
  /\ pc = "createUser"
  /\ up /\ defaultUser
  /\ role' = IF role = None THEN pass.password ELSE role
  /\ pc' = "actualize"
  /\ UNCHANGED <<passRest, pass, oldSecret, deployed, defaultUser, mishaps>>

NextAfterCreds == IF pass.type = "check" THEN "done" ELSE "later"

(***************************************************************************)
(* ActualizeCreds of the credential manager: without a copy of the secret  *)
(* it makes one, with an equal one it does nothing, and with a different   *)
(* one it calls back with both passwords before it renews the copy.        *)
(***************************************************************************)
ActualizeCreds ==
  /\ pc = "actualize"
  /\ IF oldSecret \in {None, secret}
       THEN /\ oldSecret' = secret
            /\ mishaps' = IF oldSecret = None /\ role \notin {None, secret}
                            THEN mishaps \cup {"crossed"} ELSE mishaps
            /\ pc' = NextAfterCreds
            /\ UNCHANGED pass
       ELSE /\ pass' = [pass EXCEPT !.new = secret, !.old = oldSecret]
            /\ pc' = "alterRole"
            /\ UNCHANGED <<oldSecret, mishaps>>
  /\ UNCHANGED <<passRest, deployed, role, defaultUser>>

\* Mutant: the operator logs in with the new password to set it.
UpdateUserPassLoginNew == pass.new

\* The password of the session that alters the role.
UpdateUserPassLogin == pass.old

\* The callback: log in with the old password and set the new one.
UpdateUserPass ==
  /\ pc = "alterRole"
  /\ CanLogIn(UpdateUserPassLogin)
  /\ role' = pass.new
  /\ pc' = "saveOld"
  /\ UNCHANGED <<passRest, pass, oldSecret, deployed, defaultUser, mishaps>>

\* Mutant: the secret is read again to renew the copy.
SaveOldSecretLatest ==
  /\ pc = "saveOld"
  /\ oldSecret' = secret
  /\ pc' = NextAfterCreds
  /\ UNCHANGED <<passRest, pass, deployed, role, defaultUser, mishaps>>

SaveOldSecret ==
  /\ pc = "saveOld"
  /\ oldSecret' = pass.new
  /\ pc' = NextAfterCreds
  /\ UNCHANGED <<passRest, pass, deployed, role, defaultUser, mishaps>>

\* The steps after the credentials log in with the password read at first;
\* the last one, in a clean deployment, drops the default user.
LaterSteps ==
  /\ pc = "later"
  /\ CanLogIn(pass.password)
  /\ defaultUser' = (defaultUser /\ pass.type # "clean")
  /\ pc' = "done"
  /\ UNCHANGED <<passRest, pass, oldSecret, deployed, role, mishaps>>

Finish ==
  /\ pc = "done"
  /\ recorded' = pass.spec
  /\ pc' = "idle" /\ pass' = NoPass
  /\ UNCHANGED <<secret, spec, server, metric, up, table, spent, oldSecret, deployed,
                 role, defaultUser, mishaps>>

\* A step cannot log in: the pass fails and is repeated. When a full pass needs
\* the default user and it is gone, no repetition helps.
LoginFails ==
  /\ \/ pc = "createUser" /\ ~(up /\ defaultUser)
     \/ pc = "alterRole" /\ ~CanLogIn(UpdateUserPassLogin)
     \/ pc = "later" /\ ~CanLogIn(pass.password)
  /\ mishaps' = IF pc = "createUser" /\ up THEN mishaps \cup {"collided"} ELSE mishaps
  /\ pc' = "idle" /\ pass' = NoPass
  /\ UNCHANGED <<passRest, oldSecret, deployed, role, defaultUser>>

Operator ==
  \/ Reconcile \/ SetPasswordFromSecret \/ RunFiberServer \/ CheckLogin \/ CreateUser
  \/ ActualizeCreds \/ UpdateUserPass \/ SaveOldSecret \/ LaterSteps \/ Finish
  \/ LoginFails

\* A cut between ALTER ROLE and the copy; the new password is lost if the
\* secret already holds another one.
Interrupted ==
  mishaps \cup {e \in {"interrupted", "lost"} :
                  pc = "saveOld" /\ (e = "lost" => pass.new # secret)}

\* Any error, or the death of the process; a callback that timed out after
\* its ALTER ROLE is a failure at "saveOld".
PassFails ==
  /\ pc # "idle" \/ server.on
  /\ spent.failures < MaxFailures
  /\ spent' = [spent EXCEPT !.failures = @ + 1]
  /\ server' \in {server, NoServer}
  /\ pc' = "idle" /\ pass' = NoPass
  /\ mishaps' = Interrupted
  /\ UNCHANGED <<secret, oldSecret, spec, recorded, deployed, metric, dbVars>>
-----------------------------------------------------------------------------
(* The smoke tests of the server.                                          *)

serverRest == <<secret, oldSecret, spec, recorded, deployed, dbVars, spent>>

\* Mutant: the loop is off by one.
NextTestPastEnd == server.test + 1

NextTest == (server.test % Len(Tests)) + 1

Expose(result) == metric' = [metric EXCEPT ![Tests[server.test]] = result]

\* GetSession, and with it the CREATE statements, fail or succeed.
PrepareSchemaFails ==
  /\ server.on /\ ~server.schemaCreated
  /\ ~CanLogIn(server.password)
  /\ Expose(0)
  /\ server' = [server EXCEPT !.test = NextTest]
  /\ UNCHANGED <<serverRest, passVars, mishaps>>

PrepareSchema ==
  /\ server.on /\ ~server.schemaCreated
  /\ CanLogIn(server.password)
  /\ table' = TRUE
  /\ server' = [server EXCEPT !.schemaCreated = TRUE]
  /\ UNCHANGED <<secret, oldSecret, spec, recorded, deployed, role, defaultUser, up,
                 spent, metric, passVars, mishaps>>

\* Mutant: the schema is created only once.
PerformTestOnce ==
  /\ server.on /\ server.schemaCreated
  /\ CanLogIn(server.password)
  /\ Expose(IF table THEN 1 ELSE 0)
  /\ server' = [server EXCEPT !.test = NextTest]
  /\ UNCHANGED <<serverRest, passVars, mishaps>>

PerformTest ==
  /\ server.on /\ server.schemaCreated
  /\ CanLogIn(server.password)
  /\ Expose(IF table THEN 1 ELSE 0)
  /\ server' = [server EXCEPT !.test = NextTest, !.schemaCreated = table]
  /\ UNCHANGED <<serverRest, passVars, mishaps>>

(***************************************************************************)
(* The error of GetSession is only logged and the session is used. What    *)
(* the driver returns along with an error is not known here: nil, and the  *)
(* process dies of it, in whatever step the pass is, or a session whose    *)
(* query fails.                                                            *)
(***************************************************************************)
PerformTestNoSession ==
  /\ server.on /\ server.schemaCreated
  /\ ~CanLogIn(server.password)
  /\ \/ /\ server' = NoServer
        /\ pc' = "idle" /\ pass' = NoPass
        /\ mishaps' = Interrupted
        /\ UNCHANGED metric
     \/ /\ Expose(0)
        /\ server' = [server EXCEPT !.test = NextTest, !.schemaCreated = FALSE]
        /\ UNCHANGED <<passVars, mishaps>>
  /\ UNCHANGED serverRest

calculateMetrics == PrepareSchemaFails \/ PrepareSchema \/ PerformTest \/ PerformTestNoSession
-----------------------------------------------------------------------------
(* The environment.                                                        *)

envRest == <<oldSecret, recorded, deployed, passVars, server, metric, role, defaultUser>>

Rotate ==
  /\ spent.rotations < MaxRotations
  /\ spent' = [spent EXCEPT !.rotations = @ + 1]
  /\ secret' = secret + 1
  /\ mishaps' = IF "interrupted" \in mishaps THEN mishaps \cup {"lost"} ELSE mishaps
  /\ UNCHANGED <<envRest, spec, up, table>>

Edit ==
  /\ spent.edits < MaxEdits
  /\ spent' = [spent EXCEPT !.edits = @ + 1]
  /\ spec' = spec + 1
  /\ UNCHANGED <<envRest, secret, up, table, mishaps>>

CassandraDown ==
  /\ up /\ spent.outages < MaxOutages
  /\ spent' = [spent EXCEPT !.outages = @ + 1]
  /\ up' = FALSE
  /\ UNCHANGED <<envRest, secret, spec, table, mishaps>>

CassandraUp ==
  /\ ~up
  /\ up' = TRUE
  /\ UNCHANGED <<envRest, secret, spec, table, spent, mishaps>>

TableLost ==
  /\ table /\ spent.drops < MaxDrops
  /\ spent' = [spent EXCEPT !.drops = @ + 1]
  /\ table' = FALSE
  /\ UNCHANGED <<envRest, secret, spec, up, mishaps>>

Next ==
  \/ Operator \/ PassFails \/ calculateMetrics
  \/ Rotate \/ Edit \/ CassandraDown \/ CassandraUp \/ TableLost

(***************************************************************************)
(* The controller calls the operator again after a pass that failed; the   *)
(* smoke tests are a loop of their own; an outage ends. The controller     *)
(* watches the CassandraDeployment and not the secret: that a change of    *)
(* the secret alone leads to a Reconcile rests on the operator core or on  *)
(* the periodic resync of controller-runtime, and is assumed.              *)
(***************************************************************************)
Fairness == WF_vars(Operator) /\ WF_vars(calculateMetrics) /\ WF_vars(CassandraUp)

Spec == Init /\ [][Next]_vars /\ Fairness
-----------------------------------------------------------------------------
(* Properties.                                                             *)

(***************************************************************************)
(* Once the secret has been copied the operator never loses the password:  *)
(* what Cassandra accepts is in the secret or in its copy, or the running  *)
(* pass has it, whatever rotations, failures and outages come in between.  *)
(* It does lose it when the secret changes between the creation of the     *)
(* user and the first copy ("crossed"), and when it changes again during   *)
(* or after a rotation that was cut off before the copy was renewed        *)
(* ("lost").                                                               *)
(***************************************************************************)
KnownPassword ==
  oldSecret # None /\ mishaps \cap {"crossed", "lost"} = {}
    => role \in {secret, oldSecret, pass.new}

(***************************************************************************)
(* Every rotation is completed: once the secret stays as it is, Cassandra  *)
(* and the copy get its password and the specification is applied. What    *)
(* stands in the way are the mishaps: a rotation cut off between ALTER     *)
(* ROLE and the renewal of the copy is never taken up again, and a change  *)
(* of the specification together with a rotation fails for good, because   *)
(* CreateSuperUser comes before UpdateCassandraCredentials.                *)
(***************************************************************************)
RotationCompletes ==
  <>[](mishaps = {}) => <>[](role = secret /\ oldSecret = secret /\ recorded = spec)

(***************************************************************************)
(* The smoke tests recover from an outage and from the loss of their       *)
(* table: with a server whose password is still the valid one, all results *)
(* are 1 in the end.                                                       *)
(***************************************************************************)
SmokeHeals ==
  <>[](server.on /\ server.password = role) => <>[](\A t \in TestNames : metric[t] = 1)
=============================================================================
