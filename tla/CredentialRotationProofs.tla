---------------------- MODULE CredentialRotationProofs ----------------------
(***************************************************************************)
(* Theorems about CredentialRotation for any number of rotations, edits,   *)
(* failures, outages and lost tables: type correctness, and that the       *)
(* operator knows the password Cassandra accepts.                          *)
(***************************************************************************)
EXTENDS CredentialRotation, TLAPS

(***************************************************************************)
(* Types, with what keeps the passwords and versions within their bounds:  *)
(* they count the changes. From the moment a pass has read the secret it   *)
(* has a password.                                                         *)
(***************************************************************************)
TypeInv ==
  /\ TypeOK
  /\ secret = spent.rotations + 1
  /\ spec = spent.edits + 1
  /\ pc \notin {"idle", "setPassword"} => pass.password # None

(***************************************************************************)
(* Why the password is known.                                              *)
(*  - Until the user exists there is no copy of the secret, nothing has    *)
(*    been recorded as applied, and so every pass is a full one: it comes  *)
(*    to the credentials only after it has created the user.               *)
(*  - Once there is a copy, and short of the two mishaps, Cassandra has    *)
(*    the password of the copy, except from ALTER ROLE to the renewal of   *)
(*    the copy; a pass cut off there leaves the one of the secret.         *)
(***************************************************************************)
NoUserYet ==
  role = None =>
    /\ oldSecret = None /\ recorded = 0
    /\ pc \in {"idle", "setPassword", "checkLogin", "createUser"}
    /\ pass.type # "check"

RoleKnown ==
  oldSecret # None /\ mishaps \cap {"crossed", "lost"} = {} =>
    \/ role = oldSecret
    \/ pc = "saveOld" /\ role = pass.new
    \/ "interrupted" \in mishaps /\ role = secret

PasswordInv ==
  /\ TypeInv
  /\ NoUserYet
  /\ RoleKnown
  /\ pc = "saveOld" => role = pass.new
-----------------------------------------------------------------------------
\* The empty records are of the types of pass and server.
LEMMA RecordTypes ==
  /\ NoPass \in PassRecords
  /\ NoPass.password = None /\ NoPass.new = None /\ NoPass.old = None
  /\ NoPass.spec = 0 /\ NoPass.type = "none"
  /\ NoServer \in ServerRecords /\ NoServer.on = FALSE
  /\ Len(Tests) = 3
BY RotationAssumption DEF NoPass, NoServer, PassRecords, ServerRecords, Maybe, Tests

\* Passwords are numbers, and none of them is the missing one.
LEMMA PasswordTypes ==
  /\ Passwords \subseteq Maybe /\ None \in Maybe /\ None \notin Passwords
  /\ \A n \in 0..MaxRotations : n + 1 \in Passwords
  /\ \A p \in Maybe : p # None => p \in Passwords
BY RotationAssumption DEF Passwords, Maybe

\* The next smoke test is one of the three.
LEMMA TestType ==
  ASSUME server \in ServerRecords
  PROVE  NextTest \in 1..Len(Tests)
<1>1. server.test \in 1..3
  BY RecordTypes DEF ServerRecords
<1>2. \A n \in 1..3 : (n % 3) + 1 \in 1..3
  OBVIOUS
<1> QED BY <1>1, <1>2, RecordTypes DEF NextTest

\* The types hold in every step.
LEMMA TypeInvariant == Spec => []TypeInv
<1>1. Init => TypeInv
  <2> SUFFICES ASSUME Init PROVE TypeInv
    OBVIOUS
  <2>1. spent \in Budgets /\ spent.rotations = 0 /\ spent.edits = 0
    BY RotationAssumption DEF Init, Budgets
  <2>2. 1 \in Passwords /\ 1 \in 1..MaxEdits + 1
    BY RotationAssumption DEF Passwords
  <2>3. metric \in [TestNames -> {0, 1}]
    BY DEF Init
  <2>4. /\ defaultUser \in BOOLEAN /\ deployed \in BOOLEAN
        /\ up \in BOOLEAN /\ table \in BOOLEAN
    BY DEF Init
  <2>5. /\ secret = 1 /\ oldSecret = None /\ role = None /\ spec = 1 /\ recorded = 0
        /\ pc = "idle" /\ pass = NoPass /\ server = NoServer /\ mishaps = {}
    BY DEF Init
  <2> QED
    BY <2>1, <2>2, <2>3, <2>4, <2>5, RecordTypes, PasswordTypes DEF TypeInv, TypeOK, Steps
<1>2. TypeInv /\ [Next]_vars => TypeInv'
  <2> SUFFICES ASSUME TypeInv, [Next]_vars PROVE TypeInv'
    OBVIOUS
  <2>a. /\ MaxEdits \in Nat
        /\ pass.spec \in 0..MaxEdits + 1
        /\ pass.new \in Maybe /\ pass.password \in Maybe
    BY RotationAssumption DEF TypeInv, TypeOK, PassRecords
  <2>b. ASSUME NEW r \in {0, 1}, Expose(r)
        PROVE  metric' \in [TestNames -> {0, 1}]
    BY <2>b DEF Expose, TypeInv, TypeOK
  <2> USE RecordTypes, PasswordTypes, <2>a DEF TypeInv, TypeOK
  <2>1. CASE Reconcile
    <3>1. PICK t \in {"none", "clean", "update", "check"} :
            pass' = [NoPass EXCEPT !.spec = spec, !.type = t]
      BY <2>1 DEF Reconcile
    <3>2. pass' = [spec |-> spec, type |-> t, password |-> None, new |-> None, old |-> None]
      BY <3>1 DEF NoPass
    <3>3. pass' \in PassRecords /\ pass'.spec = spec
      BY <3>2 DEF PassRecords
    <3> QED BY <2>1, <3>3 DEF Reconcile, passRest, Steps
  <2>2. CASE SetPasswordFromSecret
    <3>1. /\ pass' \in PassRecords /\ pass'.spec = pass.spec
          /\ pass'.password = secret
      BY <2>2 DEF SetPasswordFromSecret, PassRecords
    <3> QED BY <2>2, <3>1 DEF SetPasswordFromSecret, passRest, Steps
  <2>3. CASE RunFiberServer
    <3>1. server' \in ServerRecords /\ server'.password # None
      BY <2>3 DEF RunFiberServer, NoServer, ServerRecords
    <3> QED BY <2>3, <3>1 DEF RunFiberServer, Steps
  <2>4. CASE CheckLogin
    BY <2>4 DEF CheckLogin, passRest, Steps
  <2>5. CASE CreateUser
    BY <2>5 DEF CreateUser, passRest, Steps
  <2>6. CASE ActualizeCreds
    <3>1. CASE oldSecret \in {None, secret}
      BY <2>6, <3>1 DEF ActualizeCreds, NextAfterCreds, passRest, Steps
    <3>2. CASE oldSecret \notin {None, secret}
      <4>1. /\ pass' \in PassRecords /\ pass'.spec = pass.spec
            /\ pass'.password = pass.password
            /\ pass'.new = secret /\ pass'.old = oldSecret
        BY <2>6, <3>2 DEF ActualizeCreds, PassRecords
      <4> QED BY <2>6, <3>2, <4>1 DEF ActualizeCreds, passRest, Steps
    <3> QED BY <3>1, <3>2
  <2>7. CASE UpdateUserPass
    BY <2>7 DEF UpdateUserPass, passRest, Steps
  <2>8. CASE SaveOldSecret
    BY <2>8 DEF SaveOldSecret, NextAfterCreds, passRest, Steps
  <2>9. CASE LaterSteps
    BY <2>9 DEF LaterSteps, passRest, Steps
  <2>10. CASE Finish
    BY <2>10 DEF Finish, Steps
  <2>11. CASE LoginFails
    BY <2>11 DEF LoginFails, passRest, Steps
  <2>12. CASE PassFails
    <3>1. /\ spent' \in Budgets
          /\ spent'.rotations = spent.rotations /\ spent'.edits = spent.edits
      BY <2>12, RotationAssumption DEF PassFails, Budgets
    <3>2. mishaps' \subseteq {"interrupted", "lost", "crossed", "collided"}
      BY <2>12 DEF PassFails, Interrupted
    <3> QED BY <2>12, <3>1, <3>2 DEF PassFails, dbVars, Steps
  <2>13. CASE PrepareSchemaFails
    <3>1. server' \in ServerRecords /\ server'.password = server.password
      BY <2>13, TestType DEF PrepareSchemaFails, ServerRecords
    <3> QED
      BY <2>13, <2>b, <3>1 DEF PrepareSchemaFails, serverRest, passVars, dbVars
  <2>14. CASE PrepareSchema
    <3>1. server' \in ServerRecords /\ server'.password = server.password
      BY <2>14 DEF PrepareSchema, ServerRecords
    <3> QED BY <2>14, <3>1 DEF PrepareSchema, passVars
  <2>15. CASE PerformTest
    <3>1. server' \in ServerRecords /\ server'.password = server.password
      BY <2>15, TestType DEF PerformTest, ServerRecords
    <3> QED BY <2>15, <2>b, <3>1 DEF PerformTest, serverRest, passVars, dbVars
  <2>16. CASE PerformTestNoSession
    <3>1. CASE UNCHANGED metric /\ server' = NoServer
      BY <2>16, <3>1
      DEF PerformTestNoSession, Interrupted, serverRest, passVars, dbVars, Steps
    <3>2. CASE /\ Expose(0) /\ UNCHANGED <<passVars, mishaps>>
               /\ server' = [server EXCEPT !.test = NextTest, !.schemaCreated = FALSE]
      <4>1. server' \in ServerRecords /\ server'.password = server.password
        BY <3>2, TestType DEF ServerRecords
      <4> QED
        BY <2>16, <2>b, <3>2, <4>1
        DEF PerformTestNoSession, serverRest, passVars, dbVars
    <3> QED BY <2>16, <3>1, <3>2 DEF PerformTestNoSession
  <2>17. CASE Rotate
    <3>1. /\ spent' \in Budgets
          /\ spent'.rotations = spent.rotations + 1 /\ spent'.edits = spent.edits
      BY <2>17, RotationAssumption DEF Rotate, Budgets
    <3>2. secret' \in Passwords
      BY <2>17, RotationAssumption DEF Rotate, Budgets
    <3> QED BY <2>17, <3>1, <3>2 DEF Rotate, envRest, passVars
  <2>18. CASE Edit
    <3>1. /\ spent' \in Budgets
          /\ spent'.edits = spent.edits + 1 /\ spent'.rotations = spent.rotations
      BY <2>18, RotationAssumption DEF Edit, Budgets
    <3>2. spec' \in 1..MaxEdits + 1
      BY <2>18, RotationAssumption DEF Edit, Budgets
    <3> QED BY <2>18, <3>1, <3>2 DEF Edit, envRest, passVars
  <2>19. CASE CassandraDown
    <3>1. /\ spent' \in Budgets
          /\ spent'.rotations = spent.rotations /\ spent'.edits = spent.edits
      BY <2>19, RotationAssumption DEF CassandraDown, Budgets
    <3> QED BY <2>19, <3>1 DEF CassandraDown, envRest, passVars
  <2>20. CASE CassandraUp
    BY <2>20 DEF CassandraUp, envRest, passVars
  <2>21. CASE TableLost
    <3>1. /\ spent' \in Budgets
          /\ spent'.rotations = spent.rotations /\ spent'.edits = spent.edits
      BY <2>21, RotationAssumption DEF TableLost, Budgets
    <3> QED BY <2>21, <3>1 DEF TableLost, envRest, passVars
  <2>22. CASE UNCHANGED vars
    BY <2>22 DEF vars, passVars, dbVars
  <2> QED
    BY <2>1, <2>2, <2>3, <2>4, <2>5, <2>6, <2>7, <2>8, <2>9, <2>10, <2>11, <2>12, <2>13,
       <2>14, <2>15, <2>16, <2>17, <2>18, <2>19, <2>20, <2>21, <2>22
    DEF Next, Operator, calculateMetrics
<1> QED BY <1>1, <1>2, PTL DEF Spec

(***************************************************************************)
(* Every reachable state is well typed, however often the secret and the   *)
(* custom resource change: no password is set that was never in the        *)
(* secret, and the server always has one.                                  *)
(***************************************************************************)
THEOREM TypeCorrect == Spec => []TypeOK
<1>1. TypeInv => TypeOK
  BY DEF TypeInv
<1> QED BY <1>1, TypeInvariant, PTL
-----------------------------------------------------------------------------
\* The user exists before anything is recorded or copied, and from then on
\* its password is accounted for in every step.
LEMMA PasswordInvariant == Spec => []PasswordInv
<1>1. Init => NoUserYet /\ RoleKnown /\ (pc = "saveOld" => role = pass.new)
  BY RecordTypes DEF Init, NoUserYet, RoleKnown
<1>2. TypeInv /\ TypeInv' /\ PasswordInv /\ [Next]_vars => PasswordInv'
  <2> SUFFICES ASSUME TypeInv, TypeInv', PasswordInv, [Next]_vars
               PROVE  (NoUserYet /\ RoleKnown /\ (pc = "saveOld" => role = pass.new))'
    BY DEF PasswordInv
  <2>a. /\ secret \in Passwords /\ None \notin Passwords
        /\ pass \in PassRecords /\ pass.password \in Maybe
        /\ spec \in Nat /\ spec > 0 /\ recorded \in Nat
        /\ pc \in {"alterRole", "saveOld"} => pass.new # None /\ pass.old # None
        /\ pc \notin {"idle", "setPassword"} => pass.password # None
    BY RotationAssumption, PasswordTypes DEF TypeInv, TypeOK, PassRecords
  <2>b. /\ NoUserYet /\ RoleKnown
        /\ pc = "saveOld" => role = pass.new
    BY DEF PasswordInv
  <2> USE <2>a, <2>b, RecordTypes DEF NoUserYet, RoleKnown
  <2>1. CASE Reconcile
    BY <2>1 DEF Reconcile, passRest
  <2>2. CASE SetPasswordFromSecret
    BY <2>2 DEF SetPasswordFromSecret, passRest
  <2>3. CASE RunFiberServer
    BY <2>3 DEF RunFiberServer
  <2>4. CASE CheckLogin
    BY <2>4 DEF CheckLogin, CanLogIn, passRest
  <2>5. CASE CreateUser
    BY <2>5 DEF CreateUser, passRest
  <2>6. CASE ActualizeCreds
    BY <2>6 DEF ActualizeCreds, NextAfterCreds, passRest
  <2>7. CASE UpdateUserPass
    BY <2>7 DEF UpdateUserPass, passRest
  <2>8. CASE SaveOldSecret
    BY <2>8 DEF SaveOldSecret, NextAfterCreds, passRest
  <2>9. CASE LaterSteps
    BY <2>9 DEF LaterSteps, passRest
  <2>10. CASE Finish
    BY <2>10 DEF Finish
  <2>11. CASE LoginFails
    BY <2>11 DEF LoginFails, passRest
  <2>12. CASE PassFails
    BY <2>12 DEF PassFails, Interrupted, dbVars
  <2>13. CASE PrepareSchemaFails
    BY <2>13 DEF PrepareSchemaFails, serverRest, passVars, dbVars
  <2>14. CASE PrepareSchema
    BY <2>14 DEF PrepareSchema, passVars
  <2>15. CASE PerformTest
    BY <2>15 DEF PerformTest, serverRest, passVars, dbVars
  <2>16. CASE PerformTestNoSession
    BY <2>16 DEF PerformTestNoSession, Interrupted, serverRest, passVars, dbVars
  <2>17. CASE Rotate
    BY <2>17 DEF Rotate, envRest, passVars
  <2>18. CASE Edit
    BY <2>18 DEF Edit, envRest, passVars
  <2>19. CASE CassandraDown
    BY <2>19 DEF CassandraDown, envRest, passVars
  <2>20. CASE CassandraUp
    BY <2>20 DEF CassandraUp, envRest, passVars
  <2>21. CASE TableLost
    BY <2>21 DEF TableLost, envRest, passVars
  <2>22. CASE UNCHANGED vars
    BY <2>22 DEF vars, passVars, dbVars
  <2> QED
    BY <2>1, <2>2, <2>3, <2>4, <2>5, <2>6, <2>7, <2>8, <2>9, <2>10, <2>11, <2>12, <2>13,
       <2>14, <2>15, <2>16, <2>17, <2>18, <2>19, <2>20, <2>21, <2>22
    DEF Next, Operator, calculateMetrics
<1>3. TypeInv /\ Init => PasswordInv
  BY <1>1 DEF PasswordInv
<1> QED BY <1>2, <1>3, TypeInvariant, PTL DEF Spec

(***************************************************************************)
(* The operator never loses the password of its user, for any number of    *)
(* rotations, edits, failed passes, deaths and outages, short of the two   *)
(* orders of events the property names.                                    *)
(***************************************************************************)
THEOREM PasswordNeverLost == Spec => []KnownPassword
<1>1. PasswordInv => KnownPassword
  BY DEF PasswordInv, RoleKnown, KnownPassword
<1> QED BY <1>1, PasswordInvariant, PTL
=============================================================================
