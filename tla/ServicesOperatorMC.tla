------------------------- MODULE ServicesOperatorMC -------------------------
(* Four versions of the custom resource: one node in the clear; two nodes  *)
(* with TLS; the same with the backup daemon switched off and the robot    *)
(* tests on; and Amazon Keyspaces.                                         *)
EXTENDS ServicesOperator

Version(dcs, tls, aws, backup, robot) ==
  [common |-> [dcs |-> dcs, tls |-> tls, aws |-> aws],
   backup |-> [install |-> backup, emptyDir |-> aws, rev |-> 0],
   dbaas  |-> [install |-> TRUE, https |-> TRUE, rev |-> 0],
   robot  |-> [install |-> robot]]

First  == Version(<<1>>, FALSE, FALSE, TRUE, FALSE)
Second == Version(<<2>>, TRUE, FALSE, TRUE, FALSE)
Third  == Version(<<2>>, TRUE, FALSE, FALSE, TRUE)
Fourth == Version(<<1>>, FALSE, TRUE, TRUE, FALSE)

MCSpecs == {First, Second, Third, Fourth}
=============================================================================
