--------------------------- MODULE BackupRestoreMC ---------------------------
(***************************************************************************)
(* BackupRestore for TLC: two hosts, a row that one of them stores and one *)
(* that both store; two keyspaces; a table both have and one that exists   *)
(* in one of them or that a client may create; a clone that does not exist *)
(* or holds a table of its own. Roles with and without a password hash,    *)
(* before and after each other; one that is alone on its keyspace, one     *)
(* whose name contains the name of a keyspace, and one with permissions on *)
(* tables.                                                                 *)
(***************************************************************************)
EXTENDS BackupRestore

CONSTANTS k1, k2, c1, c2, t1, t2, x1, x2, h1, h2, admin, u1, u2, u3

MCHosts == {h1, h2}
MCDbs == <<k1, k2>>
MCDbMap == [k \in {k1, k2} |-> IF k = k1 THEN c1 ELSE c2]
MCTables == {t1, t2}
MCRows == {x1, x2}
MCPlace == [x \in MCRows |-> IF x = x1 THEN {h1} ELSE MCHosts]
MCUsers == {admin, u1, u2, u3}
MCSkipped == {admin}
MCUnhashed == {u2}
MCToken == [u \in MCUsers |-> CASE u = u1 -> 1 [] u = admin -> 2 [] u = u2 -> 3 [] u = u3 -> 4]
\* The name of u1 contains k2, and is u3 with c2 in its place.
MCCloneRole == [k \in {k1, k2} |-> [u \in MCUsers |-> IF k = k2 /\ u = u1 THEN u3 ELSE u]]

Fresh == [keyspaces |-> {k1, k2}, tables |-> {<<k1, t1>>, <<k2, t1>>},
          rows |-> {<<k1, t1, x1>>, <<k1, t1, x2>>, <<k2, t1, x2>>},
          grants |-> {k1, k2} \X {admin, u1},
          tableGrants |-> {k1, k2} \X {t1} \X {u2}]
Cloned == [Fresh EXCEPT !.keyspaces = @ \cup {c1}, !.tables = @ \cup {<<c1, t2>>, <<k2, t2>>},
                        !.rows = @ \cup {<<c1, t2, x1>>},
                        !.grants = (@ \cup {<<k1, u2>>, <<k1, u3>>, <<c1, u2>>}) \ {<<k2, admin>>},
                        !.tableGrants = @ \cup {<<c1, t2, u2>>, <<k2, t2, u2>>}]
MCInitialClusters == {Fresh, Cloned}
=============================================================================
