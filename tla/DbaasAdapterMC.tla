--------------------------- MODULE DbaasAdapterMC ---------------------------
(***************************************************************************)
(* DbaasAdapter for TLC: two user names that differ in case only, and two  *)
(* supported roles, so that one user of a database is a generated one.     *)
(***************************************************************************)
EXTENDS DbaasAdapter, TLC

CONSTANTS LowerUser, UpperUser   \* LowerUser is UpperUser in lower case

MCUsers == {LowerUser, UpperUser}
MCFold == [x \in MCUsers |-> LowerUser]
MCSymmetry == Permutations(Reqs) \cup Permutations(Dbs)
MCSupportedRoles == <<"admin", "ro">>
=============================================================================
