-------------------------- MODULE VolumeAttachment --------------------------
(***************************************************************************)
(* What the rollout of stateful sets promises about data directories,      *)
(* whatever order it works in and wherever it is cut off. A claim is made  *)
(* before it is used and is never given up; a stateful set has one claim   *)
(* for as long as it exists; a claim is used by one stateful set, and goes *)
(* to another one only after that one has let go of it.                    *)
(***************************************************************************)
CONSTANTS PVCs, Names, None

VARIABLES
  claims,   \* the claims that exist
  mounted   \* mounted[n]: the claim stateful set n mounts, or None

vars == <<claims, mounted>>

Init == claims = {} /\ mounted = [n \in Names |-> None]

Provision(p) ==
  /\ claims' = claims \cup {p}
  /\ UNCHANGED mounted

Attach(p, n) ==
  /\ p \in claims
  /\ mounted[n] = None
  /\ \A m \in Names : mounted[m] # p
  /\ mounted' = [mounted EXCEPT ![n] = p]
  /\ UNCHANGED claims

Detach(n) ==
  /\ mounted' = [mounted EXCEPT ![n] = None]
  /\ UNCHANGED claims

Next ==
  \/ \E p \in PVCs : Provision(p) \/ \E n \in Names : Attach(p, n)
  \/ \E n \in Names : Detach(n)

Spec == Init /\ [][Next]_vars
=============================================================================
