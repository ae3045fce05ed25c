----------------------------- MODULE Membership -----------------------------
(***************************************************************************)
(* What the control plane promises a registration, as an abstract          *)
(* specification: it joins with all its keys at once, leaves with all of   *)
(* them at once, and in between loses only what an unstable slot's swap    *)
(* takes from everybody in it.  ControlPlane, whose Register joins one     *)
(* binding at a time and rolls back, implements it.                        *)
(***************************************************************************)
CONSTANTS
    Members,
    Bundles,     \* the key sets a member may ask for
    Swappable    \* the keys of unstable slots

VARIABLE live    \* per member: the keys it is served under, {} when out

Init == live = [m \in Members |-> {}]

Join(m, K) == live[m] = {} /\ live' = [live EXCEPT ![m] = K]
Leave(m) == live' = [live EXCEPT ![m] = {}]
Swap(k) == live' = [m \in Members |-> live[m] \ {k}]

Next ==
    \/ \E m \in Members : Leave(m) \/ \E K \in Bundles : Join(m, K)
    \/ \E k \in Swappable : Swap(k)

Spec == Init /\ [][Next]_live
=============================================================================
