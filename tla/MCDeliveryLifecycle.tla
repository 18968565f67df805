------------------------ MODULE MCDeliveryLifecycle ------------------------
(* Small instances of DeliveryLifecycle for TLC. *)
EXTENDS DeliveryLifecycle, TLC

CONSTANTS p1, p2, s1, s2

OneProcess == {p1}
TwoProcesses == {p1, p2}
OneSession == {s1}
TwoSessions == {s1, s2}
SameSession == [p \in Procs |-> s1]
OwnSession == (p1 :> s1) @@ (p2 :> s2)
(* The processes can be exchanged when their sessions are exchanged with them. *)
Exchanged == (p1 :> p2) @@ (p2 :> p1) @@ (s1 :> s2) @@ (s2 :> s1)
Exchange == {Exchanged, [x \in DOMAIN Exchanged |-> x]}
One == {1}
Two == {1, 2}
=============================================================================
