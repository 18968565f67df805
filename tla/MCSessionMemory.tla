-------------------------- MODULE MCSessionMemory --------------------------
(* Small instances of SessionMemory for TLC.                               *)
EXTENDS SessionMemory

CONSTANTS p1, p2, m1, f1, earlier, later

TwoProcesses == {p1, p2}
OneProcess == {p1}
OneMark == {m1}
OnePath == {f1}
OldAndNew == {earlier, later}
SameSubject == [x \in Facts |-> "one"]
OldOnly == {earlier}
(* For promotions that overlap: facts of two subjects, none from before. *)
OwnSubject == [x \in Facts |-> x]
NoLegacy == {}
ProcSymmetry == Permutations({p1, p2})
=============================================================================
