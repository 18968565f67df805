--------------------------- MODULE MCEvidenceGate ---------------------------
(* Instances of EvidenceGate for TLC. *)
EXTENDS EvidenceGate, TLC

CONSTANTS service, tests

TwoPaths == {service, tests}
OnePath == {service}
TwoItems == {"i", "j"}

(* Nothing tells the two files apart. *)
PathSymmetry == Permutations(TwoPaths)
=============================================================================
