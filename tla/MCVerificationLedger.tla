------------------------ MODULE MCVerificationLedger ------------------------
(* Instances of VerificationLedger for TLC. *)
EXTENDS VerificationLedger

CONSTANTS code, test, unit, lint

TwoPaths == {code, test}
OneTest == {test}
TwoChecks == {unit, lint}
=============================================================================
