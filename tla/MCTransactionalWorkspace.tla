---------------------- MODULE MCTransactionalWorkspace ----------------------
(* Instances of TransactionalWorkspace for TLC. *)
EXTENDS TransactionalDelivery

CONSTANTS a, b, link, key, redacted, none

(* Path 1 is a link, path 2 a file, path 3 does not exist. *)
LinkFileAbsent == [p \in 1..3 |-> CASE p = 1 -> link [] p = 2 -> a [] p = 3 -> none]

(* Path 1 holds a secret, path 2 a plain file, path 3 an ignored file. *)
SecretFileIgnored == [p \in 1..3 |-> IF p = 1 THEN key ELSE a]

SameNames == [p \in Paths |-> p]
=============================================================================
