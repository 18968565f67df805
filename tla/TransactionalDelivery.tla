------------------------ MODULE TransactionalDelivery ------------------------
(***************************************************************************)
(* The transactional workspace implements AtomicDelivery: the journal and  *)
(* the state a process holds, or would load, map to the phase a delivery   *)
(* is in.                                                                  *)
(***************************************************************************)
EXTENDS TransactionalWorkspace

(* The state a process has of the transaction, or the next one will load.  *)
Known == IF state = "DOWN" THEN Reconciled.state ELSE state

Plan ==
    [p \in {c.path : c \in journal.operations} |->
        (CHOOSE c \in journal.operations : c.path = p).after]

Phase ==
    CASE journal.state = "NONE" -> "open"
      [] journal.state = "COMMITTED" -> "delivered"
      [] journal.state \in {"COMMITTING", "COMMIT_FAILED"} ->
            IF pc \in CommitSteps /\ Known # "RECOVERY_REQUIRED"
            THEN "delivering"
            ELSE IF Known \in {"COMMIT_FAILED", "DISCARDED"} THEN "undone"
            ELSE "inDoubt"

(* The paths a rollback can put back, which the journal fixes, and those   *)
(* whose content somebody else may have given.                             *)
PutBackPaths == IF journal.state = "NONE" THEN {} ELSE Seen
RacedPaths == IF journal.state = "NONE" THEN {} ELSE late

Promise == INSTANCE AtomicDelivery
           WITH plan <- Plan, seen <- PutBackPaths, raced <- RacedPaths, phase <- Phase

(* Every step of the workspace is a step of AtomicDelivery or a stutter:   *)
(* all of the change set of the journal reaches the source, or none of it  *)
(* where the transaction saw the path, or it says that it does not know.   *)
DeliversAtomically == Promise!Spec
=============================================================================
