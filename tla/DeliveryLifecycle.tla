-------------------------- MODULE DeliveryLifecycle --------------------------
(***************************************************************************)
(* The ownership and delivery lifecycle above the transactional workspace: *)
(* pico/runtime/{pico,bootstrap,delivery}_runtime.py with the session and  *)
(* run stores and pico/cli/cli_runtime.py.                                 *)
(*                                                                         *)
(* Several pico processes share one workspace state.  A session file holds *)
(* the pointer to its active transaction; a run directory holds the run's  *)
(* record and its owner lease; a transaction directory holds the record,   *)
(* the commit journal and the shadow.  A process opens a session, closes   *)
(* the runs that lost their owner, and then asks, applies and discards.    *)
(*                                                                         *)
(* Simplifications:                                                        *)
(*   - TransactionalWorkspace models the inside of a transaction; here a   *)
(*     shadow is clean, edited or gone, and the steps of commit() that a   *)
(*     later load() cannot tell apart are one step;                        *)
(*   - a session revision is abstracted to fresh: the revision in a        *)
(*     process's copy is the one in the file.  save() succeeds exactly     *)
(*     then and makes every other copy of the session stale;               *)
(*   - the model's turns are one state, "work", with any number of edits   *)
(*     and session saves, any answer and any exception;                    *)
(*   - run and transaction ids are numbers handed out in order.            *)
(***************************************************************************)
EXTENDS Integers, FiniteSets

CONSTANTS
    Procs,                   \* pico processes
    Sessions,                \* session ids
    SessionOf,               \* the session a process opens
    Txns,                    \* transaction ids
    Runs,                    \* run ids
    Nobody,                  \* owner of a free lease
    AutoCommit,              \* commit_policy == "auto"
    Cli,                     \* only the command line drives the agent
    MaxCrashes, MaxFaults    \* bounds on crashes and on failing calls

None == 0

ASSUME IdAssumption ==
    /\ Txns \subseteq Nat \ {None} /\ IsFiniteSet(Txns)
    /\ Runs \subseteq Nat \ {None} /\ IsFiniteSet(Runs)
    /\ SessionOf \in [Procs -> Sessions]
    /\ Nobody \notin Procs
ASSUME PolicyAssumption == AutoCommit \in BOOLEAN /\ Cli \in BOOLEAN
ASSUME BoundAssumption == MaxCrashes \in Nat /\ MaxFaults \in Nat

Terminal == {"COMMITTED", "DISCARDED"}
Interruptible == {"ACTIVE", "STAGED", "VALIDATING", "INTERRUPTED"}
Askable == {"ACTIVE", "INTERRUPTED"}
Uncertain == {"COMMITTING", "COMMIT_FAILED", "RECOVERY_REQUIRED"}
TxnStates == Interruptible \cup Uncertain \cup Terminal
                \cup {"READY_FOR_REVIEW", "CONFLICTED"}

Task(s, t, d) == [status |-> s, txn |-> t, delivered |-> d]
NoTask == Task("none", None, FALSE)
NoClaim == [run |-> None, txn |-> None]

VARIABLES
    pointer,    \* session file: active_transaction_id
    record,     \* transaction.json: its state
    journal,    \* commit-journal.json: its state
    staged,     \* staged-manifest.json: the shadow it describes
    shadow,     \* the execution tree: none, clean or edited
    run,        \* task_state.json
    lease,      \* owner.lock of a run
    pc,         \* the step the process is at
    fresh,      \* is the process's copy of its session the latest?
    ctx,        \* the transaction in the process's transaction_context
    held,       \* the state of the workspace object in that context
    cur,        \* current_task_state: its run
    task,       \* current_task_state: what a write of it records
    mutating,   \* does the request allow mutation?
    todo,       \* run directories still to examine at start-up
    claim,      \* the run state read there and claimed
    author,     \* history: the run whose finalization committed a change
    crashes, faults

disk == <<pointer, record, journal, staged, shadow, run, author>>
txnDisk == <<record, journal, staged, shadow, author>>
process == <<pc, fresh, ctx, held, cur, task, mutating, todo, claim>>
bounds == <<crashes, faults>>
vars == <<disk, lease, process, bounds>>

Init ==
    /\ pointer = [s \in Sessions |-> None]
    /\ record = [t \in Txns |-> "NONE"] /\ journal = [t \in Txns |-> "NONE"]
    /\ staged = [t \in Txns |-> "none"] /\ shadow = [t \in Txns |-> "none"]
    /\ run = [r \in Runs |-> NoTask]
    /\ lease = [r \in Runs |-> Nobody]
    /\ author = [t \in Txns |-> None]
    /\ pc = [p \in Procs |-> "down"] /\ fresh = [p \in Procs |-> FALSE]
    /\ ctx = [p \in Procs |-> None] /\ held = [p \in Procs |-> "NONE"]
    /\ cur = [p \in Procs |-> None] /\ task = [p \in Procs |-> NoTask]
    /\ mutating = [p \in Procs |-> FALSE]
    /\ todo = [p \in Procs |-> {}] /\ claim = [p \in Procs |-> NoClaim]
    /\ crashes = 0 /\ faults = 0

-----------------------------------------------------------------------------
(* Helpers *)

Go(p, step) == pc' = [pc EXCEPT ![p] = step]

Fault == faults < MaxFaults /\ faults' = faults + 1

(* Only the owner of the lease is inside an ask(). *)
InAsk(p) == cur[p] # None /\ lease[cur[p]] = p

(* Where an exception leads: run() closes the run of an ask(), a command   *)
(* the user gave directly just fails.                                      *)
Raise(p) == Go(p, IF InAsk(p) THEN "abort" ELSE "idle")

(* SessionStore.save: the pointer in the process's copy replaces the one   *)
(* in the file; every other process on this session is now behind.         *)
Saved(p, t) ==
    /\ fresh[p]
    /\ pointer' = [pointer EXCEPT ![SessionOf[p]] = t]
    /\ fresh' = [q \in Procs |-> fresh[q] /\ (q = p \/ SessionOf[q] # SessionOf[p])]
    /\ UNCHANGED faults

(* What the process's copy of the session points at.  Mutant: interrupting *)
(* a transaction drops the pointer.                                        *)
PointedWhileActive(p) == IF held[p] = "ACTIVE" THEN ctx[p] ELSE None

Pointed(p) == ctx[p]

(* save() raises: a conflict, or an OSError. *)
SaveFails(p) ==
    /\ \/ ~fresh[p] /\ UNCHANGED faults
       \/ Fault
    /\ UNCHANGED <<pointer, fresh>>

(* The process is gone; its locks are released with it. *)
Exit(p) ==
    /\ Go(p, "down")
    /\ lease' = [r \in Runs |-> IF lease[r] = p THEN Nobody ELSE lease[r]]
    /\ fresh' = [fresh EXCEPT ![p] = FALSE]
    /\ ctx' = [ctx EXCEPT ![p] = None] /\ held' = [held EXCEPT ![p] = "NONE"]
    /\ cur' = [cur EXCEPT ![p] = None] /\ task' = [task EXCEPT ![p] = NoTask]
    /\ mutating' = [mutating EXCEPT ![p] = FALSE]
    /\ todo' = [todo EXCEPT ![p] = {}] /\ claim' = [claim EXCEPT ![p] = NoClaim]

(* Mutant: load() does not read the commit journal. *)
LoadedByRecord(t) ==
    IF record[t] = "COMMITTING" THEN "RECOVERY_REQUIRED"
    ELSE IF record[t] = "ACTIVE" THEN "INTERRUPTED"
    ELSE record[t]

(* Mutant: load() finishes an open journal instead of doubting it. *)
LoadedHopeful(t) ==
    IF journal[t] \in {"COMMITTING", "COMMITTED"} THEN "COMMITTED"
    ELSE IF record[t] = "ACTIVE" THEN "INTERRUPTED"
    ELSE record[t]

(* TransactionalWorkspace.load: the state it leaves in record and object. *)
Loaded(t) ==
    IF journal[t] = "COMMITTED" THEN "COMMITTED"
    ELSE IF \/ journal[t] = "COMMITTING" \/ record[t] = "COMMITTING"
            \/ /\ journal[t] = "COMMIT_FAILED"
               /\ record[t] \notin {"COMMIT_FAILED", "RECOVERY_REQUIRED"}
         THEN "RECOVERY_REQUIRED"
    ELSE IF record[t] = "ACTIVE" THEN "INTERRUPTED"
    ELSE record[t]

Interrupted(s) == IF s \in Interruptible THEN "INTERRUPTED" ELSE s

(* Mutant: the trees of an uncertain commit are cleaned up as well. *)
SettleEager(t, s) ==
    /\ record' = [record EXCEPT ![t] = s]
    /\ shadow' = [shadow EXCEPT ![t] =
                    IF s \in {"COMMITTED", "RECOVERY_REQUIRED"} THEN "none" ELSE @]
    /\ UNCHANGED <<journal, staged, author>>

Settle(t, s) ==
    /\ record' = [record EXCEPT ![t] = s]
    /\ shadow' = [shadow EXCEPT ![t] = IF s = "COMMITTED" THEN "none" ELSE @]
    /\ UNCHANGED <<journal, staged, author>>

(* interrupt() of the workspace in the process's context, if there is one. *)
InterruptContext(p) ==
    LET s == Interrupted(held[p]) IN
    /\ held' = [held EXCEPT ![p] = s]
    /\ record' = IF held[p] \in Interruptible
                 THEN [record EXCEPT ![ctx[p]] = s] ELSE record
    /\ UNCHANGED <<journal, staged, shadow, author>>

-----------------------------------------------------------------------------
(* Opening a session *)

(* The session file is read; its pointer is not followed yet. *)
Start(p) ==
    /\ pc[p] = "down"
    /\ Go(p, "restore")
    /\ fresh' = [fresh EXCEPT ![p] = TRUE]
    /\ ctx' = [ctx EXCEPT ![p] = pointer[SessionOf[p]]]
    /\ UNCHANGED <<disk, lease, held, cur, task, mutating, todo, claim, bounds>>

Existing == {r \in Runs : run[r].status # "none"}

RestoreNothing(p) ==
    /\ pc[p] = "restore" /\ ctx[p] = None
    /\ Go(p, "scan")
    /\ todo' = [todo EXCEPT ![p] = Existing]
    /\ UNCHANGED <<disk, lease, fresh, ctx, held, cur, task, mutating, claim,
                   bounds>>

(* A terminal transaction heals the pointer: the save must go through. *)
RestoreTerminal(p) ==
    /\ pc[p] = "restore" /\ ctx[p] # None /\ Loaded(ctx[p]) \in Terminal
    /\ record' = [record EXCEPT ![ctx[p]] = Loaded(ctx[p])]
    /\ shadow' = [shadow EXCEPT ![ctx[p]] = "none"]
    /\ \/ /\ Saved(p, None)
          /\ Go(p, "scan")
          /\ ctx' = [ctx EXCEPT ![p] = None]
          /\ todo' = [todo EXCEPT ![p] = Existing]
          /\ UNCHANGED <<lease, held, cur, task, mutating, claim>>
       \/ /\ ~fresh[p] /\ Exit(p) /\ UNCHANGED <<pointer, faults>>
       \/ /\ Fault /\ Exit(p) /\ UNCHANGED pointer
    /\ UNCHANGED <<journal, staged, run, author, crashes>>

(* Without the shadow of an unfinished transaction pico does not start. *)
RestoreUnavailable(p) ==
    /\ pc[p] = "restore" /\ ctx[p] # None
    /\ Loaded(ctx[p]) \notin Terminal /\ shadow[ctx[p]] = "none"
    /\ record' = [record EXCEPT ![ctx[p]] = Loaded(ctx[p])]
    /\ Exit(p)
    /\ UNCHANGED <<pointer, journal, staged, shadow, run, author, bounds>>

RestoreContext(p) ==
    /\ pc[p] = "restore" /\ ctx[p] # None
    /\ Loaded(ctx[p]) \notin Terminal /\ shadow[ctx[p]] # "none"
    /\ record' = [record EXCEPT ![ctx[p]] = Loaded(ctx[p])]
    /\ held' = [held EXCEPT ![p] = Loaded(ctx[p])]
    /\ Go(p, "scan")
    /\ todo' = [todo EXCEPT ![p] = Existing]
    /\ UNCHANGED <<pointer, journal, staged, shadow, run, author, lease, fresh,
                   ctx, cur, task, mutating, claim, bounds>>

(* Mutant: a run that never got its transaction is not recovered. *)
LooksOrphanedBound(r) == run[r].status = "running" /\ run[r].txn # None

LooksOrphaned(r) == run[r].status = "running"

(* claim_orphaned_runs reads the next record ... *)
Examine(p, r) ==
    /\ pc[p] = "scan" /\ r \in todo[p] /\ \A q \in todo[p] : r <= q
    /\ IF LooksOrphaned(r)
       THEN /\ Go(p, "claim")
            /\ claim' = [claim EXCEPT ![p] = [run |-> r, txn |-> run[r].txn]]
       ELSE UNCHANGED <<pc, claim>>
    /\ todo' = [todo EXCEPT ![p] = @ \ {r}]
    /\ UNCHANGED <<disk, lease, fresh, ctx, held, cur, task, mutating, bounds>>

(* Mutant: a lease counts as free whoever holds it. *)
AnyLease(r) == TRUE

LeaseFree(r) == lease[r] = Nobody

(* ... and then tries the lease. *)
Claim(p) ==
    /\ pc[p] = "claim"
    /\ IF LeaseFree(claim[p].run)
       THEN /\ lease' = [lease EXCEPT ![claim[p].run] = p]
            /\ Go(p, "settle")
            /\ UNCHANGED claim
       ELSE /\ Go(p, "scan")
            /\ claim' = [claim EXCEPT ![p] = NoClaim]
            /\ UNCHANGED lease
    /\ UNCHANGED <<disk, fresh, ctx, held, cur, task, mutating, todo, bounds>>

(* The orphan's transaction is interrupted; a committed one delivered. *)
SettleOrphan(p) ==
    LET t == claim[p].txn IN
    /\ pc[p] = "settle"
    /\ Go(p, "close")
    /\ \/ t = None /\ task' = [task EXCEPT ![p] = Task("closed", t, FALSE)]
          /\ UNCHANGED <<txnDisk, held, faults>>
       \/ /\ t # None /\ t = ctx[p]
          /\ InterruptContext(p)
          /\ task' = [task EXCEPT ![p] = Task("closed", t, FALSE)]
          /\ UNCHANGED faults
       \/ /\ t # None /\ t # ctx[p]
          /\ Settle(t, Interrupted(Loaded(t)))
          /\ task' = [task EXCEPT ![p] =
                        Task("closed", t, Loaded(t) = "COMMITTED")]
          /\ UNCHANGED <<held, faults>>
       \/ /\ t # None /\ Fault
          /\ task' = [task EXCEPT ![p] = Task("closed", t, FALSE)]
          /\ UNCHANGED <<txnDisk, held>>
    /\ UNCHANGED <<pointer, run, lease, fresh, ctx, cur, mutating, todo, claim,
                   crashes>>

CloseOrphan(p) ==
    /\ pc[p] = "close"
    /\ \/ /\ run' = [run EXCEPT ![claim[p].run] = task[p]]
          /\ lease' = [lease EXCEPT ![claim[p].run] = Nobody]
          /\ Go(p, "scan")
          /\ task' = [task EXCEPT ![p] = NoTask]
          /\ claim' = [claim EXCEPT ![p] = NoClaim]
          /\ UNCHANGED <<fresh, ctx, held, cur, mutating, todo, faults>>
       \/ Fault /\ Exit(p) /\ UNCHANGED run
    /\ UNCHANGED <<pointer, txnDisk, crashes>>

Opened(p) ==
    /\ pc[p] = "scan" /\ todo[p] = {}
    /\ \/ /\ Saved(p, Pointed(p))
          /\ Go(p, "idle")
          /\ UNCHANGED <<lease, ctx, held, cur, task, mutating, todo, claim>>
       \/ ~fresh[p] /\ Exit(p) /\ UNCHANGED <<pointer, faults>>
       \/ Fault /\ Exit(p) /\ UNCHANGED pointer
    /\ UNCHANGED <<txnDisk, run, crashes>>

-----------------------------------------------------------------------------
(* Bootstrap of a run *)

Unused(r) == r \notin Existing /\ lease[r] = Nobody
NextRun(r) == Unused(r) /\ \A q \in Runs : Unused(q) => r <= q

(* The bound on transactions: each run about to begin one finds one left.  *)
Beginning == {p \in Procs : pc[p] \in {"begin", "prepare"} /\ ctx[p] = None}
TxnLeft == Cardinality({t \in Txns : record[t] = "NONE"}) > Cardinality(Beginning)

(* ask(): refused unless the active transaction can be edited.  The lease  *)
(* of the new run is taken before its directory holds a record.            *)
Ask(p, r, mutation) ==
    /\ pc[p] = "idle"
    /\ ctx[p] = None \/ held[p] \in Askable
    /\ NextRun(r) /\ (ctx[p] = None => TxnLeft)
    /\ lease' = [lease EXCEPT ![r] = p]
    /\ cur' = [cur EXCEPT ![p] = r]
    /\ task' = [task EXCEPT ![p] = Task("running", None, FALSE)]
    /\ mutating' = [mutating EXCEPT ![p] = mutation]
    /\ Go(p, "begin")
    /\ UNCHANGED <<disk, fresh, ctx, held, todo, claim, bounds>>

StartRun(p) ==
    /\ pc[p] = "begin"
    /\ \/ /\ run' = [run EXCEPT ![cur[p]] = task[p]]
          /\ Go(p, "prepare")
          /\ UNCHANGED faults
       \/ Fault /\ Raise(p) /\ UNCHANGED run
    /\ UNCHANGED <<pointer, txnDisk, lease, fresh, ctx, held, cur, task,
                   mutating, todo, claim, crashes>>

(* begin_transaction: the shadow exists before any session points at it. *)
BeginTransaction(p, t) ==
    /\ pc[p] = "prepare" /\ ctx[p] = None
    /\ record[t] = "NONE" /\ \A u \in Txns : u < t => record[u] # "NONE"
    /\ \/ /\ record' = [record EXCEPT ![t] = "ACTIVE"]
          /\ shadow' = [shadow EXCEPT ![t] = "clean"]
          /\ ctx' = [ctx EXCEPT ![p] = t]
          /\ held' = [held EXCEPT ![p] = "ACTIVE"]
          /\ Go(p, "point")
          /\ UNCHANGED faults
       \/ Fault /\ Raise(p) /\ UNCHANGED <<record, shadow, ctx, held>>
    /\ UNCHANGED <<pointer, journal, staged, run, author, lease, fresh, cur,
                   task, mutating, todo, claim, crashes>>

(* "The session pointer is the ownership record for a live shadow": when   *)
(* it cannot be saved the new shadow is discarded, if that works.          *)
PointSession(p) ==
    /\ pc[p] = "point"
    /\ \/ /\ Saved(p, ctx[p]) /\ Go(p, "bind")
          /\ UNCHANGED <<record, shadow, ctx, held>>
       \/ /\ SaveFails(p) /\ Raise(p)
          /\ record' = [record EXCEPT ![ctx[p]] = "DISCARDED"]
          /\ shadow' = [shadow EXCEPT ![ctx[p]] = "none"]
          /\ ctx' = [ctx EXCEPT ![p] = None]
          /\ held' = [held EXCEPT ![p] = "NONE"]
       \/ /\ ~fresh[p] /\ Fault /\ Raise(p)
          /\ ctx' = [ctx EXCEPT ![p] = None]
          /\ held' = [held EXCEPT ![p] = "NONE"]
          /\ UNCHANGED <<pointer, fresh, record, shadow>>
    /\ UNCHANGED <<journal, staged, run, author, lease, cur, task, mutating,
                   todo, claim, crashes>>

(* A request that may change files reopens the preserved shadow. *)
ResumeEditing(p) ==
    /\ pc[p] = "prepare" /\ ctx[p] # None
    /\ IF mutating[p]
       THEN /\ held' = [held EXCEPT ![p] = "ACTIVE"]
            /\ record' = IF held[p] = "ACTIVE" THEN record
                         ELSE [record EXCEPT ![ctx[p]] = "ACTIVE"]
       ELSE UNCHANGED <<held, record>>
    /\ Go(p, "bind")
    /\ UNCHANGED <<pointer, journal, staged, shadow, run, author, lease, fresh,
                   ctx, cur, task, mutating, todo, claim, bounds>>

(* The run record learns its transaction, for a later orphan recovery. *)
BindRun(p) ==
    /\ pc[p] = "bind"
    /\ task' = [task EXCEPT ![p] = Task("running", ctx[p], FALSE)]
    /\ \/ /\ run' = [run EXCEPT ![cur[p]] = task'[p]]
          /\ Go(p, "greet")
          /\ UNCHANGED faults
       \/ Fault /\ Raise(p) /\ UNCHANGED run
    /\ UNCHANGED <<pointer, txnDisk, lease, fresh, ctx, held, cur, mutating,
                   todo, claim, crashes>>

(* A session save on the way: record() of the request, of a tool result,   *)
(* of usage, a checkpoint, or the first line of _finish_success.           *)
SaveSession(p, from, to) ==
    /\ pc[p] = from
    /\ \/ Saved(p, Pointed(p)) /\ Go(p, to)
       \/ SaveFails(p) /\ Raise(p)
    /\ UNCHANGED <<txnDisk, run, lease, ctx, held, cur, task, mutating, todo,
                   claim, crashes>>

-----------------------------------------------------------------------------
(* The turns of the model *)

(* A tool changes the shadow; in a shadow that is gone every tool fails. *)
Edit(p) ==
    /\ pc[p] = "work" /\ mutating[p] /\ shadow[ctx[p]] = "clean"
    /\ shadow' = [shadow EXCEPT ![ctx[p]] = "edited"]
    /\ UNCHANGED <<pointer, record, journal, staged, run, author, lease,
                   process, bounds>>

(* The graph goes to delivery, to stop, or a turn raises: a tool, Ctrl-C.  *)
(* A failed model request closes the run the way stop does, and raises.    *)
LeaveWork(p) ==
    /\ pc[p] = "work"
    /\ \E step \in {"finish", "halt", "abort"} : Go(p, step)
    /\ UNCHANGED <<disk, lease, fresh, ctx, held, cur, task, mutating, todo,
                   claim, bounds>>

(* Ctrl-C, or an OSError, anywhere else in an ask(). *)
Break(p) ==
    /\ InAsk(p) /\ pc[p] \notin {"work", "abort", "down"}
    /\ Fault /\ Go(p, "abort")
    /\ UNCHANGED <<disk, lease, fresh, ctx, held, cur, task, mutating, todo,
                   claim, crashes>>

Changed(p) == shadow[ctx[p]] # "clean"

-----------------------------------------------------------------------------
(* Finalization and delivery *)

(* A run that may not mutate leaves the pending changes of an earlier one. *)
LeavePending(p) ==
    /\ pc[p] = "finalize" /\ ~mutating[p] /\ Changed(p)
    /\ InterruptContext(p)
    /\ task' = [task EXCEPT ![p] = Task("closed", @.txn, FALSE)]
    /\ Go(p, "outcome")
    /\ UNCHANGED <<pointer, run, lease, fresh, ctx, cur, mutating, todo, claim,
                   bounds>>

Stage(p) ==
    /\ pc[p] = "finalize" /\ (mutating[p] \/ ~Changed(p))
    /\ staged' = [staged EXCEPT ![ctx[p]] = shadow[ctx[p]]]
    /\ record' = [record EXCEPT ![ctx[p]] = "STAGED"]
    /\ held' = [held EXCEPT ![p] = "STAGED"]
    /\ Go(p, "validate")
    /\ UNCHANGED <<pointer, journal, shadow, run, author, lease, fresh, ctx, cur,
                   task, mutating, todo, claim, bounds>>

(* Scope and verification may block, validate_commit may find a conflict;  *)
(* both leave the staged work undelivered and close the run.               *)
Blocked(p) ==
    /\ pc[p] = "validate"
    /\ \E s \in {"INTERRUPTED", "CONFLICTED"} :
        /\ s = "CONFLICTED" => Changed(p)
        /\ held' = [held EXCEPT ![p] = s]
        /\ record' = [record EXCEPT ![ctx[p]] = s]
    /\ task' = [task EXCEPT ![p] = Task("closed", @.txn, FALSE)]
    /\ Go(p, "outcome")
    /\ UNCHANGED <<pointer, journal, staged, shadow, run, author, lease, fresh,
                   ctx, cur, mutating, todo, claim, bounds>>

(* Validated: committed at once, or left for the user's review. *)
Validated(p) ==
    /\ pc[p] = "validate"
    /\ held' = [held EXCEPT ![p] = "READY_FOR_REVIEW"]
    /\ record' = [record EXCEPT ![ctx[p]] = "READY_FOR_REVIEW"]
    /\ IF AutoCommit \/ ~Changed(p)
       THEN Go(p, "commit") /\ UNCHANGED task
       ELSE /\ Go(p, "outcome")
            /\ task' = [task EXCEPT ![p] = Task("closed", @.txn, FALSE)]
    /\ UNCHANGED <<pointer, journal, staged, shadow, run, author, lease, fresh,
                   ctx, cur, mutating, todo, claim, bounds>>

(* apply_transaction: the user says yes. *)
Apply(p) ==
    /\ pc[p] = "idle" /\ ctx[p] # None /\ held[p] = "READY_FOR_REVIEW"
    /\ Go(p, "commit")
    /\ UNCHANGED <<disk, lease, fresh, ctx, held, cur, task, mutating, todo,
                   claim, bounds>>

(* commit() validates again, from VALIDATING. *)
Revalidate(p) ==
    /\ pc[p] = "commit"
    /\ held' = [held EXCEPT ![p] = "VALIDATING"]
    /\ record' = [record EXCEPT ![ctx[p]] = "VALIDATING"]
    /\ Go(p, "recheck")
    /\ UNCHANGED <<pointer, journal, staged, shadow, run, author, lease, fresh,
                   ctx, cur, task, mutating, todo, claim, bounds>>

StagedIsCurrent(p) == shadow[ctx[p]] = staged[ctx[p]]

(* A source that changed meanwhile, or a shadow that did, is a conflict. *)
RefuseCommit(p) ==
    /\ pc[p] = "recheck" /\ (Changed(p) \/ ~StagedIsCurrent(p))
    /\ held' = [held EXCEPT ![p] = "CONFLICTED"]
    /\ record' = [record EXCEPT ![ctx[p]] = "CONFLICTED"]
    /\ Raise(p)
    /\ UNCHANGED <<pointer, journal, staged, shadow, run, author, lease, fresh,
                   ctx, cur, task, mutating, todo, claim, bounds>>

OpenJournal(p) ==
    /\ pc[p] = "recheck" /\ StagedIsCurrent(p)
    /\ held' = [held EXCEPT ![p] = "COMMITTING"]
    /\ record' = [record EXCEPT ![ctx[p]] = "COMMITTING"]
    /\ journal' = [journal EXCEPT ![ctx[p]] = "COMMITTING"]
    /\ Go(p, "apply")
    /\ UNCHANGED <<pointer, staged, shadow, run, author, lease, fresh, ctx, cur,
                   task, mutating, todo, claim, bounds>>

ApplyFails(p) ==
    /\ pc[p] = "apply"
    /\ Fault
    /\ journal' = [journal EXCEPT ![ctx[p]] = "COMMIT_FAILED"]
    /\ \E s \in {"COMMIT_FAILED", "RECOVERY_REQUIRED"} :
        /\ held' = [held EXCEPT ![p] = s]
        /\ record' = [record EXCEPT ![ctx[p]] = s]
    /\ Raise(p)
    /\ UNCHANGED <<pointer, staged, shadow, run, author, lease, fresh, ctx, cur,
                   task, mutating, todo, claim, crashes>>

SealJournal(p) ==
    /\ pc[p] = "apply"
    /\ journal' = [journal EXCEPT ![ctx[p]] = "COMMITTED"]
    /\ author' = [author EXCEPT ![ctx[p]] =
                    IF InAsk(p) /\ staged[ctx[p]] # "clean" THEN cur[p] ELSE @]
    /\ Go(p, "seal")
    /\ UNCHANGED <<pointer, record, staged, shadow, run, lease, fresh, ctx, held,
                   cur, task, mutating, todo, claim, bounds>>

(* The record and the cleanup; a record that cannot be written raises with *)
(* the object already COMMITTED.                                           *)
SealRecord(p) ==
    /\ pc[p] = "seal"
    /\ held' = [held EXCEPT ![p] = "COMMITTED"]
    /\ \/ Settle(ctx[p], "COMMITTED") /\ Go(p, "restoreView") /\ UNCHANGED faults
       \/ Fault /\ Raise(p) /\ UNCHANGED txnDisk
    /\ UNCHANGED <<pointer, run, lease, fresh, ctx, cur, task, mutating, todo,
                   claim, crashes>>

(* discard_transaction; the command line offers it for a review only. *)
Discard(p) ==
    /\ pc[p] = "idle" /\ ctx[p] # None
    /\ held[p] \notin {"COMMITTING", "COMMITTED", "RECOVERY_REQUIRED"}
    /\ Cli => held[p] = "READY_FOR_REVIEW"
    /\ held' = [held EXCEPT ![p] = "DISCARDED"]
    /\ record' = [record EXCEPT ![ctx[p]] = "DISCARDED"]
    /\ shadow' = [shadow EXCEPT ![ctx[p]] = "none"]
    /\ Go(p, "restoreView")
    /\ UNCHANGED <<pointer, journal, staged, run, author, lease, fresh, ctx, cur,
                   task, mutating, todo, claim, bounds>>

(* _restore_source_view: the context is dropped first, the session without *)
(* its pointer saved last.  What follows depends on the caller.            *)
RestoreSourceView(p) ==
    /\ pc[p] = "restoreView"
    /\ ctx' = [ctx EXCEPT ![p] = None] /\ held' = [held EXCEPT ![p] = "NONE"]
    /\ \/ /\ Saved(p, None)
          /\ IF InAsk(p) \/ cur[p] # None
             THEN /\ task' = [task EXCEPT ![p] =
                        Task("closed", @.txn, held[p] = "COMMITTED")]
                  /\ Go(p, IF InAsk(p) THEN "outcome" ELSE "report")
             ELSE Go(p, "idle") /\ UNCHANGED task
       \/ SaveFails(p) /\ Raise(p) /\ UNCHANGED task
    /\ UNCHANGED <<txnDisk, run, lease, cur, mutating, todo, claim, crashes>>

(* apply and discard rewrite the record of the run that is still in memory. *)
Report(p) ==
    /\ pc[p] = "report"
    /\ \/ run' = [run EXCEPT ![cur[p]] = task[p]] /\ UNCHANGED faults
       \/ Fault /\ UNCHANGED run
    /\ Go(p, "idle")
    /\ UNCHANGED <<pointer, txnDisk, lease, fresh, ctx, held, cur, task,
                   mutating, todo, claim, crashes>>

-----------------------------------------------------------------------------
(* Closing a run *)

(* _graph_stop: the reason is in the task before the transaction is        *)
(* interrupted and the session saved.                                      *)
Halt(p) ==
    /\ pc[p] = "halt"
    /\ task' = [task EXCEPT ![p] = Task("closed", @.txn, FALSE)]
    /\ InterruptContext(p)
    /\ \/ Saved(p, Pointed(p)) /\ Go(p, "outcome")
       \/ SaveFails(p) /\ Raise(p)
    /\ UNCHANGED <<run, lease, ctx, cur, mutating, todo, claim, crashes>>

(* run() releases the lease on the way out, whatever happened. *)
Release(p) ==
    /\ lease' = [lease EXCEPT ![cur[p]] = Nobody]
    /\ Go(p, "idle")

WriteRun(p) ==
    /\ pc[p] = "write"
    /\ \/ run' = [run EXCEPT ![cur[p]] = task[p]] /\ Release(p) /\ UNCHANGED faults
       \/ Fault /\ Raise(p) /\ UNCHANGED <<run, lease>>
    /\ UNCHANGED <<pointer, txnDisk, fresh, ctx, held, cur, task, mutating, todo,
                   claim, crashes>>

(* _close_aborted_run: a run already closed is only written again.  One    *)
(* still running is closed by what its context, if any is left, shows;     *)
(* the checkpoint saves the session unless that fails.                     *)
Aborted(p) ==
    IF task[p].status = "closed" THEN task[p]
    ELSE Task("closed", task[p].txn,
              /\ ctx[p] # None /\ held[p] = "COMMITTED"
              /\ journal[ctx[p]] = "COMMITTED")

CloseAborted(p) ==
    /\ pc[p] = "abort"
    /\ task' = [task EXCEPT ![p] = Aborted(p)]
    /\ IF task[p].status = "running" /\ ctx[p] # None
       THEN InterruptContext(p)
       ELSE UNCHANGED <<txnDisk, held>>
    /\ \/ /\ run' = [run EXCEPT ![cur[p]] = Aborted(p)]
          /\ IF task[p].status = "running" /\ fresh[p]
             THEN Saved(p, Pointed(p))
             ELSE UNCHANGED <<pointer, fresh, faults>>
       \/ Fault /\ UNCHANGED <<run, pointer, fresh>>
    /\ Release(p)
    /\ UNCHANGED <<ctx, cur, mutating, todo, claim, crashes>>

-----------------------------------------------------------------------------
(* Processes end, by their user or not *)

Quit(p) ==
    /\ pc[p] = "idle" /\ Exit(p)
    /\ UNCHANGED <<disk, bounds>>

Crash(p) ==
    /\ pc[p] # "down" /\ crashes < MaxCrashes
    /\ crashes' = crashes + 1
    /\ Exit(p)
    /\ UNCHANGED <<disk, faults>>

Open(p) ==
    \/ RestoreNothing(p) \/ RestoreTerminal(p) \/ RestoreUnavailable(p)
    \/ RestoreContext(p)
    \/ \E r \in Runs : Examine(p, r)
    \/ Claim(p) \/ SettleOrphan(p) \/ CloseOrphan(p) \/ Opened(p)

Bootstrap(p) ==
    \/ StartRun(p) \/ \E t \in Txns : BeginTransaction(p, t)
    \/ PointSession(p) \/ ResumeEditing(p) \/ BindRun(p)
    \/ SaveSession(p, "greet", "work")

Deliver(p) ==
    \/ SaveSession(p, "finish", "finalize")
    \/ LeavePending(p) \/ Stage(p) \/ Blocked(p) \/ Validated(p)
    \/ Revalidate(p) \/ RefuseCommit(p) \/ OpenJournal(p) \/ ApplyFails(p)
    \/ SealJournal(p) \/ SealRecord(p) \/ RestoreSourceView(p) \/ Report(p)
    \/ SaveSession(p, "outcome", "write")
    \/ Halt(p) \/ WriteRun(p) \/ CloseAborted(p)

(* The steps a process takes by itself. *)
Step(p) == Open(p) \/ Bootstrap(p) \/ LeaveWork(p) \/ Deliver(p)

Next ==
    \E p \in Procs :
        \/ Start(p) \/ Quit(p) \/ Crash(p)
        \/ \E r \in Runs, m \in BOOLEAN : Ask(p, r, m)
        \/ Apply(p) \/ Discard(p)
        \/ Edit(p) \/ SaveSession(p, "work", "work") \/ Break(p)
        \/ Step(p)

Spec == Init /\ [][Next]_vars

(* A process is not suspended for ever inside an operation or a model      *)
(* turn, whose attempts are bounded, and a closed session is opened again. *)
FairSpec == Spec /\ \A p \in Procs : WF_vars(Step(p)) /\ WF_vars(Start(p))

-----------------------------------------------------------------------------
(* Properties *)

AskSteps == {"begin", "prepare", "point", "bind", "greet", "work", "finish",
             "finalize", "validate", "halt", "outcome", "write", "abort"}
CommitSteps == {"commit", "recheck", "apply", "seal", "restoreView"}
OpenSteps == {"restore", "scan", "claim", "settle", "close"}
Steps == {"down", "idle", "report"} \cup OpenSteps \cup AskSteps \cup CommitSteps
Statuses == {"none", "running", "closed"}
Tasks == [status : Statuses, txn : Txns \cup {None}, delivered : BOOLEAN]

(* Every variable has its type. *)
TypeOK ==
    /\ pointer \in [Sessions -> Txns \cup {None}]
    /\ record \in [Txns -> TxnStates \cup {"NONE"}]
    /\ journal \in [Txns -> {"NONE", "COMMITTING", "COMMIT_FAILED", "COMMITTED"}]
    /\ staged \in [Txns -> {"none", "clean", "edited"}]
    /\ shadow \in [Txns -> {"none", "clean", "edited"}]
    /\ run \in [Runs -> Tasks]
    /\ lease \in [Runs -> Procs \cup {Nobody}]
    /\ author \in [Txns -> Runs \cup {None}]
    /\ pc \in [Procs -> Steps] /\ fresh \in [Procs -> BOOLEAN]
    /\ ctx \in [Procs -> Txns \cup {None}]
    /\ held \in [Procs -> TxnStates \cup {"NONE"}]
    /\ cur \in [Procs -> Runs \cup {None}] /\ task \in [Procs -> Tasks]
    /\ mutating \in [Procs -> BOOLEAN] /\ todo \in [Procs -> SUBSET Runs]
    /\ claim \in [Procs -> [run : Runs \cup {None}, txn : Txns \cup {None}]]
    /\ crashes \in 0..MaxCrashes /\ faults \in 0..MaxFaults

(* A run that reports delivered paths names a transaction whose commit     *)
(* journal is sealed, whoever wrote the report and whatever crashed.       *)
DeliveredIsCommitted ==
    \A r \in Runs : run[r].delivered =>
        run[r].txn # None /\ journal[run[r].txn] = "COMMITTED"

(* And the other way round: a run whose finalization committed a change is *)
(* never closed with a report that nothing was delivered, however often    *)
(* the process is killed.  Excepted are calls that fail: a save that       *)
(* raises behind the commit closes the run so.                             *)
CommitReported ==
    \A t \in Txns :
        author[t] # None /\ run[author[t]].status = "closed" /\ faults = 0
            => run[author[t]].delivered

Executing(p, r) ==
    cur[p] = r /\ (task[p].status = "running" \/ pc[p] \in AskSteps)

(* Nobody closes a run that another process is still executing. *)
OrphanHasNoOwner ==
    \A p, q \in Procs : p # q /\ pc[p] \in {"settle", "close"} =>
        ~Executing(q, claim[p].run)

(* A shadow with work in it that is not delivered or thrown away is found  *)
(* again: a session points at it, or a process holds it.                   *)
WorkIsReachable ==
    \A t \in Txns : shadow[t] = "edited" /\ Loaded(t) \notin Terminal =>
        \/ \E s \in Sessions : pointer[s] = t
        \/ \E p \in Procs : ctx[p] = t

(* A session that no process has open can be opened: its pointer does not  *)
(* name an unfinished transaction without a shadow.  The exception is a    *)
(* failed commit that was thrown away by a process that then ended before  *)
(* the pointer was saved (pico/workspace/transactional_workspace.py:651).  *)
SessionOpens ==
    \A s \in Sessions :
        (\A p \in Procs : SessionOf[p] = s => pc[p] = "down") =>
            \/ pointer[s] = None
            \/ Loaded(pointer[s]) \in Terminal
            \/ shadow[pointer[s]] # "none" \/ journal[pointer[s]] = "COMMIT_FAILED"

(* What a commit starts to apply was staged from a shadow that exists: the *)
(* absence of an execution tree is never delivered as a deletion.          *)
NoPhantomDelivery ==
    [][\A t \in Txns : journal'[t] = "COMMITTING" /\ journal[t] # "COMMITTING"
        => shadow[t] # "none"]_vars

(* A start-up leaves no run behind that is recorded as running and that    *)
(* nobody executes: also not one whose own closing could not be written,   *)
(* or whose recovery was cut off at an earlier start-up.  (Of one process; *)
(* another one may lose a run while this one is starting.)                 *)
RecoveryComplete ==
    [][\A p \in Procs : pc[p] = "scan" /\ pc'[p] = "idle" =>
        \A r \in Runs : run[r].status = "running" => lease[r] # Nobody]_vars

(* A run that no process executes any more is closed in the end.  After a  *)
(* failed write of its record it may wait for a start-up that comes after  *)
(* the last one here (RecoveryComplete).                                   *)
OrphansClosed ==
    \A r \in Runs :
        run[r].status = "running" /\ (\A p \in Procs : ~Executing(p, r))
            ~> run[r].status # "running" \/ faults > 0
=============================================================================
