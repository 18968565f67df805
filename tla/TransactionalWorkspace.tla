----------------------- MODULE TransactionalWorkspace -----------------------
(***************************************************************************)
(* pico/workspace/transactional_workspace.py: the shadow workspace of one  *)
(* transaction and its guarded, journaled commit into the source tree.     *)
(*                                                                         *)
(* One behaviour follows one transaction id from NEW to a terminal state,  *)
(* over any number of process crashes.  The trees (source, shadow,         *)
(* recovery) and the three JSON records survive a crash; state, pc and     *)
(* completed live in the process.                                          *)
(*                                                                         *)
(* Simplifications:                                                        *)
(*   - a path holds one of a few contents; a content stands for bytes,     *)
(*     mtime and mode at once, a member of Links for a symbolic link;      *)
(*   - Paths are numbers, so that their order is the sorted order of       *)
(*     diff(), in which commit applies and rollback undoes;                *)
(*   - every JSON record is replaced atomically, as _write_json does, and  *)
(*     a write may fail (an OSError), at most MaxFaults times;             *)
(*   - the user may edit the source tree at any step; Quiet = TRUE assumes *)
(*     that nobody does while commit() runs;                               *)
(*   - the shadow may be written at any step, as long as it is there: no   *)
(*     process that outlives its command builds the tree again.            *)
(***************************************************************************)
EXTENDS Integers, FiniteSets

CONSTANTS
    Paths,            \* relative paths inside the workspace
    Contents,         \* what a path may hold
    None,             \* what an absent path holds
    Links,            \* contents that are symbolic links
    Secrets,          \* contents with a registered secret in them
    Redacted,         \* what the scrub leaves of a secret
    Initial,          \* the source tree at the start (its Git HEAD view)
    IsGit,            \* is the source root the top of a Git work tree?
    Ignored,          \* untracked paths that .gitignore excludes
    Unsafe,           \* paths whose source parent resolves outside the root
    Normalized,       \* what _safe_relative makes of a path
    BlockReasons,     \* the reasons callers pass to block_validation
    Quiet,            \* no user edits while commit() runs
    MaxSourceEdits, MaxShadowEdits, MaxCrashes, MaxFaults   \* bounds

Value == Contents \cup {None}
Tree == [Paths -> Value]
EmptyTree == [p \in Paths |-> None]

ASSUME PathsAssumption == Paths \subseteq Nat /\ IsFiniteSet(Paths)
ASSUME ContentAssumption ==
    /\ None \notin Contents
    /\ Links \subseteq Contents
    /\ Secrets \subseteq Contents \ Links
    /\ Redacted \in Contents \ (Links \cup Secrets)
    /\ Initial \in Tree
ASSUME ViewAssumption ==
    /\ IsGit \in BOOLEAN
    /\ Quiet \in BOOLEAN
    /\ Ignored \subseteq Paths
    /\ ~IsGit => Ignored = {}
    /\ Unsafe \subseteq Paths
    /\ Normalized \in [Paths -> Paths]
ASSUME BoundAssumption ==
    /\ MaxSourceEdits \in Nat
    /\ MaxShadowEdits \in Nat
    /\ MaxCrashes \in Nat
    /\ MaxFaults \in Nat

RepairableFailures ==
    {"verification_failed", "verification_required", "verification_stale"}
ConflictReasons ==
    {"protected_secret_path", "user_owned_path", "source_changed",
     "unsafe_source_path"}
Reasons == ConflictReasons \cup BlockReasons \cup {"staged_workspace_changed"}

(* _safe_relative strips every leading dot and slash, so that ".env"       *)
(* becomes "env"; PlainNames: no path of the workspace begins with a dot.  *)
PlainNames == \A p \in Paths : Normalized[p] = p

Terminal == {"COMMITTED", "DISCARDED"}
RecordStates ==
    {"ACTIVE", "STAGED", "VALIDATING", "READY_FOR_REVIEW", "COMMITTING",
     "COMMITTED", "COMMIT_FAILED", "CONFLICTED", "INTERRUPTED",
     "RECOVERY_REQUIRED", "DISCARDED"}
JournalStates == {"NONE", "COMMITTING", "COMMIT_FAILED", "COMMITTED"}

(* The steps of commit(). *)
CommitSteps ==
    {"revalidate", "journal", "record", "backup", "replace", "complete",
     "seal", "failed", "rollback"}

Change == [path : Paths, before : Value, after : Value]
PathsOf(changes) == {c.path : c \in changes}
Record(s, reasons) == [state |-> s, conflicts |-> reasons]
NoRecord == Record("NONE", {})
NoJournal == [state |-> "NONE", operations |-> {}, completed |-> {}]

VARIABLES
    source,      \* the user's tree
    shadow,      \* the execution tree
    hasShadow,   \* does the execution root exist?
    recovery,    \* copies of the source files a commit replaced
    baseline,    \* baseline.json: the source manifest at begin
    execBaseline,\* baseline.json: the execution manifest at begin
    owned,       \* user_owned_paths
    protected,   \* protected_paths
    txn,         \* transaction.json
    staged,      \* staged-manifest.json: its changes
    journal,     \* commit-journal.json
    state,       \* the in-process state, "DOWN" when no process holds it
    pc,          \* the step the process is at inside an operation
    completed,   \* in process: operations applied and not rolled back
    user,        \* history: the source as the user alone would have it
    late,        \* history: paths of the shadow written since commit() compared it
    sourceEdits, shadowEdits, crashes, faults   \* counted against the bounds

trees == <<source, shadow, hasShadow, recovery, user, late>>
manifests == <<baseline, execBaseline, owned, protected>>
records == <<txn, staged, journal>>
process == <<state, pc, completed>>
counters == <<sourceEdits, shadowEdits, crashes, faults>>
vars == <<trees, manifests, records, process, counters>>

-----------------------------------------------------------------------------
(* Manifests and differences. *)

(* What git ls-files, or a walk of a plain directory, shows of a tree. *)
SourceView(tree) == [p \in Paths |-> IF p \in Ignored THEN None ELSE tree[p]]

(* Registered secrets are replaced in the shadow's copy. *)
Scrub(tree) == [p \in Paths |-> IF tree[p] \in Secrets THEN Redacted ELSE tree[p]]

(* diff(): what the shadow changed since it was materialized. *)
Diff ==
    {[path |-> p, before |-> execBaseline[p], after |-> shadow[p]] :
        p \in {q \in Paths : execBaseline[q] # shadow[q]}}

(* Mutant: an edit of the source since begin is no conflict. *)
ConflictingBlind(reason, p) ==
    \/ reason = "protected_secret_path" /\ p \in protected
    \/ reason = "user_owned_path" /\ p \in owned
    \/ reason = "unsafe_source_path" /\ p \in Unsafe

Conflicting(reason, p) ==
    \/ reason = "protected_secret_path" /\ p \in protected
    \/ reason = "user_owned_path" /\ p \in owned
    \/ reason = "source_changed" /\ SourceView(source)[p] # baseline[p]
    \/ reason = "unsafe_source_path" /\ p \in Unsafe

Conflicts == {r \in ConflictReasons : \E c \in Diff : Conflicting(r, c.path)}

(* The operations of the running commit, in sorted order. *)
Pending == {c \in journal.operations : c.path \notin completed}
NextOperation(c) == c \in Pending /\ \A d \in Pending : c.path <= d.path

(* Mutant: only the operation that was applied last is undone. *)
UndoableLast ==
    {c \in journal.operations :
        c.path \in completed /\ \A p \in journal.completed : p <= c.path}

Undoable == {c \in journal.operations : c.path \in completed}
NextUndo(c) == c \in Undoable /\ \A d \in Undoable : d.path <= c.path

Init ==
    /\ source = Initial /\ user = Initial /\ late = {}
    /\ shadow = EmptyTree /\ hasShadow = FALSE /\ recovery = EmptyTree
    /\ baseline = EmptyTree /\ execBaseline = EmptyTree
    /\ owned = {} /\ protected = {}
    /\ txn = NoRecord /\ staged = {} /\ journal = NoJournal
    /\ state = "NEW" /\ pc = "idle" /\ completed = {}
    /\ sourceEdits = 0 /\ shadowEdits = 0 /\ crashes = 0 /\ faults = 0

Fault == faults < MaxFaults /\ faults' = faults + 1

(* _persist: the record is replaced, or the write raises and it is not. *)
Persist(record) ==
    \/ txn' = record /\ UNCHANGED faults
    \/ Fault /\ UNCHANGED txn

-----------------------------------------------------------------------------
(* begin: the manifest is read first, the tree copied afterwards. *)

BeginManifest ==
    /\ state = "NEW" /\ pc = "idle"
    /\ baseline' = SourceView(source)
    /\ owned' = IF IsGit
                THEN {p \in Paths \ Ignored : source[p] # Initial[p]}
                ELSE {}
    /\ pc' = "copy"
    /\ UNCHANGED <<trees, execBaseline, protected, records, state, completed,
                   counters>>

BeginCopy ==
    /\ pc = "copy"
    /\ shadow' = Scrub(SourceView(source)) /\ hasShadow' = TRUE
    /\ execBaseline' = Scrub(SourceView(source))
    /\ protected' = {p \in Paths : SourceView(source)[p] \in Secrets}
    /\ txn' = Record("ACTIVE", {})
    /\ state' = "ACTIVE" /\ pc' = "idle"
    /\ UNCHANGED <<source, recovery, user, late, baseline, owned, staged, journal,
                   completed, counters>>

(* A failed materialization removes the whole transaction directory. *)
BeginFails ==
    /\ pc = "copy"
    /\ Fault
    /\ pc' = "idle"
    /\ baseline' = EmptyTree /\ owned' = {}
    /\ UNCHANGED <<trees, execBaseline, protected, records, state, completed,
                   sourceEdits, shadowEdits, crashes>>

-----------------------------------------------------------------------------
(* Editing, staging, validation. *)

(* A tool writes in the shadow, or a process that a command left behind:   *)
(* stop() of the execution lease only clears a flag, and a descendant with *)
(* a session of its own survives the kill of its group, so that it may     *)
(* write behind the checks of commit(), and when pico itself is gone.      *)
EditShadow(p, v) ==
    /\ hasShadow
    /\ shadowEdits < MaxShadowEdits
    /\ v # shadow[p]
    /\ shadow' = [shadow EXCEPT ![p] = v]
    /\ late' = IF pc \in CommitSteps \ {"revalidate"} THEN late \cup {p} ELSE late
    /\ shadowEdits' = shadowEdits + 1
    /\ UNCHANGED <<source, hasShadow, recovery, user, manifests, records,
                   process, sourceEdits, crashes, faults>>

Stage ==
    /\ pc = "idle" /\ state \in {"ACTIVE", "INTERRUPTED"}
    /\ staged' = Diff
    /\ state' = "STAGED"
    /\ Persist(Record("STAGED", {}))
    /\ UNCHANGED <<trees, manifests, journal, pc, completed, sourceEdits,
                   shadowEdits, crashes>>

Interrupt ==
    /\ pc = "idle"
    /\ state \in {"ACTIVE", "STAGED", "VALIDATING", "INTERRUPTED"}
    /\ state' = "INTERRUPTED"
    /\ Persist(Record("INTERRUPTED", {}))
    /\ UNCHANGED <<trees, manifests, staged, journal, pc, completed,
                   sourceEdits, shadowEdits, crashes>>

ResumeEditing ==
    /\ pc = "idle" /\ state = "INTERRUPTED"
    /\ state' = "ACTIVE"
    /\ Persist(Record("ACTIVE", {}))
    /\ UNCHANGED <<trees, manifests, staged, journal, pc, completed,
                   sourceEdits, shadowEdits, crashes>>

BlockValidation(reason) ==
    /\ pc = "idle" /\ state \in {"STAGED", "VALIDATING", "READY_FOR_REVIEW"}
    /\ state' = IF reason \in RepairableFailures
                THEN "INTERRUPTED" ELSE "CONFLICTED"
    /\ Persist(Record(state', {reason}))
    /\ UNCHANGED <<trees, manifests, staged, journal, pc, completed,
                   sourceEdits, shadowEdits, crashes>>

(* validate_commit, up to its first _persist; when that raises, the state  *)
(* in the process is VALIDATING all the same.  commit() calls it again.    *)
Validate(step) ==
    /\ pc = "idle"
    /\ \/ step = "validate" /\ state \in {"STAGED", "VALIDATING", "READY_FOR_REVIEW"}
       \/ step = "revalidate" /\ state = "READY_FOR_REVIEW"
    /\ state' = "VALIDATING"
    /\ \/ txn' = Record("VALIDATING", {}) /\ pc' = step /\ UNCHANGED faults
       \/ Fault /\ UNCHANGED <<txn, pc>>
    /\ UNCHANGED <<trees, manifests, staged, journal, completed, sourceEdits,
                   shadowEdits, crashes>>

(* Mutant: the shadow is not compared with the staged manifest. *)
StagedIgnored == FALSE

StagedChanged == Diff # staged

(* The rest of validate_commit: the shadow must still be what was staged,  *)
(* and no change may touch a protected, user owned or edited source path.  *)
Findings == IF StagedChanged THEN {"staged_workspace_changed"} ELSE Conflicts

Decide ==
    /\ pc \in {"validate", "revalidate"}
    /\ late' = {}
    /\ state' = IF Findings = {} THEN "READY_FOR_REVIEW" ELSE "CONFLICTED"
    /\ \/ /\ txn' = Record(state', Findings)
          /\ pc' = IF pc = "revalidate" /\ Findings = {}
                   THEN "journal" ELSE "idle"
          /\ UNCHANGED faults
       \/ Fault /\ pc' = "idle" /\ UNCHANGED txn
    /\ UNCHANGED <<source, shadow, hasShadow, recovery, user, manifests, staged, journal,
                   completed, sourceEdits, shadowEdits, crashes>>

-----------------------------------------------------------------------------
(* commit: the journal is durable before the first source write. *)

(* Mutant: the journal names its operations, and its state only when sealed. *)
CommitJournalStateless ==
    /\ pc = "journal"
    /\ state' = "COMMITTING"
    /\ journal' = [NoJournal EXCEPT !.operations = Diff]
    /\ pc' = "record"
    /\ UNCHANGED <<trees, manifests, txn, staged, completed, counters>>

CommitJournal ==
    /\ pc = "journal"
    /\ state' = "COMMITTING" /\ completed' = {}
    /\ \/ /\ journal' = [state |-> "COMMITTING", operations |-> Diff,
                         completed |-> {}]
          /\ pc' = "record"
          /\ UNCHANGED faults
       \/ Fault /\ pc' = "idle" /\ UNCHANGED journal
    /\ UNCHANGED <<trees, manifests, txn, staged, sourceEdits, shadowEdits,
                   crashes>>

(* The record says COMMITTING and the recovery directory is made. *)
CommitRecord ==
    /\ pc = "record"
    /\ \/ txn' = Record("COMMITTING", {}) /\ pc' = "backup" /\ UNCHANGED faults
       \/ Fault /\ pc' = "idle" /\ txn' \in {txn, Record("COMMITTING", {})}
    /\ UNCHANGED <<trees, manifests, staged, journal, state, completed,
                   sourceEdits, shadowEdits, crashes>>

(* Mutant: a file that is deleted, not replaced, gets no recovery copy. *)
BackupReplacedOnly(c) ==
    /\ pc = "backup" /\ NextOperation(c)
    /\ recovery' = IF source[c.path] \in Contents \ Links /\ c.after # None
                   THEN [recovery EXCEPT ![c.path] = source[c.path]]
                   ELSE recovery
    /\ pc' = "replace"
    /\ UNCHANGED <<source, shadow, hasShadow, user, late, manifests, records, state,
                   completed, counters>>

(* _apply_change, first half: an existing source file is copied aside; the *)
(* target of a link stays in the manifest.  All of _apply_change works on  *)
(* the normalized name.                                                    *)
Backup(c) ==
    /\ pc = "backup" /\ NextOperation(c)
    /\ LET p == Normalized[c.path] IN
          recovery' = IF source[p] \in Contents \ Links
                      THEN [recovery EXCEPT ![p] = source[p]]
                      ELSE recovery
    /\ pc' = "replace"
    /\ UNCHANGED <<source, shadow, hasShadow, user, late, manifests, records, state, completed,
                   counters>>

(* unlink of a missing file raises, and so does a missing shadow file.     *)
CannotApply(c) ==
    LET p == Normalized[c.path] IN
        (IF c.after = None THEN source[p] ELSE shadow[p]) = None

(* _apply_change, second half: unlink, or an atomic replace by the file    *)
(* the shadow holds.                                                       *)
Replace(c) ==
    /\ pc = "replace" /\ NextOperation(c)
    /\ ~CannotApply(c)
    /\ source' = [source EXCEPT ![Normalized[c.path]] =
                    IF c.after = None THEN None ELSE shadow[Normalized[c.path]]]
    /\ pc' = "complete"
    /\ UNCHANGED <<shadow, hasShadow, recovery, user, late, manifests, records, state,
                   completed, counters>>

ApplyFails ==
    /\ pc \in {"backup", "replace"} /\ Pending # {}
    /\ \/ Fault
       \/ /\ pc = "replace"
          /\ \E c \in Pending : NextOperation(c) /\ CannotApply(c)
          /\ UNCHANGED faults
    /\ pc' = "failed"
    /\ UNCHANGED <<trees, manifests, records, state, completed, sourceEdits,
                   shadowEdits, crashes>>

(* Mutant: the path is remembered only once the journal holds it. *)
CompleteWhenWritten(c) ==
    /\ pc = "complete" /\ NextOperation(c)
    /\ \/ /\ completed' = completed \cup {c.path}
          /\ journal' = [journal EXCEPT !.completed = completed']
          /\ pc' = "backup"
          /\ UNCHANGED faults
       \/ Fault /\ pc' = "failed" /\ UNCHANGED <<journal, completed>>
    /\ UNCHANGED <<trees, manifests, txn, staged, state, sourceEdits,
                   shadowEdits, crashes>>

(* The path joins completed_operations in memory, then in the journal.     *)
Complete(c) ==
    /\ pc = "complete" /\ NextOperation(c)
    /\ completed' = completed \cup {c.path}
    /\ \/ /\ journal' = [journal EXCEPT !.completed = completed']
          /\ pc' = "backup"
          /\ UNCHANGED faults
       \/ Fault /\ pc' = "failed" /\ UNCHANGED journal
    /\ UNCHANGED <<trees, manifests, txn, staged, state, sourceEdits,
                   shadowEdits, crashes>>

(* Mutant: the journal is sealed inside the loop. *)
SealJournalEarly ==
    /\ pc = "backup"
    /\ journal' = [journal EXCEPT !.state = "COMMITTED"]
    /\ pc' = "seal"
    /\ UNCHANGED <<trees, manifests, txn, staged, state, completed, counters>>

(* Mutant: a commit without operations is never sealed. *)
SealJournalOfChanges ==
    /\ pc = "backup" /\ Pending = {} /\ journal.operations # {}
    /\ \/ /\ journal' = [journal EXCEPT !.state = "COMMITTED"]
          /\ pc' = "seal"
          /\ UNCHANGED faults
       \/ Fault /\ pc' = "idle" /\ UNCHANGED journal
    /\ UNCHANGED <<trees, manifests, txn, staged, state, completed,
                   sourceEdits, shadowEdits, crashes>>

(* Every operation is applied: the journal is sealed, then the record. *)
SealJournal ==
    /\ pc = "backup" /\ Pending = {}
    /\ \/ /\ journal' = [journal EXCEPT !.state = "COMMITTED"]
          /\ pc' = "seal"
          /\ UNCHANGED faults
       \/ Fault /\ pc' = "idle" /\ UNCHANGED journal
    /\ UNCHANGED <<trees, manifests, txn, staged, state, completed,
                   sourceEdits, shadowEdits, crashes>>

SealRecord ==
    /\ pc = "seal"
    /\ state' = "COMMITTED"
    /\ \/ txn' = Record("COMMITTED", {}) /\ pc' = "cleanup" /\ UNCHANGED faults
       \/ Fault /\ pc' = "idle" /\ UNCHANGED txn
    /\ UNCHANGED <<trees, manifests, staged, journal, completed, sourceEdits,
                   shadowEdits, crashes>>

(* cleanup_terminal_artifacts: a failure only leaves a tree behind. *)
RemoveArtifacts ==
    /\ recovery' \in {recovery, EmptyTree}
    /\ \/ shadow' = EmptyTree /\ hasShadow' = FALSE
       \/ UNCHANGED <<shadow, hasShadow>>
    /\ IF recovery' = EmptyTree /\ ~hasShadow' THEN UNCHANGED faults ELSE Fault

Cleanup ==
    /\ pc = "cleanup"
    /\ RemoveArtifacts
    /\ pc' = "idle"
    /\ UNCHANGED <<source, user, late, manifests, records, state, completed,
                   sourceEdits, shadowEdits, crashes>>

-----------------------------------------------------------------------------
(* A failed commit: the journal says so before the rollback starts. *)

FailJournal ==
    /\ pc = "failed"
    /\ \/ /\ journal' = [state |-> "COMMIT_FAILED",
                         operations |-> journal.operations,
                         completed |-> completed]
          /\ state' = "COMMIT_FAILED" /\ pc' = "rollback"
          /\ UNCHANGED faults
       \/ Fault /\ pc' = "idle" /\ UNCHANGED <<journal, state>>
    /\ UNCHANGED <<trees, manifests, txn, staged, completed, sourceEdits,
                   shadowEdits, crashes>>

(* _rollback_completed, one change, by its own name: a created path is removed, a link made *)
(* anew from the manifest, a file moved back from recovery.                *)
Undo(c) ==
    /\ pc = "rollback" /\ NextUndo(c)
    /\ completed' = completed \ {c.path}
    /\ source' = [source EXCEPT ![c.path] =
                    IF c.before = None \/ c.before \in Links THEN c.before
                    ELSE IF recovery[c.path] # None THEN recovery[c.path]
                    ELSE @]
    /\ recovery' = IF c.before = None \/ c.before \in Links
                   THEN recovery
                   ELSE [recovery EXCEPT ![c.path] = None]
    /\ UNCHANGED <<shadow, hasShadow, user, late, manifests, records, state, pc,
                   counters>>

(* Mutant: a failed undo does not mark the transaction. *)
UndoFailsQuietly(c) ==
    /\ pc = "rollback" /\ NextUndo(c)
    /\ Fault
    /\ completed' = completed \ {c.path}
    /\ UNCHANGED <<trees, manifests, records, state, pc, sourceEdits,
                   shadowEdits, crashes>>

(* An OSError in the undo of one change: the others are still undone. *)
UndoFails(c) ==
    /\ pc = "rollback" /\ NextUndo(c)
    /\ Fault
    /\ completed' = completed \ {c.path}
    /\ state' = "RECOVERY_REQUIRED"
    /\ source' \in {source} \cup
         {[source EXCEPT ![c.path] = None] : l \in Links \cap {c.before}}
    /\ UNCHANGED <<shadow, hasShadow, recovery, user, late, manifests, records, pc,
                   sourceEdits, shadowEdits, crashes>>

RollbackDone ==
    /\ pc = "rollback" /\ Undoable = {}
    /\ Persist(Record(state, {}))
    /\ pc' = "idle"
    /\ UNCHANGED <<trees, manifests, staged, journal, state, completed,
                   sourceEdits, shadowEdits, crashes>>

-----------------------------------------------------------------------------
(* discard, crash and load. *)

(* Mutant: the tree goes before the record. *)
DiscardTreeFirst ==
    /\ pc = "idle"
    /\ state \notin {"NEW", "DOWN", "COMMITTING", "COMMITTED",
                     "RECOVERY_REQUIRED"}
    /\ state' = "DISCARDED"
    /\ shadow' = EmptyTree /\ hasShadow' = FALSE
    /\ Persist(Record("DISCARDED", {}))
    /\ UNCHANGED <<source, recovery, user, late, manifests, staged, journal, pc,
                   completed, sourceEdits, shadowEdits, crashes>>

(* Mutant: nothing refuses the discard of a committed transaction. *)
DiscardCommitted ==
    /\ pc = "idle"
    /\ state \notin {"NEW", "DOWN", "COMMITTING", "RECOVERY_REQUIRED"}
    /\ state' = "DISCARDED"
    /\ txn' = Record("DISCARDED", {}) /\ pc' = "remove"
    /\ UNCHANGED <<trees, manifests, staged, journal, completed, counters>>

Discard ==
    /\ pc = "idle"
    /\ state \notin {"NEW", "DOWN", "COMMITTING", "COMMITTED",
                     "RECOVERY_REQUIRED"}
    /\ state' = "DISCARDED"
    /\ \/ txn' = Record("DISCARDED", {}) /\ pc' = "remove" /\ UNCHANGED faults
       \/ Fault /\ UNCHANGED <<txn, pc>>
    /\ UNCHANGED <<trees, manifests, staged, journal, completed, sourceEdits,
                   shadowEdits, crashes>>

DiscardRemove ==
    /\ pc = "remove"
    /\ \/ shadow' = EmptyTree /\ hasShadow' = FALSE /\ UNCHANGED faults
       \/ Fault /\ UNCHANGED <<shadow, hasShadow>>
    /\ pc' = "idle"
    /\ UNCHANGED <<source, recovery, user, late, manifests, records, state,
                   completed, sourceEdits, shadowEdits, crashes>>

(* The process dies, or exits.  Before ACTIVE nothing refers to the        *)
(* transaction: the next one starts over.                                  *)
Crash ==
    /\ state # "DOWN"
    /\ crashes < MaxCrashes
    /\ crashes' = crashes + 1
    /\ state' = IF txn.state = "NONE" THEN "NEW" ELSE "DOWN"
    /\ pc' = "idle" /\ completed' = {}
    /\ UNCHANGED <<trees, manifests, records, sourceEdits, shadowEdits, faults>>

(* Mutant: load() trusts the record over a journal still COMMITTING. *)
UncertainAfterFailure ==
    /\ journal.state = "COMMIT_FAILED"
    /\ txn.state \notin {"COMMIT_FAILED", "RECOVERY_REQUIRED"}

UncertainJournal ==
    \/ journal.state = "COMMITTING"
    \/ /\ journal.state = "COMMIT_FAILED"
       /\ txn.state \notin {"COMMIT_FAILED", "RECOVERY_REQUIRED"}

RepairableConflict ==
    txn.state = "CONFLICTED" /\ txn.conflicts # {}
                             /\ txn.conflicts \subseteq RepairableFailures

(* The state load() gives the records it finds. *)
Reconciled ==
    IF journal.state = "COMMITTED" THEN Record("COMMITTED", {})
    ELSE IF UncertainJournal \/ txn.state = "COMMITTING"
         THEN Record("RECOVERY_REQUIRED", {})
    ELSE IF txn.state = "ACTIVE" THEN Record("INTERRUPTED", {})
    ELSE IF RepairableConflict THEN Record("INTERRUPTED", txn.conflicts)
    ELSE txn

Load ==
    /\ state = "DOWN"
    /\ txn' = Reconciled
    /\ state' = Reconciled.state
    /\ IF journal.state = "COMMITTED"
       THEN RemoveArtifacts
       ELSE UNCHANGED <<shadow, hasShadow, recovery, faults>>
    /\ UNCHANGED <<source, user, late, manifests, staged, journal, pc, completed,
                   sourceEdits, shadowEdits, crashes>>

-----------------------------------------------------------------------------
(* The user edits the source tree with an editor or with Git. *)

EditSource(p, v) ==
    /\ sourceEdits < MaxSourceEdits
    /\ Quiet => pc \notin CommitSteps
    /\ v # source[p]
    /\ source' = [source EXCEPT ![p] = v]
    /\ user' = [user EXCEPT ![p] = v]
    /\ sourceEdits' = sourceEdits + 1
    /\ UNCHANGED <<shadow, hasShadow, recovery, late, manifests, records, process,
                   shadowEdits, crashes, faults>>

(* The steps a process that runs takes by itself, once an operation began. *)
Step ==
    \/ BeginCopy \/ Decide \/ CommitJournal \/ CommitRecord
    \/ \E c \in journal.operations : Backup(c) \/ Replace(c) \/ Complete(c)
    \/ ApplyFails \/ SealJournal \/ SealRecord \/ Cleanup
    \/ FailJournal \/ \E c \in journal.operations : Undo(c) \/ UndoFails(c)
    \/ RollbackDone \/ DiscardRemove

Next ==
    \/ BeginManifest \/ BeginFails
    \/ \E p \in Paths, v \in Value : EditShadow(p, v) \/ EditSource(p, v)
    \/ Stage \/ Interrupt \/ ResumeEditing
    \/ \E r \in BlockReasons : BlockValidation(r)
    \/ \E s \in {"validate", "revalidate"} : Validate(s)
    \/ Discard
    \/ Step
    \/ Crash \/ Load

Spec == Init /\ [][Next]_vars

(* The process is not suspended for ever inside an operation, and a user   *)
(* whose session went down opens it again.                                 *)
FairSpec == Spec /\ WF_vars(Step) /\ WF_vars(Load)

-----------------------------------------------------------------------------
(* Properties *)

Editable ==
    {"ACTIVE", "STAGED", "VALIDATING", "READY_FOR_REVIEW", "INTERRUPTED",
     "CONFLICTED"}

(* Every variable has its type. *)
TypeOK ==
    /\ source \in Tree /\ shadow \in Tree /\ recovery \in Tree /\ user \in Tree
    /\ hasShadow \in BOOLEAN /\ late \subseteq Paths
    /\ baseline \in Tree /\ execBaseline \in Tree
    /\ owned \subseteq Paths /\ protected \subseteq Paths
    /\ txn \in [state : RecordStates \cup {"NONE"}, conflicts : SUBSET Reasons]
    /\ staged \subseteq Change
    /\ journal \in [state : JournalStates, operations : SUBSET Change,
                    completed : SUBSET Paths]
    /\ state \in RecordStates \cup {"NEW", "DOWN"}
    /\ pc \in {"idle", "copy", "validate", "cleanup", "remove"} \cup CommitSteps
    /\ completed \subseteq Paths
    /\ sourceEdits \in 0..MaxSourceEdits /\ shadowEdits \in 0..MaxShadowEdits
    /\ crashes \in 0..MaxCrashes /\ faults \in 0..MaxFaults

(* Whatever the source tree holds that the user did not put there is an    *)
(* operation of a commit journal on disk that says it began: no crash or   *)
(* failed write can leave an applied change load() would not learn of.     *)
JournalBeforeSource ==
    \A p \in Paths : source[p] # user[p] =>
        journal.state # "NONE" /\ p \in PathsOf(journal.operations)

(* Until the journal is sealed, the user's version of every path the       *)
(* source no longer shows survives: it was absent, a link whose target the *)
(* manifest keeps, or it is in the recovery tree.                          *)
OriginalsKept ==
    journal.state # "COMMITTED" =>
        \A p \in Paths : source[p] # user[p] =>
            \/ user[p] = None
            \/ user[p] \in Links
            \/ recovery[p] = user[p]

(* The paths that were changed in the shadow between the conflict check of *)
(* commit() and its second diff(): no one compared them with the source.   *)
Unchecked == PathsOf(journal.operations) \ PathsOf(staged)

(* The paths a transaction saw: Git shows them, the manifest and the copy, *)
(* which begin() takes one after the other, agree on them, and commit()    *)
(* checked them for conflicts.                                             *)
Seen ==
    {p \in Paths \ Ignored : execBaseline[p] = Scrub(baseline)[p]} \ Unchecked

(* A commit that ends in COMMIT_FAILED, in the process or in the record a  *)
(* later process loads, has put every path it saw back.                    *)
FailedCommitRestores ==
    (state = "COMMIT_FAILED" /\ pc = "idle") \/ txn.state = "COMMIT_FAILED" =>
        \A p \in Seen : source[p] = user[p]

(* When the journal is sealed the source shows every operation in full,    *)
(* and nothing else differs from the user's tree.  Excepted is the content *)
(* of a path that somebody wrote in the shadow while it was committed.     *)
DeliveryComplete ==
    [][journal'.state = "COMMITTED" /\ journal.state # "COMMITTED" =>
        /\ \A c \in journal.operations : c.path \in late \/ source[c.path] = c.after
        /\ \A p \in Paths : source[p] # user[p] => p \in PathsOf(journal.operations)]_vars

(* What a commit applies is exactly the change set that was staged, the    *)
(* one that verification and review saw, and no change of it touches a     *)
(* path with a secret, a path the user was editing or one outside the      *)
(* root; but for the paths that a process which outlived its command wrote *)
(* in the shadow after commit() had compared it.                           *)
ReviewedIsDelivered ==
    journal.state # "NONE" =>
        /\ \A c \in Change : c.path \notin late =>
              (c \in journal.operations <=> c \in staged)
        /\ PathsOf(journal.operations) \cap (protected \cup owned \cup Unsafe) \subseteq late

(* A commit replaces a path the transaction saw only while it still holds  *)
(* what it held when the transaction began.                                *)
NoUnseenOverwrite ==
    [][\A p \in Seen :
        pc = "replace" /\ source'[p] # source[p] /\ user' = user =>
            source[p] = baseline[p]]_vars

(* README.md:330, "conflict-free commit": no path at all is replaced that  *)
(* holds something other than what the transaction began from.             *)
ConflictFreeCommit ==
    [][\A p \in Paths :
        pc = "replace" /\ source'[p] # source[p] /\ user' = user =>
            source[p] = baseline[p]]_vars

(* Once a commit journal exists, no process, restarted or not, holds the   *)
(* transaction in a state from which it could be edited, staged or         *)
(* committed again.                                                        *)
UncertainNeverReopened == journal.state # "NONE" => state \notin Editable

(* A sealed delivery is never recorded as anything else, whatever fails    *)
(* between the journal, the record and the cleanup.                        *)
DeliveryNeverDenied ==
    /\ journal.state = "COMMITTED" =>
          /\ txn.state \in {"COMMITTING", "COMMITTED"}
          /\ state \in {"COMMITTING", "COMMITTED", "DOWN"}
    /\ txn.state = "COMMITTED" => journal.state = "COMMITTED"

(* Work is never lost: a record that a later process may resume, review or *)
(* repair, or that tells of a commit which was not sealed, always has its  *)
(* execution tree.                                                         *)
ResumableHasShadow ==
    txn.state \in Editable \cup {"COMMITTING", "COMMIT_FAILED"} => hasShadow
        \/ journal.state = "COMMITTED"

(* A commit that began is settled: the journal gets a verdict, or a        *)
(* process holds the transaction as uncertain.  The one other end is a     *)
(* process whose journal write itself failed.                              *)
CommitSettles ==
    journal.state = "COMMITTING" ~>
        \/ journal.state # "COMMITTING"
        \/ state = "RECOVERY_REQUIRED"
        \/ state = "COMMITTING" /\ pc = "idle"
=============================================================================
