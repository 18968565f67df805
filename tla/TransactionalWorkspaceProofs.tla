-------------------- MODULE TransactionalWorkspaceProofs --------------------
(***************************************************************************)
(* Theorems about TransactionalWorkspace and its delivery, for every set   *)
(* of paths and contents, every initial tree and every bound.  Those about *)
(* the values a commit leaves in the source tree assume that the user does *)
(* not edit it while commit() runs (Quiet), and they and JournalsFirst that *)
(* no path begins with a dot (PlainNames).  The shadow may be written at   *)
(* any step of any of them.                                                *)
(***************************************************************************)
EXTENDS TransactionalDelivery, TLAPS

-----------------------------------------------------------------------------
(* Where a process is in an operation decides what state it holds and what *)
(* the record and the journal say; the invariants rest on this.            *)

ApplySteps == {"backup", "replace", "complete", "failed"}

Control ==
    /\ pc = "copy" => state = "NEW"
    /\ pc \in {"validate", "revalidate"} => state = "VALIDATING"
    /\ pc = "journal" => state = "READY_FOR_REVIEW"
    /\ pc \in ApplySteps \cup {"record", "seal"} => state = "COMMITTING"
    /\ pc = "rollback" => state \in {"COMMIT_FAILED", "RECOVERY_REQUIRED"}
    /\ pc = "cleanup" => state = "COMMITTED"
    /\ pc = "remove" => state = "DISCARDED"
    /\ state = "NEW" <=> txn.state = "NONE"
    /\ txn.state = "NONE" => journal.state = "NONE"
    /\ state = "DOWN" => pc = "idle"
    /\ pc \in ApplySteps \cup {"record"} => journal.state = "COMMITTING"
    /\ pc \in ApplySteps \cup {"seal", "rollback"} => txn.state = "COMMITTING"
    /\ pc \in {"seal", "cleanup"} => journal.state = "COMMITTED"
    /\ pc = "rollback" => journal.state = "COMMIT_FAILED"
    /\ state = "COMMITTED" => journal.state = "COMMITTED"
    /\ UncertainNeverReopened
    /\ DeliveryNeverDenied

-----------------------------------------------------------------------------
(* Type correctness *)

(* The changes diff() reports are well typed. *)
LEMMA DiffType == TypeOK => Diff \subseteq Change
BY DEF TypeOK, Tree, Diff, Change

(* The views begin() takes of a tree are trees. *)
LEMMA ViewType ==
    ASSUME NEW tree \in Tree
    PROVE  SourceView(tree) \in Tree /\ Scrub(SourceView(tree)) \in Tree
BY ContentAssumption DEF Tree, Value, SourceView, Scrub

LEMMA EmptyTreeType == EmptyTree \in Tree
BY DEF EmptyTree, Tree, Value

LEMMA InitType == Init => TypeOK
<1> SUFFICES ASSUME Init PROVE TypeOK
  OBVIOUS
<1>1. hasShadow \in BOOLEAN
  BY Zenon DEF Init
<1> QED
  BY <1>1, EmptyTreeType, ContentAssumption, BoundAssumption
  DEF Init, TypeOK, NoRecord, Record, NoJournal, RecordStates, JournalStates

(* Every action keeps the types. *)
LEMMA NextType == TypeOK /\ Control /\ [Next]_vars => TypeOK'
<1> SUFFICES ASSUME TypeOK, Control, [Next]_vars PROVE TypeOK'
  OBVIOUS
<1> USE BoundAssumption
<1> USE DEF Record, Fault, Persist
<1>1. CASE BeginManifest
  BY <1>1, ViewType DEF BeginManifest, TypeOK, trees, records, counters
<1>2. CASE BeginCopy
  BY <1>2, ViewType DEF BeginCopy, TypeOK, counters, RecordStates
<1>3. CASE BeginFails
  BY <1>3, EmptyTreeType DEF BeginFails, TypeOK, trees, records
<1>4. ASSUME NEW p \in Paths, NEW v \in Value, EditShadow(p, v)
      PROVE  TypeOK'
  BY <1>4 DEF EditShadow, TypeOK, Tree, manifests, records, process
<1>5. ASSUME NEW p \in Paths, NEW v \in Value, EditSource(p, v)
      PROVE  TypeOK'
  BY <1>5 DEF EditSource, TypeOK, Tree, manifests, records, process
<1>6. CASE Stage
  BY <1>6, DiffType DEF Stage, TypeOK, trees, manifests, RecordStates
<1>7. CASE Interrupt
  BY <1>7 DEF Interrupt, TypeOK, trees, manifests, RecordStates
<1>8. CASE ResumeEditing
  BY <1>8 DEF ResumeEditing, TypeOK, trees, manifests, RecordStates
<1>9. ASSUME NEW r \in BlockReasons, BlockValidation(r)
      PROVE  TypeOK'
  BY <1>9 DEF BlockValidation, TypeOK, trees, manifests, RecordStates, Reasons
<1>10. ASSUME NEW s \in {"validate", "revalidate"}, Validate(s)
       PROVE  TypeOK'
  BY <1>10 DEF Validate, TypeOK, trees, manifests, RecordStates, CommitSteps
<1>11. CASE Discard
  BY <1>11 DEF Discard, TypeOK, trees, manifests, RecordStates
<1>12. CASE Step
  <2>1. CASE BeginCopy
    BY <1>2, <2>1
  <2>2. CASE Decide
    <3>1. Findings \subseteq Reasons
      BY DEF Findings, Conflicts, Reasons
    <3> QED
      BY <2>2, <3>1 DEF Decide, TypeOK, trees, manifests, RecordStates,
                        CommitSteps
  <2>3. CASE CommitJournal
    BY <2>3, DiffType DEF CommitJournal, TypeOK, trees, manifests, JournalStates,
                RecordStates, CommitSteps
  <2>4. CASE CommitRecord
    BY <2>4 DEF CommitRecord, TypeOK, trees, manifests, RecordStates, CommitSteps
  <2>5. ASSUME NEW c \in journal.operations, Backup(c)
        PROVE  TypeOK'
    BY <2>5 DEF Backup, TypeOK, Tree, Value, Change, manifests, records, counters, CommitSteps
  <2>6. ASSUME NEW c \in journal.operations, Replace(c)
        PROVE  TypeOK'
    BY <2>6 DEF Replace, TypeOK, Tree, Value, Change, manifests, records, counters, CommitSteps
  <2>7. ASSUME NEW c \in journal.operations, Complete(c)
        PROVE  TypeOK'
    BY <2>7 DEF Complete, TypeOK, Change, trees, manifests, CommitSteps
  <2>8. CASE ApplyFails
    BY <2>8 DEF ApplyFails, TypeOK, trees, manifests, records, CommitSteps
  <2>9. CASE SealJournal
    BY <2>9 DEF SealJournal, TypeOK, trees, manifests, JournalStates, CommitSteps
  <2>10. CASE SealRecord
    BY <2>10 DEF SealRecord, TypeOK, trees, manifests, RecordStates
  <2>11. CASE Cleanup
    <3>1. hasShadow' \in BOOLEAN
      BY <2>11, Zenon DEF Cleanup, RemoveArtifacts, TypeOK
    <3>2. shadow' \in Tree /\ recovery' \in Tree
      BY <2>11, EmptyTreeType DEF Cleanup, RemoveArtifacts, TypeOK
    <3> QED
      BY <2>11, <3>1, <3>2 DEF Cleanup, RemoveArtifacts, TypeOK, manifests, records
  <2>12. CASE FailJournal
    BY <2>12 DEF FailJournal, TypeOK, trees, manifests, JournalStates,
                 RecordStates, CommitSteps
  <2>13. ASSUME NEW c \in journal.operations, Undo(c)
         PROVE  TypeOK'
    BY <2>13 DEF Undo, TypeOK, Tree, Value, Change, manifests, records, counters
  <2>14. ASSUME NEW c \in journal.operations, UndoFails(c)
         PROVE  TypeOK'
    BY <2>14 DEF UndoFails, TypeOK, Tree, Value, Change, manifests, records, RecordStates
  <2>15. CASE RollbackDone
    BY <2>15 DEF RollbackDone, Control, TypeOK, trees, manifests, RecordStates
  <2>16. CASE DiscardRemove
    <3>1. hasShadow' \in BOOLEAN
      BY <2>16, Zenon DEF DiscardRemove, TypeOK
    <3>2. shadow' \in Tree
      BY <2>16, EmptyTreeType DEF DiscardRemove, TypeOK
    <3> QED
      BY <2>16, <3>1, <3>2 DEF DiscardRemove, TypeOK, manifests, records
  <2> QED
    BY <1>12, <2>1, <2>2, <2>3, <2>4, <2>5, <2>6, <2>7, <2>8, <2>9, <2>10,
       <2>11, <2>12, <2>13, <2>14, <2>15, <2>16 DEF Step
<1>13. CASE Crash
  BY <1>13 DEF Crash, TypeOK, trees, manifests, records, RecordStates
<1>14. CASE Load
  <2>1. hasShadow' \in BOOLEAN
    BY <1>14, Zenon DEF Load, RemoveArtifacts, TypeOK
  <2>2. shadow' \in Tree /\ recovery' \in Tree /\ faults' \in 0..MaxFaults
    BY <1>14, EmptyTreeType DEF Load, RemoveArtifacts, TypeOK
  <2>3. /\ txn' = Reconciled /\ state' = Reconciled.state
        /\ Reconciled \in [state : RecordStates, conflicts : SUBSET Reasons]
    BY <1>14 DEF Load, Reconciled, Control, TypeOK, RecordStates
  <2> QED
    BY <1>14, <2>1, <2>2, <2>3 DEF Load, TypeOK, manifests
<1>15. CASE UNCHANGED vars
  BY <1>15 DEF TypeOK, vars, trees, manifests, records, process, counters
<1> QED
  BY <1>1, <1>2, <1>3, <1>4, <1>5, <1>6, <1>7, <1>8, <1>9, <1>10, <1>11,
     <1>12, <1>13, <1>14, <1>15 DEF Next

-----------------------------------------------------------------------------
(* Control *)

LEMMA InitControl == Init => Control
BY DEF Init, Control, ApplySteps, NoRecord, Record, NoJournal, Editable,
       UncertainNeverReopened, DeliveryNeverDenied

LEMMA NextControl == TypeOK /\ Control /\ [Next]_vars => Control'
<1> SUFFICES ASSUME TypeOK, Control, [Next]_vars PROVE Control'
  OBVIOUS
<1> USE DEF Record, Fault, Persist, Control, ApplySteps, Editable,
            UncertainNeverReopened, DeliveryNeverDenied
<1>1. CASE BeginManifest
  BY <1>1 DEF BeginManifest, records
<1>2. CASE BeginCopy
  BY <1>2 DEF BeginCopy
<1>3. CASE BeginFails
  BY <1>3 DEF BeginFails, records
<1>4. ASSUME NEW p \in Paths, NEW v \in Value,
             EditShadow(p, v) \/ EditSource(p, v)
      PROVE  Control'
  BY <1>4 DEF EditShadow, EditSource, records, process
<1>5. CASE Stage \/ Interrupt \/ ResumeEditing
  BY <1>5 DEF Stage, Interrupt, ResumeEditing
<1>6. ASSUME NEW r \in BlockReasons, BlockValidation(r)
      PROVE  Control'
  BY <1>6 DEF BlockValidation
<1>7. ASSUME NEW s \in {"validate", "revalidate"}, Validate(s)
      PROVE  Control'
  BY <1>7 DEF Validate
<1>8. CASE Discard
  BY <1>8 DEF Discard
<1>9. CASE Step
  <2>1. CASE Decide
    BY <2>1 DEF Decide
  <2>2. CASE CommitJournal \/ CommitRecord
    BY <2>2 DEF CommitJournal, CommitRecord
  <2>3. ASSUME NEW c \in journal.operations, Backup(c) \/ Replace(c)
        PROVE  Control'
    BY <2>3 DEF Backup, Replace, records
  <2>4. ASSUME NEW c \in journal.operations, Complete(c)
        PROVE  Control'
    BY <2>4 DEF Complete, TypeOK
  <2>5. CASE ApplyFails
    BY <2>5 DEF ApplyFails, records
  <2>6. CASE SealJournal \/ SealRecord
    BY <2>6 DEF SealJournal, SealRecord, TypeOK
  <2>7. CASE Cleanup
    BY <2>7 DEF Cleanup, records
  <2>8. CASE FailJournal
    BY <2>8 DEF FailJournal
  <2>9. ASSUME NEW c \in journal.operations, Undo(c) \/ UndoFails(c)
        PROVE  Control'
    BY <2>9 DEF Undo, UndoFails, records
  <2>10. CASE RollbackDone
    BY <2>10 DEF RollbackDone
  <2>11. CASE DiscardRemove
    BY <2>11 DEF DiscardRemove, records
  <2> QED
    BY <1>2, <1>9, <2>1, <2>2, <2>3, <2>4, <2>5, <2>6, <2>7, <2>8, <2>9,
       <2>10, <2>11 DEF Step
<1>10. CASE Crash
  BY <1>10 DEF Crash, records
<1>11. CASE Load
  BY <1>11 DEF Load, Reconciled, UncertainJournal, RepairableConflict, TypeOK,
               RecordStates, JournalStates
<1>12. CASE UNCHANGED vars
  BY <1>12 DEF vars, records, process
<1> QED
  BY <1>1, <1>2, <1>3, <1>4, <1>5, <1>6, <1>7, <1>8, <1>9, <1>10, <1>11,
     <1>12 DEF Next

-----------------------------------------------------------------------------
(* The execution tree *)

(* Whatever a process holds, or a later one may load, as work to go on     *)
(* with has its tree: only a recorded discard and a sealed commit remove it.*)
TreeKept ==
    /\ state \in Editable \cup {"COMMITTING", "COMMIT_FAILED"} =>
          hasShadow \/ journal.state = "COMMITTED"
    /\ pc = "remove" => txn.state = "DISCARDED"
    /\ ResumableHasShadow

LEMMA InitTree == Init => TreeKept
BY DEF Init, TreeKept, ResumableHasShadow, NoRecord, Record, Editable

(* An action that leaves the tree alone, unseals no journal, and takes the *)
(* states it writes from the ones the transaction was in.                  *)
LEMMA TreeFrame ==
    ASSUME TreeKept, UNCHANGED hasShadow,
           journal.state = "COMMITTED" => journal'.state = "COMMITTED",
           pc' = "remove" => txn'.state = "DISCARDED",
           LET live == Editable \cup {"COMMITTING", "COMMIT_FAILED"} IN
           /\ state' \in live => state \in live \/ txn.state \in live
           /\ txn'.state \in live => state \in live \/ txn.state \in live
    PROVE  TreeKept'
BY DEF TreeKept, ResumableHasShadow

LEMMA NextTree == TypeOK /\ Control /\ TreeKept /\ [Next]_vars => TreeKept'
<1> SUFFICES ASSUME TypeOK, Control, TreeKept, [Next]_vars PROVE TreeKept'
  OBVIOUS
<1> USE DEF Record, Persist, Editable
<1>1. CASE BeginManifest \/ BeginFails
  <2>1. /\ UNCHANGED <<hasShadow, journal, state, txn>>
        /\ pc' \in {"copy", "idle"}
    BY <1>1 DEF BeginManifest, BeginFails, trees, records
  <2> QED
    BY <2>1, TreeFrame
<1>2. CASE BeginCopy
  BY <1>2 DEF BeginCopy, TreeKept, ResumableHasShadow
<1>3. ASSUME NEW p \in Paths, NEW v \in Value,
             EditShadow(p, v) \/ EditSource(p, v)
      PROVE  TreeKept'
  <2>1. UNCHANGED <<hasShadow, journal, state, txn, pc>>
    BY <1>3 DEF EditShadow, EditSource, records, process
  <2> QED
    BY <2>1, TreeFrame DEF TreeKept
<1>4. CASE Stage \/ Interrupt \/ ResumeEditing
  <2>1. /\ UNCHANGED <<hasShadow, journal, pc>> /\ pc = "idle"
        /\ state \in Editable
        /\ txn' = txn \/ txn'.state \in Editable
    BY <1>4 DEF Stage, Interrupt, ResumeEditing, trees
  <2> QED
    BY <2>1, TreeFrame
<1>5. ASSUME NEW r \in BlockReasons, BlockValidation(r)
      PROVE  TreeKept'
  <2>1. /\ UNCHANGED <<hasShadow, journal, pc>> /\ pc = "idle"
        /\ state \in Editable
    BY <1>5 DEF BlockValidation, trees
  <2> QED
    BY <2>1, TreeFrame
<1>6. ASSUME NEW s \in {"validate", "revalidate"}, Validate(s)
      PROVE  TreeKept'
  <2>1. /\ UNCHANGED <<hasShadow, journal>> /\ pc' # "remove"
        /\ state \in Editable
    BY <1>6 DEF Validate, trees
  <2> QED
    BY <2>1, TreeFrame
<1>7. CASE Discard
  <2>1. /\ UNCHANGED <<hasShadow, journal>> /\ state' = "DISCARDED"
        /\ \/ txn'.state = "DISCARDED"
           \/ txn' = txn /\ pc' = "idle"
    BY <1>7 DEF Discard, trees
  <2> QED
    BY <2>1, TreeFrame
<1>8. CASE Step
  <2>1. CASE Decide \/ CommitJournal \/ CommitRecord
    <3>1. /\ UNCHANGED hasShadow /\ pc' # "remove"
          /\ state \in Editable \cup {"COMMITTING"}
          /\ journal.state # "COMMITTED"
      BY <2>1 DEF Decide, CommitJournal, CommitRecord, trees, Control,
                  UncertainNeverReopened
    <3> QED
      BY <3>1, TreeFrame
  <2>2. ASSUME NEW c \in journal.operations,
               Backup(c) \/ Replace(c) \/ Complete(c)
        PROVE  TreeKept'
    <3>1. /\ UNCHANGED <<hasShadow, state, txn>> /\ pc' # "remove"
          /\ journal'.state = journal.state
      BY <2>2 DEF Backup, Replace, Complete, records, trees, TypeOK
    <3> QED
      BY <3>1, TreeFrame
  <2>3. CASE ApplyFails \/ SealJournal \/ SealRecord
    <3>1. /\ UNCHANGED hasShadow /\ pc' # "remove"
          /\ state = "COMMITTING"
          /\ journal.state = "COMMITTED" => journal'.state = "COMMITTED"
      BY <2>3 DEF ApplyFails, SealJournal, SealRecord, trees, records, TypeOK,
                  Control, ApplySteps
    <3> QED
      BY <3>1, TreeFrame
  <2>4. CASE Cleanup
    <3>1. journal'.state = "COMMITTED" /\ pc' = "idle"
      BY <2>4 DEF Cleanup, records, Control
    <3> QED
      BY <3>1 DEF TreeKept, ResumableHasShadow
  <2>5. CASE FailJournal \/ RollbackDone
    <3>1. /\ UNCHANGED hasShadow /\ pc' # "remove"
          /\ state \in {"COMMITTING", "COMMIT_FAILED", "RECOVERY_REQUIRED"}
          /\ txn.state = "COMMITTING" /\ journal.state # "COMMITTED"
      BY <2>5 DEF FailJournal, RollbackDone, trees, Control, ApplySteps
    <3> QED
      BY <3>1, TreeFrame
  <2>6. ASSUME NEW c \in journal.operations, Undo(c) \/ UndoFails(c)
        PROVE  TreeKept'
    <3>1. /\ UNCHANGED <<hasShadow, journal, txn>> /\ pc' = "rollback"
          /\ state' = state \/ state' = "RECOVERY_REQUIRED"
      BY <2>6 DEF Undo, UndoFails, records, process
    <3> QED
      BY <3>1, TreeFrame
  <2>7. CASE DiscardRemove
    <3>1. /\ txn'.state = "DISCARDED" /\ state' = "DISCARDED" /\ pc' = "idle"
      BY <2>7 DEF DiscardRemove, records, Control, TreeKept
    <3> QED
      BY <3>1 DEF TreeKept, ResumableHasShadow
  <2> QED
    BY <1>2, <1>8, <2>1, <2>2, <2>3, <2>4, <2>5, <2>6, <2>7 DEF Step
<1>9. CASE Crash
  <2>1. /\ UNCHANGED <<hasShadow, journal, txn>> /\ pc' = "idle"
        /\ state' \in {"NEW", "DOWN"}
    BY <1>9 DEF Crash, trees, records
  <2> QED
    BY <2>1, TreeFrame
<1>10. CASE Load
  <2>1. CASE journal.state = "COMMITTED"
    BY <1>10, <2>1 DEF Load, Control, TreeKept, ResumableHasShadow
  <2>2. CASE journal.state # "COMMITTED"
    <3>1. /\ UNCHANGED <<hasShadow, journal>> /\ pc' = "idle"
          /\ state' = Reconciled.state /\ txn'.state = Reconciled.state
      BY <1>10, <2>2 DEF Load, Control
    <3>2. \/ Reconciled.state = txn.state
          \/ Reconciled.state = "RECOVERY_REQUIRED"
          \/ Reconciled.state = "INTERRUPTED"
                /\ txn.state \in {"ACTIVE", "CONFLICTED"}
      BY <2>2 DEF Reconciled, RepairableConflict
    <3> QED
      BY <3>1, <3>2, TreeFrame
  <2> QED
    BY <2>1, <2>2
<1>11. CASE UNCHANGED vars
  <2>1. UNCHANGED <<hasShadow, journal, state, txn, pc>>
    BY <1>11 DEF vars, trees, records, process
  <2> QED
    BY <2>1, TreeFrame DEF TreeKept
<1> QED
  BY <1>1, <1>2, <1>3, <1>4, <1>5, <1>6, <1>7, <1>8, <1>9, <1>10, <1>11
  DEF Next

-----------------------------------------------------------------------------
(* Theorems *)

(* Every variable has its type, in every reachable state. *)
THEOREM TypeCorrect == Spec => []TypeOK
<1>1. Init => TypeOK /\ Control
  BY InitType, InitControl
<1>2. TypeOK /\ Control /\ [Next]_vars => (TypeOK /\ Control)'
  BY NextType, NextControl
<1> QED
  BY <1>1, <1>2, PTL DEF Spec

(* The control states of process, record and journal agree as Control says. *)
THEOREM ControlCorrect == Spec => []Control
BY InitType, InitControl, NextType, NextControl, PTL DEF Spec

(* A transaction whose commit began is never edited, staged, validated or  *)
(* committed again, in this process or after any crash.                    *)
THEOREM NeverReopened == Spec => []UncertainNeverReopened
BY ControlCorrect, PTL DEF Control

(* No failure turns a sealed delivery into another outcome. *)
THEOREM NeverDenied == Spec => []DeliveryNeverDenied
BY ControlCorrect, PTL DEF Control

(* Work that a later process may resume, review, repair or recover always  *)
(* has its execution tree, whatever fails and wherever a process dies.     *)
THEOREM WorkKeepsItsTree == Spec => []ResumableHasShadow
<1>1. TreeKept => ResumableHasShadow
  BY DEF TreeKept
<1> QED
  BY <1>1, InitTree, NextTree, TypeCorrect, ControlCorrect, PTL DEF Spec

-----------------------------------------------------------------------------
(* The change set: what is journaled is what was staged and validated,     *)
(* wherever the shadow was not written since.                              *)

AsStaged(changes) ==
    /\ \A c \in Change : c.path \notin late => (c \in changes <=> c \in staged)
    /\ PathsOf(changes) \cap (protected \cup owned \cup Unsafe) \subseteq late

(* The operations of a commit that runs: one for each path, to what the    *)
(* execution tree holds, where nobody wrote it since.                      *)
WellPlanned ==
    /\ \A c, d \in journal.operations : c.path = d.path => c = d
    /\ \A c \in journal.operations : c.path \notin late => c.after = shadow[c.path]

Reviewed ==
    /\ pc = "journal" => AsStaged(Diff)
    /\ pc \in ApplySteps \cup {"record"} => WellPlanned
    /\ journal.state # "NONE" => AsStaged(journal.operations)

LEMMA InitReviewed == Init => Reviewed
BY DEF Init, Reviewed, NoJournal, ApplySteps

(* An empty list of findings means what Reviewed says of the changes. *)
LEMMA FindingsClear ==
    ASSUME Findings = {}
    PROVE  /\ Diff = staged
           /\ Conflicts = {}
           /\ \A c \in Diff : c.path \notin protected \cup owned \cup Unsafe
<1>1. Diff = staged /\ Conflicts = {}
  BY DEF Findings, StagedChanged
<1>2. \A c \in Diff : \A r \in ConflictReasons : ~Conflicting(r, c.path)
  BY <1>1 DEF Conflicts
<1> QED
  BY <1>1, <1>2 DEF ConflictReasons, Conflicting

(* A step that writes no change set, no manifest and no shadow.            *)
LEMMA ReviewedFrame ==
    ASSUME Reviewed,
           UNCHANGED <<shadow, late, execBaseline, owned, protected, staged>>,
           journal'.operations = journal.operations,
           journal'.state # "NONE" => journal.state # "NONE",
           pc' = "journal" => pc = "journal",
           pc' \in ApplySteps \cup {"record"} => pc \in ApplySteps \cup {"record"}
    PROVE  Reviewed'
<1>1. UNCHANGED Diff
  BY DEF Diff
<1>2. AsStaged(Diff) => AsStaged(Diff)'
  BY <1>1 DEF AsStaged
<1>3. AsStaged(journal.operations) => AsStaged(journal.operations)'
  BY DEF AsStaged
<1>4. WellPlanned => WellPlanned'
  BY DEF WellPlanned
<1> QED
  BY <1>2, <1>3, <1>4 DEF Reviewed

(* Behind the check of commit(), a write in the shadow is remembered.      *)
LEMMA EditReviewed ==
    ASSUME TypeOK, Control, Reviewed, NEW p \in Paths, NEW v \in Value,
           EditShadow(p, v)
    PROVE  Reviewed'
<1>1. /\ UNCHANGED <<execBaseline, owned, protected, staged, journal, pc>>
      /\ shadow' = [shadow EXCEPT ![p] = v]
      /\ late \subseteq late' /\ shadow \in Tree
      /\ pc \in CommitSteps \ {"revalidate"} => p \in late'
  BY DEF EditShadow, records, manifests, process, TypeOK
<1>2. AsStaged(journal.operations) => AsStaged(journal.operations)'
  BY <1>1 DEF AsStaged
<1>3. ASSUME pc = "journal", AsStaged(Diff)
      PROVE  AsStaged(Diff)'
  <2>1. p \in late' /\ \A q \in Paths : q # p => shadow'[q] = shadow[q]
    BY <1>1, <1>3 DEF CommitSteps, Tree
  <2>2. \A c \in Change : c.path # p => (c \in Diff' <=> c \in Diff)
    BY <1>1, <2>1 DEF Diff
  <2>3. \A q \in PathsOf(Diff') : q \in PathsOf(Diff) \/ q = p
    <3> SUFFICES ASSUME NEW c \in Diff', c.path # p PROVE c \in Diff
      BY DEF PathsOf
    <3> QED
      BY <1>1, <2>1 DEF Diff
  <2>4. \A c \in Change : c.path \notin late' => (c \in Diff' <=> c \in staged')
    BY <1>1, <1>3, <2>1, <2>2 DEF AsStaged
  <2>5. PathsOf(Diff') \cap (protected' \cup owned' \cup Unsafe) \subseteq late'
    BY <1>1, <1>3, <2>1, <2>3 DEF AsStaged
  <2> QED
    BY <2>4, <2>5 DEF AsStaged, PathsOf
<1>4. ASSUME pc \in ApplySteps \cup {"record"}, WellPlanned
      PROVE  WellPlanned'
  <2>1. p \in late' /\ \A q \in Paths : q # p => shadow'[q] = shadow[q]
    BY <1>1, <1>4 DEF CommitSteps, ApplySteps, Tree
  <2>2. \A c \in journal.operations : c.path \in Paths
    BY DEF TypeOK, Change
  <2> QED
    BY <1>1, <1>4, <2>1, <2>2 DEF WellPlanned
<1> QED
  BY <1>1, <1>2, <1>3, <1>4 DEF Reviewed

LEMMA NextReviewed == TypeOK /\ Control /\ Reviewed /\ [Next]_vars => Reviewed'
<1> SUFFICES ASSUME TypeOK, Control, Reviewed, [Next]_vars PROVE Reviewed'
  OBVIOUS
<1> USE DEF ApplySteps
<1>1. CASE BeginManifest \/ BeginCopy \/ BeginFails
  BY <1>1 DEF BeginManifest, BeginCopy, BeginFails, records, Reviewed, Control
<1>2. ASSUME NEW p \in Paths, NEW v \in Value,
             EditShadow(p, v) \/ EditSource(p, v)
      PROVE  Reviewed'
  <2>1. CASE EditSource(p, v)
    BY <2>1, ReviewedFrame DEF EditSource, records, process, manifests
  <2> QED
    BY <1>2, <2>1, EditReviewed
<1>3. CASE Stage \/ Interrupt \/ ResumeEditing \/ Discard
  <2>1. CASE Stage
    BY <2>1 DEF Stage, Control, UncertainNeverReopened, Editable, Reviewed
  <2>2. CASE Interrupt \/ ResumeEditing \/ Discard
    BY <2>2, ReviewedFrame DEF Interrupt, ResumeEditing, Discard, trees, manifests
  <2> QED
    BY <1>3, <2>1, <2>2
<1>4. ASSUME NEW r \in BlockReasons, BlockValidation(r)
      PROVE  Reviewed'
  BY <1>4, ReviewedFrame DEF BlockValidation, trees, manifests
<1>5. ASSUME NEW s \in {"validate", "revalidate"}, Validate(s)
      PROVE  Reviewed'
  BY <1>5, ReviewedFrame DEF Validate, trees, manifests
<1>6. CASE Step
  <2>1. CASE Decide
    <3>1. /\ pc' = "journal" => Findings = {}
          /\ pc' \in {"journal", "idle"} /\ journal.state = "NONE"
          /\ UNCHANGED <<shadow, execBaseline, staged, journal, owned, protected>>
      BY <2>1 DEF Decide, manifests, Control, UncertainNeverReopened, Editable
    <3>2. UNCHANGED Diff
      BY <3>1 DEF Diff
    <3>3. pc' = "journal" => AsStaged(Diff)'
      BY <3>1, <3>2, FindingsClear DEF AsStaged, PathsOf
    <3> QED
      BY <3>1, <3>3 DEF Reviewed
  <2>2. CASE CommitJournal
    <3>1. /\ pc = "journal" /\ AsStaged(Diff) /\ pc' \in {"record", "idle"}
          /\ UNCHANGED <<shadow, late, owned, protected, staged>>
          /\ journal'.operations = Diff \/ (journal' = journal /\ pc' = "idle")
          /\ journal.state = "NONE"
      BY <2>2 DEF CommitJournal, trees, manifests, Reviewed, Control,
                  UncertainNeverReopened, Editable
    <3>2. CASE journal'.operations = Diff
      <4>1. AsStaged(journal.operations)'
        BY <3>1, <3>2 DEF AsStaged
      <4>2. WellPlanned'
        BY <3>1, <3>2 DEF WellPlanned, Diff
      <4> QED
        BY <3>1, <4>1, <4>2 DEF Reviewed
    <3>3. CASE journal' = journal /\ pc' = "idle"
      BY <3>1, <3>3 DEF Reviewed
    <3> QED
      BY <3>1, <3>2, <3>3
  <2>3. CASE CommitRecord \/ ApplyFails \/ SealJournal \/ SealRecord \/ FailJournal
               \/ RollbackDone
    BY <2>3, ReviewedFrame DEF CommitRecord, ApplyFails, SealJournal, SealRecord,
       FailJournal, RollbackDone, trees, manifests, records, TypeOK, Control
  <2>4. ASSUME NEW c \in journal.operations,
               Backup(c) \/ Replace(c) \/ Complete(c) \/ Undo(c) \/ UndoFails(c)
        PROVE  Reviewed'
    BY <2>4, ReviewedFrame DEF Backup, Replace, Complete, Undo, UndoFails, trees,
       manifests, records, TypeOK
  <2>5. CASE Cleanup \/ DiscardRemove
    <3>1. /\ UNCHANGED <<late, owned, protected, staged, journal>> /\ pc' = "idle"
      BY <2>5 DEF Cleanup, DiscardRemove, manifests, records
    <3> QED
      BY <3>1 DEF Reviewed, AsStaged
  <2> QED
    BY <1>1, <1>6, <2>1, <2>2, <2>3, <2>4, <2>5 DEF Step
<1>7. CASE Crash
  BY <1>7, ReviewedFrame DEF Crash, records, trees, manifests
<1>8. CASE Load
  <2>1. UNCHANGED <<late, owned, protected, staged, journal>> /\ pc' = "idle"
    BY <1>8 DEF Load, manifests, Control
  <2> QED
    BY <2>1 DEF Reviewed, AsStaged
<1>9. CASE UNCHANGED vars
  BY <1>9, ReviewedFrame DEF vars, records, process, trees, manifests
<1> QED
  BY <1>1, <1>2, <1>3, <1>4, <1>5, <1>6, <1>7, <1>8, <1>9 DEF Next

(* Every commit, in every behaviour, applies the change set that was       *)
(* staged, and nothing of it is protected, user owned or unsafe; but for   *)
(* the paths somebody wrote in the shadow behind the check of commit().    *)
THEOREM DeliversReviewed == Spec => []ReviewedIsDelivered
<1>1. Init => TypeOK /\ Control /\ Reviewed
  BY InitType, InitControl, InitReviewed
<1>2. TypeOK /\ Control /\ Reviewed /\ [Next]_vars
        => (TypeOK /\ Control /\ Reviewed)'
  BY NextType, NextControl, NextReviewed
<1>3. Reviewed => ReviewedIsDelivered
  BY DEF Reviewed, AsStaged, ReviewedIsDelivered
<1> QED
  BY <1>1, <1>2, <1>3, PTL DEF Spec

-----------------------------------------------------------------------------
(* Nothing is written before a journal lists it. *)

(* A step that leaves the source, the operations and their journal alone.  *)
LEMMA BeforeFrame ==
    ASSUME JournalBeforeSource, UNCHANGED <<source, user>>,
           journal'.operations = journal.operations,
           journal'.state # "NONE" \/ journal' = journal
    PROVE  JournalBeforeSource'
BY DEF JournalBeforeSource, PathsOf

LEMMA NextBefore ==
    ASSUME PlainNames, TypeOK, Control, JournalBeforeSource, [Next]_vars
    PROVE  JournalBeforeSource'
<1> USE DEF ApplySteps
<1>1. ASSUME NEW p \in Paths, NEW v \in Value,
             EditShadow(p, v) \/ EditSource(p, v)
      PROVE  JournalBeforeSource'
  <2>1. CASE EditShadow(p, v)
    BY <2>1, BeforeFrame DEF EditShadow, records
  <2>2. CASE EditSource(p, v)
    BY <2>2 DEF EditSource, records, TypeOK, Tree, JournalBeforeSource
  <2> QED
    BY <1>1, <2>1, <2>2
<1>2. CASE BeginManifest \/ BeginCopy \/ BeginFails \/ Stage \/ Interrupt
             \/ ResumeEditing \/ Discard \/ Crash \/ Load
  BY <1>2, BeforeFrame DEF BeginManifest, BeginCopy, BeginFails, Stage, Interrupt,
     ResumeEditing, Discard, Crash, Load, trees, records
<1>3. ASSUME NEW r \in BlockReasons, BlockValidation(r)
      PROVE  JournalBeforeSource'
  BY <1>3, BeforeFrame DEF BlockValidation, trees
<1>4. ASSUME NEW s \in {"validate", "revalidate"}, Validate(s)
      PROVE  JournalBeforeSource'
  BY <1>4, BeforeFrame DEF Validate, trees
<1>5. CASE Step
  <2>1. CASE Decide \/ CommitRecord \/ ApplyFails \/ SealRecord
               \/ Cleanup \/ RollbackDone \/ DiscardRemove
    BY <2>1, BeforeFrame DEF Decide, CommitRecord, ApplyFails, SealRecord,
       Cleanup, RollbackDone, DiscardRemove, trees, records
  <2>2. CASE CommitJournal
    <3>1. journal.state = "NONE" /\ UNCHANGED <<source, user>>
      BY <2>2 DEF CommitJournal, trees, Control, UncertainNeverReopened, Editable
    <3> QED
      BY <3>1 DEF JournalBeforeSource
  <2>3. CASE SealJournal \/ FailJournal
    BY <2>3, BeforeFrame DEF SealJournal, FailJournal, trees, TypeOK
  <2>4. ASSUME NEW c \in journal.operations, Backup(c) \/ Complete(c)
        PROVE  JournalBeforeSource'
    BY <2>4, BeforeFrame DEF Backup, Complete, trees, records, TypeOK, Control
  <2>5. ASSUME NEW c \in journal.operations,
               Replace(c) \/ Undo(c) \/ UndoFails(c)
        PROVE  JournalBeforeSource'
    <3>1. UNCHANGED <<user, journal>> /\ c.path \in Paths /\ journal.state # "NONE"
      BY <2>5 DEF Replace, Undo, UndoFails, records, TypeOK, Change, Control
    <3>2. \A p \in Paths : p # c.path => source'[p] = source[p]
      BY <2>5, <3>1 DEF Replace, Undo, UndoFails, TypeOK, Tree, PlainNames
    <3>3. c.path \in PathsOf(journal'.operations)
      BY <3>1 DEF PathsOf
    <3> QED
      BY <3>1, <3>2, <3>3 DEF JournalBeforeSource
  <2> QED
    BY <1>2, <1>5, <2>1, <2>2, <2>3, <2>4, <2>5 DEF Step
<1>6. CASE UNCHANGED vars
  BY <1>6, BeforeFrame DEF vars, trees, records
<1> QED
  BY <1>1, <1>2, <1>3, <1>4, <1>5, <1>6 DEF Next

(* Whatever the source holds that the user did not put there, a journal on *)
(* disk lists that very path; the user may edit the source at any time.    *)
THEOREM JournalsFirst ==
    ASSUME PlainNames
    PROVE  Spec => []JournalBeforeSource
<1>1. Init => JournalBeforeSource
  BY DEF Init, JournalBeforeSource
<1> QED
  BY <1>1, NextBefore, ControlCorrect, TypeCorrect, PTL DEF Spec

-----------------------------------------------------------------------------
(* The source tree: what commit() changed in it, and what it can put back. *)

CommitBody == ApplySteps \cup {"record"}

(* The user's version of the path is not lost. *)
Saved(p) == user[p] = None \/ user[p] \in Links \/ recovery[p] = user[p]

(* The operation's effect is in the source. *)
Applied(c) == c.path \in completed \/ (pc = "complete" /\ NextOperation(c))

(* The manifest's before, and the recovery copy, suffice to put it back. *)
Restorable(c) ==
    c.path \in Seen =>
        IF c.before = None \/ c.before \in Links
        THEN user[c.path] = c.before
        ELSE user[c.path] \in Contents \ Links

(* While operations are applied, the source differs from the user's tree   *)
(* where an operation was applied, and shows its effect there.             *)
Applying ==
    /\ \A p \in Paths : source[p] # user[p] =>
          \E c \in journal.operations : c.path = p /\ Applied(c)
    /\ \A c \in journal.operations :
          Applied(c) => c.path \in late \/ source[c.path] = c.after
    /\ pc \in {"replace", "complete"} =>
          \A c \in journal.operations : NextOperation(c) => Saved(c.path)

(* Until the rollback ends, what it needs is there. *)
Reversible ==
    /\ \A p \in Paths : recovery[p] # None => recovery[p] = user[p]
    /\ \A p \in completed : Saved(p)
    /\ \A c \in journal.operations : Restorable(c)

(* What the rollback has still to put back is in completed. *)
Undoing ==
    \A p \in Seen : source[p] # user[p] =>
        \E c \in journal.operations : c.path = p /\ p \in completed

CommitInv ==
    /\ journal.state = "NONE" => source = user /\ recovery = EmptyTree
    /\ pc = "journal" =>
          \A p \in PathsOf(staged) : SourceView(source)[p] = baseline[p]
    /\ pc = "record" => completed = {}
    /\ pc \in CommitBody => Applying
    /\ pc \in CommitBody \cup {"rollback"} => Reversible
    /\ pc = "rollback" /\ state = "COMMIT_FAILED" => Undoing
    /\ FailedCommitRestores
    /\ OriginalsKept

(* Two operations cannot both be the next one at different paths. *)
LEMMA NextUnique ==
    ASSUME TypeOK, NEW c \in journal.operations, NEW d \in journal.operations,
           NextOperation(c), NextOperation(d)
    PROVE  c.path = d.path
<1>1. c \in Change /\ d \in Change
  BY DEF TypeOK
<1>2. c.path \in Paths /\ d.path \in Paths
  BY <1>1 DEF Change
<1>3. \A p \in Paths : p \in Int
  BY PathsAssumption
<1>4. \A p, q \in Paths : p <= q /\ q <= p => p = q
  BY <1>3
<1>5. c.path <= d.path /\ d.path <= c.path
  BY DEF NextOperation
<1> QED
  BY <1>2, <1>4, <1>5, Zenon

LEMMA InitCommit == Init => CommitInv
<1> SUFFICES ASSUME Init PROVE CommitInv
  OBVIOUS
<1> QED
  BY DEF Init, CommitInv, CommitBody, ApplySteps, NoJournal, NoRecord, Record,
         FailedCommitRestores, OriginalsKept

(* The changes a clear validation lets through can be put back. *)
LEMMA ClearRestorable ==
    ASSUME TypeOK, source = user, NEW c \in Diff,
           c.path \notin Ignored,
           SourceView(source)[c.path] = baseline[c.path],
           execBaseline[c.path] = Scrub(baseline)[c.path]
    PROVE  IF c.before = None \/ c.before \in Links
           THEN user[c.path] = c.before
           ELSE user[c.path] \in Contents \ Links
<1>1. c.path \in Paths /\ c.before = execBaseline[c.path]
  BY DEF Diff
<1>2. user[c.path] = baseline[c.path]
  BY <1>1 DEF SourceView
<1>3. c.before = IF user[c.path] \in Secrets THEN Redacted ELSE user[c.path]
  BY <1>1, <1>2 DEF Scrub
<1>4. user[c.path] \in Contents \cup {None}
  BY <1>1 DEF TypeOK, Tree, Value
<1> QED
  BY <1>3, <1>4, ContentAssumption

(* An action that leaves the trees, the journal and completed alone, and   *)
(* neither enters an operation of commit() nor ends one as failed.         *)
LEMMA CommitFrame ==
    ASSUME CommitInv,
           UNCHANGED <<source, user, recovery, journal, baseline, execBaseline>>,
           UNCHANGED staged \/ source = user,
           pc' \notin CommitBody \cup {"journal", "rollback"},
           txn'.state = "COMMIT_FAILED" =>
               txn.state = "COMMIT_FAILED"
                   \/ (state = "COMMIT_FAILED" /\ pc = "idle"),
           state' = "COMMIT_FAILED" /\ pc' = "idle" =>
               txn.state = "COMMIT_FAILED"
                   \/ (state = "COMMIT_FAILED" /\ pc = "idle")
    PROVE  CommitInv'
<1>1. FailedCommitRestores'
  BY DEF CommitInv, FailedCommitRestores, Seen, Unchecked, PathsOf
<1>2. OriginalsKept'
  BY DEF CommitInv, OriginalsKept
<1> QED
  BY <1>1, <1>2 DEF CommitInv, CommitBody

(* The actions outside commit(). *)
LEMMA OutsideCommit ==
    ASSUME TypeOK, Control, CommitInv, Quiet,
           \/ BeginManifest \/ BeginCopy \/ BeginFails
           \/ Stage \/ Interrupt \/ ResumeEditing \/ Discard
           \/ \E p \in Paths, v \in Value : EditShadow(p, v) \/ EditSource(p, v)
           \/ \E r \in BlockReasons : BlockValidation(r)
           \/ \E s \in {"validate", "revalidate"} : Validate(s)
           \/ DiscardRemove \/ Crash \/ Load \/ Cleanup \/ UNCHANGED vars
    PROVE  CommitInv'
<1> USE DEF CommitBody, ApplySteps, Record, Persist
<1>1. CASE BeginManifest \/ BeginCopy \/ BeginFails
  <2>1. journal.state = "NONE" /\ txn.state # "COMMIT_FAILED"
    BY <1>1 DEF BeginManifest, BeginCopy, BeginFails, Control
  <2>2. source = user /\ recovery = EmptyTree
    BY <2>1 DEF CommitInv
  <2>3. UNCHANGED <<source, user, recovery, journal>> /\ pc' \in {"idle", "copy"}
        /\ txn'.state # "COMMIT_FAILED" /\ state' # "COMMIT_FAILED"
    BY <1>1, <2>1 DEF BeginManifest, BeginCopy, BeginFails, trees, records, Control
  <2>4. FailedCommitRestores' /\ OriginalsKept'
    BY <2>2, <2>3 DEF FailedCommitRestores, OriginalsKept
  <2> QED
    BY <2>2, <2>3, <2>4 DEF CommitInv
<1>2. CASE Stage \/ Interrupt \/ ResumeEditing \/ Discard
  <2>1. /\ UNCHANGED <<source, user, recovery, journal, baseline, execBaseline>>
        /\ UNCHANGED staged \/ source = user
    BY <1>2 DEF Stage, Interrupt, ResumeEditing, Discard, trees, manifests, CommitInv,
                Control, UncertainNeverReopened, Editable
  <2>2. pc' \in {"idle", "remove"} /\ state' # "COMMIT_FAILED"
        /\ (txn'.state = "COMMIT_FAILED" => txn.state = "COMMIT_FAILED")
    BY <1>2 DEF Stage, Interrupt, ResumeEditing, Discard
  <2> QED
    BY <2>1, <2>2, CommitFrame
<1>3. ASSUME NEW r \in BlockReasons, BlockValidation(r)
      PROVE  CommitInv'
  <2>1. UNCHANGED <<source, user, recovery, journal, baseline, execBaseline, staged>>
    BY <1>3 DEF BlockValidation, trees, manifests
  <2>2. pc' = "idle" /\ state' # "COMMIT_FAILED"
        /\ (txn'.state = "COMMIT_FAILED" => txn.state = "COMMIT_FAILED")
    BY <1>3 DEF BlockValidation
  <2> QED
    BY <2>1, <2>2, CommitFrame
<1>4. ASSUME NEW s \in {"validate", "revalidate"}, Validate(s)
      PROVE  CommitInv'
  <2>1. UNCHANGED <<source, user, recovery, journal, baseline, execBaseline, staged>>
    BY <1>4 DEF Validate, trees, manifests
  <2>2. pc' \in {"idle", "validate", "revalidate"} /\ state' # "COMMIT_FAILED"
        /\ (txn'.state = "COMMIT_FAILED" => txn.state = "COMMIT_FAILED")
    BY <1>4 DEF Validate
  <2> QED
    BY <2>1, <2>2, CommitFrame
<1>5. ASSUME NEW p \in Paths, NEW v \in Value, EditShadow(p, v)
      PROVE  CommitInv'
  <2>1. /\ UNCHANGED <<source, user, recovery, journal, baseline, execBaseline, staged,
                       state, txn, pc, completed>>
        /\ late \subseteq late'
    BY <1>5 DEF EditShadow, process, records, manifests
  <2>2. Applying => Applying'
    BY <2>1 DEF Applying, Applied, Saved, NextOperation, Pending
  <2>3. (Reversible => Reversible') /\ (Undoing => Undoing')
    BY <2>1 DEF Reversible, Undoing, Saved, Restorable, Seen, Unchecked
  <2>4. pc = "journal" =>
           \A q \in PathsOf(staged') : SourceView(source')[q] = baseline'[q]
    BY <2>1 DEF CommitInv
  <2>5. FailedCommitRestores' /\ OriginalsKept'
    BY <2>1 DEF CommitInv, FailedCommitRestores, OriginalsKept, Seen, Unchecked
  <2> QED
    BY <2>1, <2>2, <2>3, <2>4, <2>5 DEF CommitInv
<1>6. ASSUME NEW p \in Paths, NEW v \in Value, EditSource(p, v)
      PROVE  CommitInv'
  <2>1. pc \notin CommitSteps
    BY <1>6 DEF EditSource
  <2>2. /\ source' = [source EXCEPT ![p] = v] /\ user' = [user EXCEPT ![p] = v]
        /\ UNCHANGED <<recovery, journal, baseline, execBaseline, staged, pc, state, txn>>
    BY <1>6 DEF EditSource, records, manifests, process
  <2>3. FailedCommitRestores'
    BY <2>2 DEF CommitInv, FailedCommitRestores, Seen, Unchecked, PathsOf, TypeOK, Tree
  <2>4. OriginalsKept'
    BY <2>2 DEF CommitInv, OriginalsKept, TypeOK, Tree
  <2> QED
    BY <2>1, <2>2, <2>3, <2>4 DEF CommitInv, CommitSteps
<1>7. CASE DiscardRemove \/ Crash
  <2>1. UNCHANGED <<source, user, recovery, journal, baseline, execBaseline, staged, txn>>
    BY <1>7 DEF DiscardRemove, Crash, trees, records, manifests
  <2>2. pc' = "idle" /\ state' # "COMMIT_FAILED"
    BY <1>7 DEF DiscardRemove, Crash, Control
  <2> QED
    BY <2>1, <2>2, CommitFrame
<1>8. CASE Load
  <2>1. UNCHANGED <<source, user, journal, baseline, execBaseline, staged>> /\ pc' = "idle"
        /\ state' = Reconciled.state /\ txn' = Reconciled
        /\ (journal.state # "COMMITTED" => UNCHANGED recovery)
    BY <1>8 DEF Load, manifests, Control
  <2>2. Reconciled.state = "COMMIT_FAILED" => txn.state = "COMMIT_FAILED"
    BY DEF Reconciled
  <2>3. FailedCommitRestores'
    BY <2>1, <2>2 DEF CommitInv, FailedCommitRestores, Seen, Unchecked, PathsOf
  <2>4. OriginalsKept'
    BY <2>1 DEF CommitInv, OriginalsKept
  <2> QED
    BY <2>1, <2>3, <2>4 DEF CommitInv
<1>9. CASE Cleanup
  <2>1. UNCHANGED <<source, user, journal, baseline, execBaseline, staged, state, txn>>
        /\ pc' = "idle" /\ journal.state = "COMMITTED" /\ state # "COMMIT_FAILED"
    BY <1>9 DEF Cleanup, manifests, records, Control
  <2>2. FailedCommitRestores' /\ OriginalsKept'
    BY <2>1 DEF CommitInv, FailedCommitRestores, OriginalsKept, Seen, Unchecked, PathsOf
  <2> QED
    BY <2>1, <2>2 DEF CommitInv
<1>10. CASE UNCHANGED vars
  <2>1. UNCHANGED <<source, user, late, recovery, journal, baseline, execBaseline,
                    staged, pc, state, txn, completed>>
    BY <1>10 DEF vars, trees, records, manifests, process
  <2>2. UNCHANGED <<Applying, Reversible, Undoing>>
    BY <2>1 DEF Applying, Reversible, Undoing, Applied, Saved, Restorable,
                Seen, Unchecked, NextOperation, Pending
  <2>3. FailedCommitRestores' /\ OriginalsKept'
    BY <2>1 DEF CommitInv, FailedCommitRestores, OriginalsKept, Seen, Unchecked
  <2>4. pc = "journal" =>
           \A q \in PathsOf(staged') : SourceView(source')[q] = baseline'[q]
    BY <2>1 DEF CommitInv
  <2> QED
    BY <2>1, <2>2, <2>3, <2>4 DEF CommitInv
<1> QED
  BY <1>1, <1>2, <1>3, <1>4, <1>5, <1>6, <1>7, <1>8, <1>9, <1>10

(* The actions of commit(), up to its journal. *)
LEMMA StartCommit ==
    ASSUME TypeOK, Control, Reviewed, CommitInv,
           Decide \/ CommitJournal \/ CommitRecord
    PROVE  CommitInv'
<1> USE DEF CommitBody, ApplySteps, Record
<1>1. CASE Decide
  <2>1. /\ pc' \in {"idle", "journal"}
        /\ pc' = "journal" => Findings = {}
        /\ UNCHANGED <<source, user, recovery, baseline, execBaseline, staged, journal>>
        /\ state' # "COMMIT_FAILED"
        /\ txn'.state = "COMMIT_FAILED" => txn.state = "COMMIT_FAILED"
    BY <1>1 DEF Decide, manifests
  <2>2. Findings = {} =>
           \A p \in PathsOf(staged) : SourceView(source)[p] = baseline[p]
    <3> SUFFICES ASSUME Findings = {}, NEW c \in Diff
                 PROVE  SourceView(source)[c.path] = baseline[c.path]
      BY FindingsClear DEF PathsOf
    <3>1. ~Conflicting("source_changed", c.path)
      BY FindingsClear DEF Conflicts, ConflictReasons
    <3> QED
      BY <3>1 DEF Conflicting
  <2>3. FailedCommitRestores' /\ OriginalsKept'
    BY <2>1 DEF CommitInv, FailedCommitRestores, OriginalsKept, Seen, Unchecked
  <2> QED
    BY <2>1, <2>2, <2>3 DEF CommitInv
<1>2. CASE CommitJournal
  <2>1. /\ pc = "journal" /\ journal.state = "NONE"
        /\ source = user /\ recovery = EmptyTree
        /\ \A p \in PathsOf(staged) : SourceView(source)[p] = baseline[p]
    BY <1>2 DEF CommitJournal, Control, UncertainNeverReopened, Editable,
                CommitInv
  <2>2. /\ UNCHANGED <<source, user, late, recovery, baseline, execBaseline, staged, txn>>
        /\ state' # "COMMIT_FAILED"
        /\ \/ /\ pc' = "record" /\ completed' = {}
              /\ journal'.operations = Diff /\ journal'.state = "COMMITTING"
           \/ pc' = "idle" /\ UNCHANGED journal
    BY <1>2 DEF CommitJournal, trees, manifests
  <2>3. FailedCommitRestores' /\ OriginalsKept'
    BY <2>1, <2>2 DEF FailedCommitRestores, OriginalsKept
  <2>4. CASE pc' = "record"
    <3>1. journal'.operations = Diff
      BY <2>2, <2>4
    <3>2. ASSUME NEW c \in Diff, c.path \in Seen'
          PROVE  IF c.before = None \/ c.before \in Links
                 THEN user[c.path] = c.before
                 ELSE user[c.path] \in Contents \ Links
      <4>1. /\ c.path \notin Ignored /\ c.path \in PathsOf(staged)
            /\ execBaseline[c.path] = Scrub(baseline)[c.path]
        BY <2>2, <3>1, <3>2 DEF Seen, Unchecked, PathsOf, Scrub
      <4> QED
        BY <2>1, <4>1, ClearRestorable
    <3>3. \A c \in journal'.operations : Restorable(c)'
      BY <2>2, <3>1, <3>2 DEF Restorable
    <3>4. Reversible'
      BY <2>1, <2>2, <2>4, <3>3 DEF Reversible, EmptyTree
    <3>5. Applying'
      BY <2>1, <2>2, <2>4 DEF Applying, Applied
    <3> QED
      BY <2>2, <2>3, <2>4, <3>4, <3>5 DEF CommitInv
  <2>5. CASE pc' = "idle"
    BY <2>1, <2>2, <2>3, <2>5 DEF CommitInv
  <2> QED
    BY <2>2, <2>4, <2>5
<1>3. CASE CommitRecord
  <2>1. /\ pc = "record" /\ pc' \in {"backup", "idle"}
        /\ UNCHANGED <<source, user, late, recovery, baseline, execBaseline, staged,
                       state, journal, completed>>
        /\ state # "COMMIT_FAILED"
        /\ txn'.state = "COMMIT_FAILED" => txn.state = "COMMIT_FAILED"
    BY <1>3 DEF CommitRecord, trees, manifests, Control
  <2>2. Applying /\ Reversible
    BY <2>1 DEF CommitInv
  <2>3. Applying'
    BY <2>1, <2>2 DEF Applying, Applied
  <2>4. Reversible'
    BY <2>1, <2>2 DEF Reversible, Restorable, Saved, Seen, Unchecked, PathsOf
  <2>5. FailedCommitRestores' /\ OriginalsKept'
    BY <2>1 DEF CommitInv, FailedCommitRestores, OriginalsKept, Seen, Unchecked, PathsOf
  <2>6. journal.state # "NONE"
    BY <2>1 DEF Control
  <2> QED
    BY <2>1, <2>3, <2>4, <2>5, <2>6 DEF CommitInv
<1> QED
  BY <1>1, <1>2, <1>3

(* The apply loop. *)
LEMMA ApplyCommit ==
    ASSUME TypeOK, Control, Reviewed, CommitInv,
           PlainNames, NEW c \in journal.operations,
           Backup(c) \/ Replace(c) \/ Complete(c)
    PROVE  CommitInv'
<1> USE DEF CommitBody, ApplySteps
<1>0. /\ pc \in {"backup", "replace", "complete"}
      /\ NextOperation(c) /\ c.path \notin completed
  BY DEF Backup, Replace, Complete, NextOperation, Pending
<1>1. /\ Applying /\ Reversible /\ OriginalsKept
      /\ state = "COMMITTING" /\ txn.state = "COMMITTING"
      /\ journal.state = "COMMITTING"
      /\ \A d \in journal.operations : d.path = c.path => d = c
  BY <1>0 DEF CommitInv, Control, Reviewed, WellPlanned
<1>2. /\ c.path \in Paths /\ Normalized[c.path] = c.path
      /\ c.path \in late \/ c.after = shadow[c.path]
  BY <1>0 DEF TypeOK, Change, PlainNames, Reviewed, WellPlanned
<1>3. CASE Backup(c)
  <2>1. /\ pc = "backup" /\ pc' = "replace"
        /\ UNCHANGED <<source, user, late, baseline, execBaseline, staged, state,
                       txn, journal, completed>>
        /\ recovery' = IF source[c.path] \in Contents \ Links
                       THEN [recovery EXCEPT ![c.path] = source[c.path]]
                       ELSE recovery
    BY <1>2, <1>3 DEF Backup, manifests, records
  <2>2. ~Applied(c) /\ source[c.path] = user[c.path]
    BY <1>0, <1>1, <1>2, <2>1 DEF Applying, Applied
  <2>3. \A p \in Paths : recovery'[p] # None => recovery'[p] = user[p]
    BY <1>1, <1>2, <2>1, <2>2 DEF Reversible, TypeOK, Tree
  <2>4. \A p \in Paths : recovery'[p] = recovery[p] \/ recovery'[p] = user[p]
    BY <1>2, <2>1, <2>2 DEF TypeOK, Tree
  <2>5. Saved(c.path)'
    BY <1>2, <2>1, <2>2 DEF Saved, TypeOK, Tree, Value
  <2>6. Reversible'
    BY <1>1, <2>1, <2>3, <2>4
    DEF Reversible, Restorable, Saved, Seen, Unchecked, PathsOf, TypeOK
  <2>7. \A d \in journal.operations : NextOperation(d) => d.path = c.path
    BY <1>0, NextUnique
  <2>8. Applying'
    BY <1>1, <2>1, <2>5, <2>7
    DEF Applying, Applied, NextOperation, Pending
  <2>9. OriginalsKept'
    BY <1>1, <2>1, <2>4 DEF OriginalsKept
  <2> QED
    BY <1>1, <2>1, <2>6, <2>8, <2>9 DEF CommitInv, FailedCommitRestores
<1>4. CASE Replace(c)
  <2>1. /\ pc = "replace" /\ pc' = "complete"
        /\ UNCHANGED <<recovery, user, late, baseline, execBaseline, staged, state,
                       txn, journal, completed>>
        /\ \A p \in Paths : p # c.path => source'[p] = source[p]
        /\ c.path \in late \/ source'[c.path] = c.after
    BY <1>2, <1>4 DEF Replace, manifests, records, TypeOK, Tree
  <2>2. Saved(c.path) /\ Saved(c.path)'
    BY <1>0, <1>1, <2>1 DEF Applying, Saved
  <2>3. \A d \in journal.operations : NextOperation(d) => d.path = c.path
    BY <1>0, NextUnique
  <2>4. \A d \in journal.operations : Applied(d)' =>
            d.path = c.path \/ (Applied(d) /\ d.path # c.path)
    BY <1>0, <2>1, <2>3 DEF Applied, NextOperation, Pending
  <2>5. \A d \in journal.operations : d.path \in Paths
    BY DEF TypeOK, Change
  <2>6. \A d \in journal.operations :
            Applied(d)' => d.path \in late \/ source'[d.path] = d.after
    BY <1>1, <2>1, <2>4, <2>5 DEF Applying
  <2>7. \A p \in Paths : source'[p] # user'[p] =>
            \E d \in journal'.operations : d.path = p /\ Applied(d)'
    <3>1. Applied(c)'
      BY <1>0, <2>1 DEF Applied, NextOperation, Pending
    <3>2. \A d \in journal.operations : Applied(d) => Applied(d)'
      BY <2>1 DEF Applied
    <3> QED
      BY <1>1, <2>1, <3>1, <3>2 DEF Applying
  <2>8. \A d \in journal'.operations : NextOperation(d)' => Saved(d.path)'
    BY <2>1, <2>2, <2>3 DEF NextOperation, Pending
  <2>9. Applying'
    BY <2>1, <2>6, <2>7, <2>8 DEF Applying
  <2>10. Reversible'
    BY <1>1, <2>1 DEF Reversible, Restorable, Saved, Seen, Unchecked, PathsOf
  <2>11. OriginalsKept'
    BY <1>1, <1>2, <2>1, <2>2 DEF OriginalsKept, Saved
  <2> QED
    BY <1>1, <2>1, <2>9, <2>10, <2>11 DEF CommitInv, FailedCommitRestores
<1>5. CASE Complete(c)
  <2>1. /\ pc = "complete" /\ pc' \in {"backup", "failed"}
        /\ UNCHANGED <<source, recovery, user, late, baseline, execBaseline, staged,
                       state, txn>>
        /\ completed' = completed \cup {c.path}
        /\ journal'.operations = journal.operations
        /\ journal'.state = journal.state
    BY <1>5 DEF Complete, trees, manifests, TypeOK
  <2>2. Saved(c.path)
    BY <1>0, <1>1, <2>1 DEF Applying
  <2>3. \A d \in journal.operations : NextOperation(d) => d.path = c.path
    BY <1>0, NextUnique
  <2>4. \A d \in journal.operations : Applied(d)' <=> d.path \in completed'
    BY <2>1 DEF Applied
  <2>5. \A d \in journal.operations :
            d.path \in completed' => Applied(d) \/ d.path = c.path
    BY <2>1 DEF Applied
  <2>6. Applied(c) /\ (c.path \in late \/ source[c.path] = c.after)
    BY <1>0, <1>1, <2>1 DEF Applying, Applied
  <2>7. \A d \in journal.operations : d.path = c.path => d.after = c.after
    BY <1>1
  <2>8. \A d \in journal.operations : Applied(d) => d.path \in completed'
    BY <2>1, <2>3 DEF Applied
  <2>9. Applying'
    BY <1>1, <2>1, <2>4, <2>5, <2>6, <2>7, <2>8 DEF Applying
  <2>10. Reversible'
    BY <1>1, <2>1, <2>2 DEF Reversible, Restorable, Saved, Seen, Unchecked, PathsOf
  <2>11. OriginalsKept'
    BY <1>1, <2>1 DEF OriginalsKept
  <2> QED
    BY <1>1, <2>1, <2>9, <2>10, <2>11 DEF CommitInv, FailedCommitRestores
<1> QED
  BY <1>3, <1>4, <1>5

(* The ends of the loop: sealed, failed, or stopped by a failed write. *)
LEMMA EndCommit ==
    ASSUME TypeOK, Control, Reviewed, CommitInv,
           ApplyFails \/ SealJournal \/ SealRecord \/ FailJournal \/ RollbackDone
    PROVE  CommitInv'
<1> USE DEF CommitBody, ApplySteps, Record
<1>1. CASE ApplyFails
  <2>1. /\ pc \in {"backup", "replace"} /\ pc' = "failed"
        /\ UNCHANGED <<source, recovery, user, late, baseline, execBaseline, staged, state,
                       txn, journal, completed>>
        /\ journal.state = "COMMITTING" /\ state = "COMMITTING"
        /\ txn.state = "COMMITTING"
    BY <1>1 DEF ApplyFails, trees, manifests, records, Control
  <2>2. Applying' /\ Reversible'
    BY <2>1 DEF CommitInv, Applying, Applied, Reversible, Restorable, Saved,
                   Seen, Unchecked, PathsOf
  <2>3. OriginalsKept'
    BY <2>1 DEF CommitInv, OriginalsKept
  <2> QED
    BY <2>1, <2>2, <2>3 DEF CommitInv, FailedCommitRestores
<1>2. CASE SealJournal \/ SealRecord
  <2>1. /\ pc' \in {"seal", "cleanup", "idle"}
        /\ UNCHANGED <<source, recovery, user, baseline, execBaseline, staged>>
        /\ journal'.state = "COMMITTED" \/ journal' = journal
        /\ journal.state # "NONE"
        /\ state' # "COMMIT_FAILED" /\ txn'.state # "COMMIT_FAILED"
    BY <1>2 DEF SealJournal, SealRecord, trees, manifests, Control, TypeOK
  <2>2. OriginalsKept'
    BY <2>1 DEF CommitInv, OriginalsKept
  <2> QED
    BY <2>1, <2>2 DEF CommitInv, FailedCommitRestores
<1>3. CASE FailJournal
  <2>1. /\ pc = "failed" /\ journal.state = "COMMITTING"
        /\ UNCHANGED <<source, recovery, user, baseline, execBaseline, staged, txn,
                       completed>>
        /\ txn.state = "COMMITTING"
        /\ \/ /\ pc' = "rollback" /\ journal'.state = "COMMIT_FAILED"
              /\ journal'.operations = journal.operations
           \/ pc' = "idle" /\ journal' = journal /\ state' = "COMMITTING"
    BY <1>3 DEF FailJournal, trees, manifests, Control
  <2>2. Applying /\ Reversible
    BY <2>1 DEF CommitInv
  <2>3. OriginalsKept'
    BY <2>1 DEF CommitInv, OriginalsKept
  <2>4. CASE pc' = "rollback"
    <3>1. Reversible'
      BY <2>1, <2>2, <2>4 DEF Reversible, Restorable, Saved, Seen, Unchecked, PathsOf
    <3>2. Undoing'
      BY <2>1, <2>2, <2>4 DEF Applying, Applied, Undoing, Seen, Unchecked, PathsOf
    <3> QED
      BY <2>1, <2>3, <2>4, <3>1, <3>2 DEF CommitInv, FailedCommitRestores
  <2>5. CASE pc' = "idle"
    BY <2>1, <2>3, <2>5 DEF CommitInv, FailedCommitRestores
  <2> QED
    BY <2>1, <2>4, <2>5
<1>4. CASE RollbackDone
  <2>1. /\ pc = "rollback" /\ Undoable = {} /\ pc' = "idle"
        /\ UNCHANGED <<source, recovery, user, baseline, execBaseline, staged, journal,
                       state>>
        /\ txn.state = "COMMITTING" /\ journal.state = "COMMIT_FAILED"
        /\ txn'.state \in {state, "COMMITTING"}
    BY <1>4 DEF RollbackDone, Persist, trees, manifests, Control
  <2>2. state = "COMMIT_FAILED" => \A p \in Seen : source[p] = user[p]
    BY <2>1 DEF CommitInv, Undoing, Undoable
  <2>3. FailedCommitRestores'
    BY <2>1, <2>2 DEF FailedCommitRestores, Seen, Unchecked, PathsOf
  <2>4. OriginalsKept'
    BY <2>1 DEF CommitInv, OriginalsKept
  <2> QED
    BY <2>1, <2>3, <2>4 DEF CommitInv
<1> QED
  BY <1>1, <1>2, <1>3, <1>4

(* The undo of one change. *)
LEMMA UndoCommit ==
    ASSUME TypeOK, Control, Reviewed, CommitInv,
           NEW c \in journal.operations, Undo(c) \/ UndoFails(c)
    PROVE  CommitInv'
<1> USE DEF CommitBody, ApplySteps
<1>1. /\ pc = "rollback" /\ pc' = "rollback" /\ c.path \in completed
      /\ completed' = completed \ {c.path}
      /\ UNCHANGED <<user, baseline, execBaseline, staged, journal, txn>>
      /\ journal.state = "COMMIT_FAILED" /\ txn.state = "COMMITTING"
  BY DEF Undo, UndoFails, NextUndo, Undoable, manifests, records, Control
<1>2. Reversible /\ OriginalsKept /\ Restorable(c) /\ Saved(c.path)
  BY <1>1 DEF CommitInv, Reversible
<1>3. c.path \in Paths
  BY <1>1 DEF TypeOK
<1>4. \A p \in Paths : recovery'[p] # None => recovery'[p] = recovery[p]
  BY <1>3 DEF Undo, UndoFails, TypeOK, Tree
<1>5. \A p \in Paths : p # c.path => recovery'[p] = recovery[p]
                                      /\ source'[p] = source[p]
  BY <1>3 DEF Undo, UndoFails, TypeOK, Tree
<1>6. Reversible'
  <2>1. \A p \in Paths : recovery'[p] # None => recovery'[p] = user'[p]
    BY <1>1, <1>2, <1>4 DEF Reversible
  <2>2. completed \subseteq Paths
    BY DEF TypeOK
  <2>3. \A p \in completed' : Saved(p)'
    BY <1>1, <1>2, <1>5, <2>2 DEF Reversible, Saved
  <2>4. \A d \in journal'.operations : Restorable(d)'
    BY <1>1, <1>2 DEF Reversible, Restorable, Seen, Unchecked, PathsOf
  <2> QED
    BY <2>1, <2>3, <2>4 DEF Reversible
<1>7. OriginalsKept'
  <2>1. source'[c.path] = user[c.path] \/ user[c.path] \in Links \cup {None}
        \/ recovery'[c.path] = user[c.path]
    <3>1. CASE Undo(c)
      <4>1. CASE c.before = None \/ c.before \in Links
        BY <1>2, <3>1, <4>1 DEF Undo, Saved
      <4>2. CASE ~(c.before = None \/ c.before \in Links)
        <5>1. recovery[c.path] # None =>
                  source'[c.path] = recovery[c.path]
                  /\ recovery[c.path] = user[c.path]
          BY <1>2, <1>3, <3>1, <4>2 DEF Undo, Reversible, TypeOK, Tree
        <5> QED
          BY <1>2, <5>1 DEF Saved
      <4> QED
        BY <4>1, <4>2
    <3>2. CASE UndoFails(c)
      BY <1>2, <3>2 DEF UndoFails, Saved
    <3> QED
      BY <3>1, <3>2
  <2> QED
    BY <1>1, <1>2, <1>5, <2>1 DEF OriginalsKept
<1>8. state' = "COMMIT_FAILED" => Undoing'
  <2> SUFFICES ASSUME state' = "COMMIT_FAILED" PROVE Undoing'
    OBVIOUS
  <2>1. Undo(c) /\ state = "COMMIT_FAILED"
    BY DEF Undo, UndoFails, process
  <2>2. Undoing
    BY <1>1, <2>1 DEF CommitInv
  <2>3. c.path \in Seen => source'[c.path] = user[c.path]
    <3> SUFFICES ASSUME c.path \in Seen PROVE source'[c.path] = user[c.path]
      OBVIOUS
    <3>1. CASE c.before = None \/ c.before \in Links
      BY <1>2, <1>3, <2>1, <3>1 DEF Restorable, Undo, TypeOK, Tree
    <3>2. CASE ~(c.before = None \/ c.before \in Links)
      <4>1. user[c.path] \in Contents \ Links
        BY <1>2, <3>2 DEF Restorable
      <4>2. recovery[c.path] = user[c.path] /\ recovery[c.path] # None
        BY <1>2, <4>1, ContentAssumption DEF Saved
      <4> QED
        BY <1>3, <2>1, <3>2, <4>2 DEF Undo, TypeOK, Tree
    <3> QED
      BY <3>1, <3>2
  <2>4. \A p \in Seen : source'[p] # user[p] =>
            p # c.path /\ source[p] # user[p]
    BY <1>5, <2>3 DEF Seen, Unchecked, PathsOf
  <2> QED
    BY <1>1, <2>2, <2>4 DEF Undoing, Seen, Unchecked, PathsOf
<1> QED
  BY <1>1, <1>6, <1>7, <1>8 DEF CommitInv, FailedCommitRestores

(* Every step keeps the invariant, when the user leaves the source alone   *)
(* while commit() runs.                                                    *)
LEMMA NextCommit ==
    Quiet /\ PlainNames /\ TypeOK /\ Control /\ Reviewed /\ CommitInv /\ [Next]_vars
        => CommitInv'
<1> SUFFICES ASSUME Quiet, PlainNames, TypeOK, Control, Reviewed, CommitInv, [Next]_vars
             PROVE  CommitInv'
  OBVIOUS
<1>1. CASE Step
  BY <1>1, StartCommit, ApplyCommit, EndCommit, UndoCommit, OutsideCommit
  DEF Step
<1>2. CASE ~Step
  BY <1>2, OutsideCommit DEF Next
<1> QED
  BY <1>1, <1>2

LEMMA CommitCorrect ==
    ASSUME Quiet, PlainNames
    PROVE  Spec => [](TypeOK /\ Control /\ Reviewed /\ CommitInv)
<1>1. Init => TypeOK /\ Control /\ Reviewed /\ CommitInv
  BY InitType, InitControl, InitReviewed, InitCommit
<1>2. TypeOK /\ Control /\ Reviewed /\ CommitInv /\ [Next]_vars
        => (TypeOK /\ Control /\ Reviewed /\ CommitInv)'
  BY NextType, NextControl, NextReviewed, NextCommit
<1> QED
  BY <1>1, <1>2, PTL DEF Spec

(* As long as a commit is not sealed, whatever crashes or fails, the       *)
(* user's version of every path survives.                                  *)
THEOREM KeepsOriginals ==
    ASSUME Quiet, PlainNames
    PROVE  Spec => []OriginalsKept
<1>1. CommitInv => OriginalsKept
  BY DEF CommitInv
<1> QED
  BY <1>1, CommitCorrect, PTL

(* A commit that ends as failed has put back every path it saw.            *)
THEOREM RestoresFailedCommit ==
    ASSUME Quiet, PlainNames
    PROVE  Spec => []FailedCommitRestores
<1>1. CommitInv => FailedCommitRestores
  BY DEF CommitInv
<1> QED
  BY <1>1, CommitCorrect, PTL

(* A journal is sealed only over a source that is the user's wherever it   *)
(* has no operation, and shows every operation whose path nobody wrote in  *)
(* the shadow behind the check of commit().                                *)
THEOREM DeliversCompletely ==
    ASSUME Quiet, PlainNames
    PROVE  Spec => DeliveryComplete
<1>1. TypeOK /\ Control /\ Reviewed /\ CommitInv /\ [Next]_vars =>
        [journal'.state = "COMMITTED" /\ journal.state # "COMMITTED" =>
            /\ \A c \in journal.operations :
                  c.path \in late \/ source[c.path] = c.after
            /\ \A p \in Paths :
                  source[p] # user[p] => p \in PathsOf(journal.operations)]_vars
  <2> SUFFICES ASSUME TypeOK, Control, Reviewed, CommitInv, [Next]_vars,
                      journal'.state = "COMMITTED", journal.state # "COMMITTED"
               PROVE  /\ \A c \in journal.operations :
                            c.path \in late \/ source[c.path] = c.after
                      /\ \A p \in Paths :
                            source[p] # user[p] => p \in PathsOf(journal.operations)
    OBVIOUS
  <2>1. SealJournal
    <3>1. journal' # journal
      OBVIOUS
    <3>2. CommitJournal => journal'.state = "COMMITTING"
      BY <3>1 DEF CommitJournal
    <3>3. FailJournal => journal'.state = "COMMIT_FAILED"
      BY <3>1 DEF FailJournal
    <3>4. \A c \in journal.operations : Complete(c) => journal'.state = journal.state
      BY DEF Complete, TypeOK
    <3>5. \A p \in Paths, v \in Value : ~(EditShadow(p, v) \/ EditSource(p, v))
      BY <3>1 DEF EditShadow, EditSource, records
    <3>6. ~(BeginManifest \/ BeginCopy \/ BeginFails \/ Stage \/ Interrupt
              \/ ResumeEditing \/ Discard \/ Crash \/ Load)
      BY <3>1 DEF BeginManifest, BeginCopy, BeginFails, Stage, Interrupt,
                  ResumeEditing, Discard, Crash, Load, records
    <3>7. /\ \A r \in BlockReasons : ~BlockValidation(r)
          /\ \A s \in {"validate", "revalidate"} : ~Validate(s)
      BY <3>1 DEF BlockValidation, Validate
    <3>8. ~(Decide \/ CommitRecord \/ ApplyFails \/ SealRecord \/ Cleanup
              \/ RollbackDone \/ DiscardRemove)
      BY <3>1 DEF Decide, CommitRecord, ApplyFails, SealRecord, Cleanup,
                  RollbackDone, DiscardRemove, records
    <3>9. \A c \in journal.operations :
              ~(Backup(c) \/ Replace(c) \/ Undo(c) \/ UndoFails(c))
      BY <3>1 DEF Backup, Replace, Undo, UndoFails, records
    <3>10. Next
      BY <3>1 DEF vars, records
    <3>11. Step
      BY <3>5, <3>6, <3>7, <3>10 DEF Next
    <3>12. ~CommitJournal /\ ~FailJournal
      BY <3>2, <3>3
    <3>13. \A c \in journal.operations : ~Complete(c)
      BY <3>4
    <3> QED
      BY <3>6, <3>8, <3>9, <3>11, <3>12, <3>13 DEF Step
  <2>2. Applying /\ \A c \in journal.operations : c.path \in completed
    BY <2>1 DEF SealJournal, Pending, CommitInv, CommitBody, ApplySteps
  <2> QED
    BY <2>2 DEF Applying, Applied, PathsOf
<1> QED
  BY <1>1, CommitCorrect, PTL DEF DeliveryComplete, Spec

-----------------------------------------------------------------------------
(* What a commit replaces is what the transaction began from. *)

(* While commit() runs, the user's version of a path it changes is the one *)
(* in the manifest, if validation compared them: nobody edits it since.    *)
Unedited ==
    pc \in CommitBody =>
        \A c \in journal.operations :
            c.path \notin Ignored \cup Unchecked => user[c.path] = baseline[c.path]

LEMMA NextUnedited ==
    ASSUME Quiet, TypeOK, Control, CommitInv, Unedited, [Next]_vars
    PROVE  Unedited'
<1> USE DEF Unedited, CommitBody, ApplySteps
<1> SUFFICES ASSUME pc' \in CommitBody,
                    NEW c \in journal'.operations, c.path \notin Ignored \cup Unchecked'
             PROVE  user'[c.path] = baseline'[c.path]
  OBVIOUS
<1> DEFINE Kept == /\ pc \in CommitBody
                   /\ UNCHANGED <<user, baseline, staged>>
                   /\ journal'.operations = journal.operations
<1>1. CASE Kept
  BY <1>1 DEF Unchecked
<1>2. CASE CommitJournal
  <2>1. /\ pc = "journal" /\ journal.state = "NONE" /\ journal'.operations = Diff
        /\ UNCHANGED <<user, baseline, staged>>
    BY <1>2 DEF CommitJournal, Control, UncertainNeverReopened, Editable, trees,
                manifests
  <2>2. source = user /\ \A p \in PathsOf(staged) : SourceView(source)[p] = baseline[p]
    BY <2>1 DEF CommitInv
  <2>3. c.path \in Paths /\ c.path \in PathsOf(staged)
    BY <2>1 DEF Diff, Unchecked, PathsOf
  <2> QED
    BY <2>1, <2>2, <2>3 DEF SourceView
<1>3. ASSUME NEW p \in Paths, NEW v \in Value,
             EditShadow(p, v) \/ EditSource(p, v)
      PROVE  Kept
  BY <1>3 DEF EditShadow, EditSource, process, manifests, records, CommitSteps
<1>4. CASE BeginManifest \/ BeginCopy \/ BeginFails \/ Stage \/ Interrupt
             \/ ResumeEditing \/ Discard \/ Crash \/ Load
  BY <1>4 DEF BeginManifest, BeginCopy, BeginFails, Stage, Interrupt,
     ResumeEditing, Discard, Crash, Load, Control
<1>5. /\ \A r \in BlockReasons : ~BlockValidation(r)
      /\ \A s \in {"validate", "revalidate"} : ~Validate(s)
  BY DEF BlockValidation, Validate
<1>6. CASE CommitRecord \/ ApplyFails
  <2>1. Kept
    BY <1>6 DEF CommitRecord, ApplyFails, trees, manifests, records
  <2> QED
    BY <1>1, <2>1
<1>7. ASSUME NEW d \in journal.operations,
             Backup(d) \/ Replace(d) \/ Complete(d)
      PROVE  Kept
  BY <1>7 DEF Backup, Replace, Complete, trees, manifests, records, TypeOK
<1>8. ~(Decide \/ SealJournal \/ SealRecord \/ Cleanup \/ FailJournal
          \/ RollbackDone \/ DiscardRemove)
  BY DEF Decide, SealJournal, SealRecord, Cleanup, FailJournal, RollbackDone,
         DiscardRemove
<1>9. \A d \in journal.operations : ~(Undo(d) \/ UndoFails(d))
  BY DEF Undo, UndoFails, process
<1>10. CASE UNCHANGED vars
  <2>1. Kept
    BY <1>10 DEF vars, trees, manifests, records, process
  <2> QED
    BY <1>1, <2>1
<1>11. CASE Step
  <2> HIDE DEF Kept
  <2> QED
    BY <1>1, <1>2, <1>4, <1>6, <1>7, <1>8, <1>9, <1>11 DEF Step
<1> QED
  BY <1>1, <1>2, <1>3, <1>4, <1>5, <1>10, <1>11 DEF Next

(* A commit replaces a path the transaction saw only while it holds what   *)
(* it held when the transaction began, if nobody edits during the commit.  *)
THEOREM OverwritesWhatItSaw ==
    ASSUME Quiet, PlainNames
    PROVE  Spec => NoUnseenOverwrite
<1> DEFINE Safe ==
        \A p \in Seen :
            pc = "replace" /\ source'[p] # source[p] /\ user' = user =>
                source[p] = baseline[p]
<1>1. Init => Unedited
  BY DEF Init, Unedited, CommitBody, ApplySteps
<1>2. TypeOK /\ Control /\ Reviewed /\ CommitInv /\ Unedited /\ [Next]_vars
        => Unedited'
  BY NextUnedited
<1>3. TypeOK /\ Control /\ Reviewed /\ CommitInv /\ Unedited /\ [Next]_vars
        => [Safe]_vars
  <2> SUFFICES ASSUME TypeOK, Control, Reviewed, CommitInv, Unedited, Next,
                      NEW p \in Seen,
                      pc = "replace", source'[p] # source[p], user' = user
               PROVE  source[p] = baseline[p]
    BY DEF vars, trees
  <2> USE DEF CommitBody, ApplySteps
  <2>1. PICK c \in journal.operations : Replace(c)
    <3>1. ~(BeginManifest \/ BeginCopy \/ BeginFails \/ Stage \/ Interrupt
              \/ ResumeEditing \/ Discard \/ Crash \/ Load)
      BY DEF BeginManifest, BeginCopy, BeginFails, Stage, Interrupt,
             ResumeEditing, Discard, Crash, Load, trees, Control
    <3>2. /\ \A r \in BlockReasons : ~BlockValidation(r)
          /\ \A s \in {"validate", "revalidate"} : ~Validate(s)
      BY DEF BlockValidation, Validate
    <3>3. ~(Decide \/ CommitJournal \/ CommitRecord \/ ApplyFails
              \/ SealJournal \/ SealRecord \/ Cleanup \/ FailJournal
              \/ RollbackDone \/ DiscardRemove)
      BY DEF Decide, CommitJournal, CommitRecord, ApplyFails, SealJournal,
             SealRecord, Cleanup, FailJournal, RollbackDone, DiscardRemove, trees
    <3>4. \A c \in journal.operations :
              ~(Backup(c) \/ Complete(c) \/ Undo(c) \/ UndoFails(c))
      BY DEF Backup, Complete, Undo, UndoFails, trees
    <3>5. \A q \in Paths, v \in Value : ~(EditShadow(q, v) \/ EditSource(q, v))
      BY DEF EditShadow, EditSource, CommitSteps
    <3> QED
      BY <3>1, <3>2, <3>3, <3>4, <3>5 DEF Next, Step
  <2>2. Applying
    BY DEF CommitInv
  <2>3. /\ c.path \in Paths /\ Normalized[c.path] = c.path
        /\ NextOperation(c) /\ c.path \notin completed
    BY <2>1 DEF Replace, NextOperation, Pending, TypeOK, Change, PlainNames
  <2>4. p = c.path
    BY <2>1, <2>3 DEF Replace, TypeOK, Tree, Seen
  <2>5. source[p] = user[p]
    BY <2>2, <2>3, <2>4 DEF Applying, Applied
  <2> QED
    BY <2>4, <2>5 DEF Unedited, Seen
<1> QED
  BY <1>1, <1>2, <1>3, CommitCorrect, PTL DEF NoUnseenOverwrite, Spec

-----------------------------------------------------------------------------
(* The workspace implements AtomicDelivery. *)

(* What the journal says, and the process knows, of a commit that began.   *)
Verdict ==
    /\ journal.state = "COMMITTING" =>
          state \in {"COMMITTING", "RECOVERY_REQUIRED", "DOWN"}
    /\ journal.state = "COMMIT_FAILED" =>
          state \in {"COMMIT_FAILED", "RECOVERY_REQUIRED", "DISCARDED", "DOWN"}
    /\ journal.state = "COMMIT_FAILED" /\ state = "RECOVERY_REQUIRED" =>
          txn.state # "COMMIT_FAILED"

DeliveryInv ==
    TypeOK /\ Control /\ Reviewed /\ CommitInv /\ Verdict /\ JournalBeforeSource

LEMMA NextVerdict ==
    TypeOK /\ Control /\ Verdict /\ [Next]_vars => Verdict'
<1> SUFFICES ASSUME TypeOK, Control, Verdict, [Next]_vars PROVE Verdict'
  OBVIOUS
<1> USE DEF Record, Persist, Control, ApplySteps, Editable,
            UncertainNeverReopened, Verdict
<1>1. CASE BeginManifest \/ BeginCopy \/ BeginFails
  BY <1>1 DEF BeginManifest, BeginCopy, BeginFails, records
<1>2. ASSUME NEW p \in Paths, NEW v \in Value,
             EditShadow(p, v) \/ EditSource(p, v)
      PROVE  Verdict'
  BY <1>2 DEF EditShadow, EditSource, records, process
<1>3. CASE Stage \/ Interrupt \/ ResumeEditing \/ Discard
  BY <1>3 DEF Stage, Interrupt, ResumeEditing, Discard
<1>4. ASSUME NEW r \in BlockReasons, BlockValidation(r)
      PROVE  Verdict'
  BY <1>4 DEF BlockValidation, TypeOK, JournalStates
<1>5. ASSUME NEW s \in {"validate", "revalidate"}, Validate(s)
      PROVE  Verdict'
  BY <1>5 DEF Validate
<1>6. CASE Step
  <2>1. CASE Decide \/ CommitJournal \/ CommitRecord
    BY <2>1 DEF Decide, CommitJournal, CommitRecord
  <2>2. ASSUME NEW c \in journal.operations,
               Backup(c) \/ Replace(c) \/ Complete(c)
        PROVE  Verdict'
    BY <2>2 DEF Backup, Replace, Complete, records, TypeOK
  <2>3. CASE ApplyFails \/ SealJournal \/ SealRecord \/ Cleanup
    BY <2>3 DEF ApplyFails, SealJournal, SealRecord, Cleanup, records, TypeOK
  <2>4. CASE FailJournal \/ RollbackDone
    BY <2>4 DEF FailJournal, RollbackDone
  <2>5. ASSUME NEW c \in journal.operations, Undo(c) \/ UndoFails(c)
        PROVE  Verdict'
    BY <2>5 DEF Undo, UndoFails, records
  <2>6. CASE DiscardRemove
    BY <2>6 DEF DiscardRemove, records
  <2> QED
    BY <1>1, <1>6, <2>1, <2>2, <2>3, <2>4, <2>5, <2>6 DEF Step
<1>7. CASE Crash
  BY <1>7 DEF Crash, records
<1>8. CASE Load
  BY <1>8 DEF Load, Reconciled, UncertainJournal, RepairableConflict
<1>9. CASE UNCHANGED vars
  BY <1>9 DEF vars, records, process
<1> QED
  BY <1>1, <1>2, <1>3, <1>4, <1>5, <1>6, <1>7, <1>8, <1>9 DEF Next

(* The plan gives each path the value its one operation writes. *)
LEMMA PlanValues ==
    ASSUME \A c, d \in journal.operations : c.path = d.path => c = d
    PROVE  /\ DOMAIN Plan = {c.path : c \in journal.operations}
           /\ \A c \in journal.operations : Plan[c.path] = c.after
<1>1. DOMAIN Plan = {c.path : c \in journal.operations}
  BY DEF Plan
<1> SUFFICES ASSUME NEW c \in journal.operations
             PROVE  Plan[c.path] = c.after
  BY <1>1
<1> DEFINE d == CHOOSE d \in journal.operations : d.path = c.path
<1>2. d \in journal.operations /\ d.path = c.path
  OBVIOUS
<1>3. d = c
  BY <1>2
<1> QED
  BY <1>3 DEF Plan

(* The phase, by where the process is. *)
LEMMA PhaseValues ==
    ASSUME DeliveryInv
    PROVE  /\ journal.state = "NONE" => Phase = "open"
           /\ journal.state = "COMMITTED" => Phase = "delivered"
           /\ pc \in CommitBody => Phase = "delivering"
           /\ pc = "rollback" =>
                 Phase = IF state = "COMMIT_FAILED" THEN "delivering"
                                                    ELSE "inDoubt"
           /\ journal.state = "COMMITTING" /\ pc \notin CommitSteps =>
                 Phase = "inDoubt"
           /\ journal.state = "COMMIT_FAILED" /\ pc \notin CommitSteps =>
                 Phase = IF Known \in {"COMMIT_FAILED", "DISCARDED"}
                         THEN "undone" ELSE "inDoubt"
<1> USE DEF DeliveryInv, Phase, Known, Control, ApplySteps, CommitBody,
            CommitSteps, Verdict
<1>1. journal.state = "COMMITTING" => Reconciled.state = "RECOVERY_REQUIRED"
  BY DEF Reconciled, UncertainJournal, Record
<1>2. pc \in CommitBody => Phase = "delivering"
  OBVIOUS
<1>3. pc = "rollback" =>
         Phase = IF state = "COMMIT_FAILED" THEN "delivering" ELSE "inDoubt"
  OBVIOUS
<1>4. journal.state = "COMMITTING" /\ pc \notin CommitSteps => Phase = "inDoubt"
  BY <1>1
<1>5. journal.state = "COMMIT_FAILED" /\ pc \notin CommitSteps =>
         Phase = IF Known \in {"COMMIT_FAILED", "DISCARDED"}
                 THEN "undone" ELSE "inDoubt"
  OBVIOUS
<1> QED
  BY <1>2, <1>3, <1>4, <1>5

(* A step that leaves the operations, the manifests and whether there is a *)
(* journal alone does not change the plan.                                 *)
LEMMA PlanFrame ==
    ASSUME journal'.operations = journal.operations,
           (journal'.state = "NONE") <=> (journal.state = "NONE"),
           journal.state # "NONE" => UNCHANGED <<baseline, execBaseline, staged>>
    PROVE  /\ UNCHANGED <<Plan, PutBackPaths>>
           /\ (journal.state # "NONE" => UNCHANGED late) => UNCHANGED RacedPaths
<1>1. UNCHANGED Plan
  BY DEF Plan
<1>2. UNCHANGED PutBackPaths
  BY DEF PutBackPaths, Seen, Unchecked
<1>3. (journal.state # "NONE" => UNCHANGED late) => UNCHANGED RacedPaths
  BY DEF RacedPaths
<1> QED
  BY <1>1, <1>2, <1>3

LEMMA InitPromise == Init => Promise!Init
<1> SUFFICES ASSUME Init PROVE Promise!Init
  OBVIOUS
<1>1. Plan = << >>
  <2>1. journal.operations = {}
    BY DEF Init, NoJournal
  <2>2. {c.path : c \in journal.operations} = {}
    BY <2>1
  <2> DEFINE Last(p) == (CHOOSE c \in journal.operations : c.path = p).after
  <2>3. Plan = [p \in {} |-> Last(p)]
    BY <2>2 DEF Plan
  <2> HIDE DEF Last
  <2>4. [p \in {} |-> Last(p)] = << >>
    OBVIOUS
  <2> QED
    BY <2>3, <2>4
<1>2. Phase = "open" /\ PutBackPaths = {} /\ RacedPaths = {}
  BY DEF Init, NoJournal, Phase, PutBackPaths, RacedPaths
<1> QED
  BY <1>1, <1>2, ContentAssumption DEF Init, Promise!Init, Tree

(* What a step of AtomicDelivery is called below. *)
PromiseStep ==
    [Promise!Next]_<<source, user, Plan, PutBackPaths, RacedPaths, Phase>>

(* A step that leaves the trees and the records of a commit as they are.   *)
LEMMA FrameMaps ==
    ASSUME DeliveryInv, DeliveryInv',
           UNCHANGED <<source, user, journal>>,
           journal.state # "NONE" =>
               UNCHANGED <<baseline, execBaseline, staged, late>> /\ UNCHANGED Phase
    PROVE  PromiseStep
<1>1. UNCHANGED <<Plan, PutBackPaths, RacedPaths>>
  BY PlanFrame
<1>2. UNCHANGED Phase
  <2>1. CASE journal.state = "NONE"
    BY <2>1, PhaseValues DEF Phase
  <2>2. CASE journal.state # "NONE"
    BY <2>2
  <2> QED
    BY <2>1, <2>2
<1> QED
  BY <1>1, <1>2 DEF PromiseStep

(* The steps outside commit(), and the ones that only keep its records. *)
LEMMA OutsideMaps ==
    ASSUME DeliveryInv, DeliveryInv',
           \/ BeginManifest \/ BeginCopy \/ BeginFails
           \/ Stage \/ Interrupt \/ ResumeEditing \/ Discard
           \/ \E p \in Paths, v \in Value : EditShadow(p, v) \/ EditSource(p, v)
           \/ \E r \in BlockReasons : BlockValidation(r)
           \/ \E s \in {"validate", "revalidate"} : Validate(s)
           \/ Decide \/ DiscardRemove \/ Crash \/ Load \/ UNCHANGED vars
    PROVE  PromiseStep
<1> USE DEF DeliveryInv
<1>1. CASE BeginManifest \/ BeginCopy \/ BeginFails
  <2>1. journal.state = "NONE" /\ UNCHANGED <<source, user, journal>>
    BY <1>1 DEF BeginManifest, BeginCopy, BeginFails, Control, trees, records
  <2> QED
    BY <2>1, FrameMaps
<1> DEFINE Edits ==
               \/ Stage \/ Interrupt \/ ResumeEditing \/ Decide
               \/ \E r \in BlockReasons : BlockValidation(r)
               \/ \E s \in {"validate", "revalidate"} : Validate(s)
<1>2. CASE Edits
  <2>1. state \in Editable /\ UNCHANGED <<source, user, journal>>
    BY <1>2 DEF Stage, Interrupt, ResumeEditing, Decide, BlockValidation,
                Validate, trees, Control, Editable
  <2>2. journal.state = "NONE"
    BY <2>1 DEF Control, UncertainNeverReopened
  <2> QED
    BY <2>1, <2>2, FrameMaps
<1>3. CASE Discard
  <2>1. /\ UNCHANGED <<source, user, journal, baseline, execBaseline, staged, late>>
        /\ pc = "idle" /\ pc' \in {"idle", "remove"} /\ state' = "DISCARDED"
        /\ state \notin {"DOWN", "COMMITTING", "COMMITTED", "RECOVERY_REQUIRED"}
    BY <1>3 DEF Discard, trees, manifests
  <2>2. journal.state # "NONE" => journal.state = "COMMIT_FAILED"
                                  /\ state \in {"COMMIT_FAILED", "DISCARDED"}
    BY <2>1 DEF Control, DeliveryNeverDenied, Verdict, TypeOK, JournalStates
  <2>3. journal.state # "NONE" => Phase = "undone" /\ Phase' = "undone"
    BY <2>1, <2>2 DEF Phase, Known, CommitSteps
  <2> QED
    BY <2>1, <2>3, FrameMaps
<1>4. ASSUME NEW p \in Paths, NEW v \in Value, EditShadow(p, v)
      PROVE  PromiseStep
  <2>1. /\ UNCHANGED <<source, user, journal, baseline, execBaseline, staged, state,
                       pc, txn>>
        /\ late \subseteq late'
    BY <1>4 DEF EditShadow, records, manifests, process
  <2>2. UNCHANGED Phase
    BY <2>1 DEF Phase, Known, Reconciled, UncertainJournal, RepairableConflict
  <2>3. UNCHANGED <<Plan, PutBackPaths>>
    BY <2>1, PlanFrame
  <2>4. CASE journal.state = "NONE"
    BY <2>1, <2>2, <2>3, <2>4 DEF RacedPaths, PromiseStep
  <2>5. CASE journal.state # "NONE"
    <3>1. Phase # "open"
      BY <2>5 DEF Phase, TypeOK, JournalStates
    <3>2. RacedPaths = late /\ RacedPaths' = late' /\ late' \in SUBSET Paths
      BY <2>1, <2>5 DEF RacedPaths, TypeOK
    <3>3. Promise!Race
      BY <2>1, <2>2, <2>3, <3>1, <3>2 DEF Promise!Race
    <3> QED
      BY <3>3 DEF PromiseStep, Promise!Next
  <2> QED
    BY <2>4, <2>5
<1>5. ASSUME NEW p \in Paths, NEW v \in Value, EditSource(p, v)
      PROVE  PromiseStep
  <2>1. UNCHANGED <<journal, baseline, execBaseline, staged, late, state, pc, txn>>
    BY <1>5 DEF EditSource, records, manifests, process
  <2>2. UNCHANGED Phase
    BY <2>1 DEF Phase, Known, Reconciled, UncertainJournal, RepairableConflict
  <2>3. UNCHANGED <<Plan, PutBackPaths, RacedPaths>>
    BY <2>1, PlanFrame
  <2>4. Promise!UserEdits
    BY <1>5, <2>2, <2>3 DEF EditSource, Promise!UserEdits
  <2> QED
    BY <2>4 DEF PromiseStep, Promise!Next
<1>6. CASE DiscardRemove
  <2>1. /\ UNCHANGED <<source, user, journal, baseline, execBaseline, staged, late, state>>
        /\ pc = "remove" /\ pc' = "idle" /\ state = "DISCARDED"
    BY <1>6 DEF DiscardRemove, records, manifests, Control
  <2>2. UNCHANGED Phase
    BY <2>1 DEF Phase, Known, CommitSteps
  <2> QED
    BY <2>1, <2>2, FrameMaps
<1>7. CASE Crash
  <2>1. /\ UNCHANGED <<source, user, journal, baseline, execBaseline, staged, late, txn>>
        /\ pc' = "idle" /\ state # "DOWN"
        /\ txn.state # "NONE" => state' = "DOWN"
    BY <1>7 DEF Crash, trees, records, manifests
  <2>2. UNCHANGED <<Plan, PutBackPaths, RacedPaths>>
    BY <2>1, PlanFrame
  <2>3. CASE journal.state \in {"NONE", "COMMITTED"}
    <3>1. UNCHANGED Phase
      BY <2>1, <2>3, PhaseValues DEF Phase
    <3> QED
      BY <2>1, <3>1, FrameMaps
  <2>4. CASE journal.state = "COMMITTING"
    <3>1. Phase \in {"delivering", "inDoubt"} /\ Phase' = "inDoubt"
      BY <2>1, <2>4, PhaseValues
      DEF Control, Phase, Known, Reconciled, UncertainJournal, Record,
          CommitSteps, Verdict
    <3> QED
      BY <2>1, <2>2, <3>1 DEF PromiseStep, Promise!Next, Promise!Doubt
  <2>5. CASE journal.state = "COMMIT_FAILED"
    <3>1. Phase' \in {"undone", "inDoubt"}
      BY <2>1, <2>5 DEF Phase, CommitSteps
    <3>2. Phase = "inDoubt" => Phase' = "inDoubt"
      BY <2>1, <2>5 DEF Control, Phase, Known, Reconciled, UncertainJournal,
                        Record, CommitSteps, Verdict
    <3>3. Phase = "delivering" => Phase' = "inDoubt"
      BY <2>1, <2>5 DEF Control, Phase, Known, Reconciled, UncertainJournal,
                        Record, CommitSteps, Verdict, ApplySteps
    <3>4. Phase \in {"delivering", "undone", "inDoubt"}
      BY <2>5 DEF Phase
    <3> QED
      BY <2>1, <2>2, <3>1, <3>2, <3>3, <3>4
      DEF PromiseStep, Promise!Next, Promise!Doubt
  <2> QED
    BY <2>3, <2>4, <2>5 DEF TypeOK, JournalStates
<1>8. CASE Load
  <2>1. /\ UNCHANGED <<source, user, journal, baseline, execBaseline, staged, late, pc>>
        /\ state = "DOWN" /\ state' = Reconciled.state /\ pc = "idle"
    BY <1>8 DEF Load, manifests, Control
  <2>2. Reconciled.state # "DOWN"
    BY DEF Reconciled, Record, TypeOK, RecordStates
  <2>3. Known' = Known
    BY <2>1, <2>2 DEF Known
  <2>4. UNCHANGED Phase
    BY <2>1, <2>3 DEF Phase
  <2> QED
    BY <2>1, <2>4, FrameMaps
<1>9. CASE UNCHANGED vars
  <2>1. UNCHANGED <<source, user, journal, baseline, execBaseline, staged, late, state,
                    pc, txn>>
    BY <1>9 DEF vars, trees, records, manifests, process
  <2>2. UNCHANGED Phase
    BY <2>1 DEF Phase, Known, Reconciled, UncertainJournal, RepairableConflict
  <2> QED
    BY <2>1, <2>2, FrameMaps
<1> QED
  <2>1. \/ BeginManifest \/ BeginCopy \/ BeginFails \/ Edits \/ Discard
        \/ \E p \in Paths, v \in Value : EditShadow(p, v) \/ EditSource(p, v)
        \/ DiscardRemove \/ Crash \/ Load \/ UNCHANGED vars
    OBVIOUS
  <2> HIDE DEF Edits
  <2> QED
    BY <1>1, <1>2, <1>3, <1>4, <1>5, <1>6, <1>7, <1>8, <1>9, <2>1

(* Start, Show, Deliver and Doubt: the steps of commit() itself. *)
LEMMA CommitMaps ==
    ASSUME PlainNames, DeliveryInv, DeliveryInv',
           \/ CommitJournal \/ CommitRecord \/ ApplyFails
           \/ \E c \in journal.operations : Backup(c) \/ Replace(c) \/ Complete(c)
           \/ SealJournal \/ SealRecord \/ Cleanup \/ FailJournal
    PROVE  PromiseStep
<1> USE DEF CommitBody, ApplySteps
<1>0. TypeOK /\ Control /\ Reviewed /\ CommitInv /\ TypeOK' /\ Control'
  BY DEF DeliveryInv
<1>1. CASE CommitJournal
  <2>1. /\ journal.state = "NONE" /\ UNCHANGED <<source, user>>
        /\ \/ pc' = "record" /\ journal'.state = "COMMITTING"
           \/ UNCHANGED journal
    BY <1>0, <1>1 DEF CommitJournal, Control, UncertainNeverReopened, Editable,
                      trees
  <2>2. CASE pc' = "record" /\ journal'.state = "COMMITTING"
    <3>1. Phase = "open" /\ Phase' = "delivering"
      BY <2>1, <2>2, PhaseValues DEF Phase, Known, Control, CommitSteps, DeliveryInv
    <3>2. PutBackPaths' \in SUBSET Paths /\ RacedPaths' \in SUBSET Paths
      BY <1>0 DEF PutBackPaths, Seen, RacedPaths, TypeOK
    <3>3. journal'.operations \in SUBSET Change
      BY <1>0 DEF TypeOK
    <3>4. Plan' \in [{c.path : c \in journal'.operations} -> Value]
      <4>1. \A p \in {c.path : c \in journal'.operations} :
                (CHOOSE c \in journal'.operations : c.path = p).after \in Value
        BY <3>3 DEF Change
      <4> QED
        BY <4>1 DEF Plan
    <3>5. {c.path : c \in journal'.operations} \in SUBSET Paths
      BY <3>3 DEF Change
    <3>6. Promise!Start
      BY <2>1, <3>1, <3>2, <3>4, <3>5 DEF Promise!Start
    <3> QED
      BY <3>6 DEF PromiseStep, Promise!Next
  <2>3. CASE UNCHANGED journal
    BY <2>1, <2>3, FrameMaps
  <2> QED
    BY <2>1, <2>2, <2>3
<1>2. CASE CommitRecord
  <2>1. /\ UNCHANGED <<source, user, journal, baseline, execBaseline, staged, late>>
        /\ pc = "record" /\ pc' \in {"backup", "idle"}
        /\ journal.state = "COMMITTING"
    BY <1>0, <1>2 DEF CommitRecord, trees, manifests, Control
  <2>2. Phase = "delivering"
    BY <2>1, PhaseValues
  <2>3. Phase' \in {"delivering", "inDoubt"}
    <3>1. state' = "COMMITTING" /\ journal'.state = "COMMITTING"
      BY <1>0, <1>2, <2>1 DEF CommitRecord, Control
    <3> QED
      BY <3>1 DEF Phase, Known
  <2>4. UNCHANGED <<Plan, PutBackPaths, RacedPaths>>
    BY <2>1, PlanFrame
  <2> QED
    BY <2>1, <2>2, <2>3, <2>4 DEF PromiseStep, Promise!Next, Promise!Doubt
<1>3. CASE ApplyFails \/ \E c \in journal.operations : Backup(c) \/ Complete(c)
  <2>1. /\ UNCHANGED <<source, user, baseline, execBaseline, staged, late>>
        /\ pc \in CommitBody /\ pc' \in CommitBody
        /\ journal'.operations = journal.operations
        /\ journal'.state = journal.state
    BY <1>0, <1>3 DEF ApplyFails, Backup, Complete, trees, manifests, records,
                      TypeOK
  <2>2. Phase = "delivering"
    BY <2>1, PhaseValues
  <2>3. Phase' = "delivering"
    BY <1>0, <2>1 DEF Control, Phase, Known, CommitSteps
  <2>4. UNCHANGED <<Plan, PutBackPaths, RacedPaths>>
    BY <2>1, PlanFrame
  <2> QED
    BY <2>1, <2>2, <2>3, <2>4 DEF PromiseStep
<1>4. ASSUME NEW c \in journal.operations, Replace(c)
      PROVE  PromiseStep
  <2>1. /\ pc = "replace" /\ pc' = "complete" /\ WellPlanned
        /\ journal.state = "COMMITTING"
        /\ UNCHANGED <<user, journal, baseline, execBaseline, staged, late>>
    <3>1. /\ pc = "replace" /\ pc' = "complete"
          /\ UNCHANGED <<user, journal, baseline, execBaseline, staged, late>>
      BY <1>4 DEF Replace, manifests, records
    <3> QED
      BY <1>0, <3>1 DEF Control, Reviewed
  <2>2. PICK v \in Value : /\ source' = [source EXCEPT ![c.path] = v]
                           /\ c.path \notin late => v = c.after
    <3>1. /\ Normalized[c.path] = c.path /\ c.path \in Paths
          /\ c.path \notin late => c.after = shadow[c.path]
      BY <1>0, <2>1 DEF TypeOK, Change, PlainNames, WellPlanned
    <3>2. shadow[c.path] \in Value /\ None \in Value
      BY <1>0, <3>1 DEF TypeOK, Tree, Value
    <3> QED
      BY <1>4, <3>1, <3>2 DEF Replace
  <2>3. Phase = "delivering"
    BY <2>1, PhaseValues
  <2>4. Phase' = "delivering"
    BY <1>0, <2>1 DEF Control, Phase, Known, CommitSteps
  <2>5. UNCHANGED <<Plan, PutBackPaths, RacedPaths>>
    BY <2>1, PlanFrame
  <2>6. c.path \in DOMAIN Plan /\ Plan[c.path] = c.after /\ RacedPaths = late
    BY <2>1, PlanValues DEF WellPlanned, RacedPaths
  <2>7. Promise!Show
    BY <2>1, <2>2, <2>3, <2>4, <2>5, <2>6 DEF Promise!Show
  <2> QED
    BY <2>7 DEF PromiseStep, Promise!Next
<1>5. CASE SealJournal
  <2>1. /\ UNCHANGED <<source, user, baseline, execBaseline, staged, late, state>>
        /\ pc = "backup" /\ Pending = {} /\ state = "COMMITTING"
        /\ journal'.operations = journal.operations
        /\ journal.state = "COMMITTING" /\ WellPlanned
        /\ \/ journal'.state = "COMMITTED"
           \/ journal'.state = "COMMITTING" /\ pc' = "idle"
    BY <1>0, <1>5 DEF SealJournal, trees, manifests, TypeOK, Control, Reviewed
  <2>2. Phase = "delivering"
    BY <2>1, PhaseValues
  <2>3. UNCHANGED <<Plan, PutBackPaths, RacedPaths>>
    BY <2>1, PlanFrame
  <2>4. CASE journal'.state = "COMMITTED"
    <3>1. Phase' = "delivered"
      BY <2>4 DEF Phase
    <3>2. Applying /\ \A c \in journal.operations : c.path \in completed
      BY <1>0, <2>1 DEF CommitInv, Pending
    <3>3. /\ DOMAIN Plan = {c.path : c \in journal.operations}
          /\ \A c \in journal.operations : Plan[c.path] = c.after
      BY <2>1, PlanValues DEF WellPlanned
    <3>4. \A p \in DOMAIN Plan \ RacedPaths : source[p] = Plan[p]
      BY <2>1, <3>2, <3>3 DEF Applying, Applied, RacedPaths
    <3>5. \A p \in Paths \ DOMAIN Plan : source[p] = user[p]
      BY <3>2, <3>3 DEF Applying
    <3>6. Promise!Deliver
      BY <2>1, <2>2, <2>3, <3>1, <3>4, <3>5 DEF Promise!Deliver
    <3> QED
      BY <3>6 DEF PromiseStep, Promise!Next
  <2>5. CASE journal'.state = "COMMITTING" /\ pc' = "idle"
    <3>1. Phase' = "inDoubt"
      BY <2>1, <2>5 DEF Phase, Known, CommitSteps
    <3> QED
      BY <2>1, <2>2, <2>3, <3>1 DEF PromiseStep, Promise!Next, Promise!Doubt
  <2> QED
    BY <2>1, <2>4, <2>5
<1>6. CASE SealRecord \/ Cleanup
  <2>1. /\ UNCHANGED <<source, user, journal, baseline, execBaseline, staged, late>>
        /\ journal.state = "COMMITTED"
    BY <1>0, <1>6 DEF SealRecord, Cleanup, trees, manifests, records, Control
  <2>2. UNCHANGED Phase
    BY <2>1 DEF Phase
  <2> QED
    BY <2>1, <2>2, FrameMaps
<1>7. CASE FailJournal
  <2>1. /\ UNCHANGED <<source, user, baseline, execBaseline, staged, late>>
        /\ pc = "failed" /\ journal.state = "COMMITTING" /\ state = "COMMITTING"
        /\ journal'.operations = journal.operations
        /\ \/ /\ journal'.state = "COMMIT_FAILED" /\ pc' = "rollback"
              /\ state' = "COMMIT_FAILED"
           \/ pc' = "idle" /\ UNCHANGED <<journal, state>>
    BY <1>0, <1>7 DEF FailJournal, trees, manifests, Control
  <2>2. Phase = "delivering"
    BY <2>1, PhaseValues
  <2>3. Phase' \in {"delivering", "inDoubt"}
    BY <2>1 DEF Phase, Known, CommitSteps
  <2>4. UNCHANGED <<Plan, PutBackPaths, RacedPaths>>
    BY <2>1, PlanFrame
  <2> QED
    BY <2>1, <2>2, <2>3, <2>4 DEF PromiseStep, Promise!Next, Promise!Doubt
<1> QED
  BY <1>1, <1>2, <1>3, <1>4, <1>5, <1>6, <1>7

(* PutBack, LosePath and GiveUp: the rollback. *)
LEMMA RollbackMaps ==
    ASSUME DeliveryInv, DeliveryInv',
           \/ \E c \in journal.operations : Undo(c) \/ UndoFails(c)
           \/ RollbackDone
    PROVE  PromiseStep
<1>0. /\ TypeOK /\ Control /\ CommitInv /\ JournalBeforeSource /\ TypeOK'
      /\ pc = "rollback" /\ journal.state = "COMMIT_FAILED" /\ Reversible
      /\ state \in {"COMMIT_FAILED", "RECOVERY_REQUIRED"}
  BY DEF DeliveryInv, Undo, UndoFails, RollbackDone, Control, CommitInv
<1>1. Phase = IF state = "COMMIT_FAILED" THEN "delivering" ELSE "inDoubt"
  BY <1>0, PhaseValues
<1>2. /\ UNCHANGED <<user, journal, baseline, execBaseline, staged, late>>
  BY DEF Undo, UndoFails, RollbackDone, trees, records, manifests
<1>3. UNCHANGED <<Plan, PutBackPaths, RacedPaths>>
  BY <1>2, PlanFrame
<1>4. DOMAIN Plan = {c.path : c \in journal.operations}
  BY DEF Plan
<1>5. ASSUME NEW c \in journal.operations, Undo(c)
      PROVE  PromiseStep
  <2>1. /\ c.path \in completed /\ c.path \in Paths /\ c.before \in Value
        /\ pc' = "rollback" /\ state' = state
    BY <1>0, <1>5 DEF Undo, NextUndo, Undoable, process, TypeOK, Change
  <2>2. Phase' = Phase
    BY <1>0, <1>1, <1>2, <2>1 DEF Phase, Known, CommitSteps
  <2>3. PICK v \in Value : source' = [source EXCEPT ![c.path] = v]
    BY <1>0, <1>5, <2>1 DEF Undo, TypeOK, Tree
  <2>4. c.path \in PutBackPaths => v = user[c.path]
    <3> SUFFICES ASSUME c.path \in Seen PROVE source'[c.path] = user[c.path]
      BY <1>0, <2>1, <2>3 DEF PutBackPaths, TypeOK, Tree
    <3>1. Restorable(c) /\ Saved(c.path)
      BY <1>0, <2>1 DEF Reversible
    <3>2. CASE c.before = None \/ c.before \in Links
      BY <1>0, <1>5, <2>1, <3>1, <3>2 DEF Restorable, Undo, TypeOK, Tree
    <3>3. CASE ~(c.before = None \/ c.before \in Links)
      <4>1. user[c.path] \in Contents \ Links
        BY <3>1, <3>3 DEF Restorable
      <4>2. recovery[c.path] = user[c.path] /\ recovery[c.path] # None
        BY <3>1, <4>1, ContentAssumption DEF Saved
      <4> QED
        BY <1>0, <1>5, <2>1, <3>3, <4>2 DEF Undo, TypeOK, Tree
    <3> QED
      BY <3>2, <3>3
  <2>5. Promise!PutBack
    BY <1>1, <1>2, <1>3, <1>4, <2>2, <2>3, <2>4 DEF Promise!PutBack
  <2> QED
    BY <2>5 DEF PromiseStep, Promise!Next
<1>6. ASSUME NEW c \in journal.operations, UndoFails(c)
      PROVE  PromiseStep
  <2>1. /\ pc' = "rollback" /\ state' = "RECOVERY_REQUIRED"
        /\ source' = source \/ source' = [source EXCEPT ![c.path] = None]
    BY <1>0, <1>6 DEF UndoFails
  <2>2. Phase' = "inDoubt"
    BY <1>0, <1>2, <2>1 DEF Phase, Known, CommitSteps
  <2>3. CASE source' = source
    BY <1>1, <1>2, <1>3, <2>2, <2>3 DEF PromiseStep, Promise!Next, Promise!Doubt
  <2>4. CASE source' = [source EXCEPT ![c.path] = None]
    <3>1. Promise!LosePath
      BY <1>1, <1>2, <1>3, <1>4, <2>2, <2>4 DEF Promise!LosePath, Value
    <3> QED
      BY <3>1 DEF PromiseStep, Promise!Next
  <2> QED
    BY <2>1, <2>3, <2>4
<1>7. CASE RollbackDone
  <2>1. /\ Undoable = {} /\ pc' = "idle" /\ UNCHANGED <<source, state>>
    BY <1>7 DEF RollbackDone, trees
  <2>2. Phase' = IF state = "COMMIT_FAILED" THEN "undone" ELSE "inDoubt"
    BY <1>0, <1>2, <2>1 DEF Phase, Known, CommitSteps
  <2>3. CASE state = "COMMIT_FAILED"
    <3>1. \A p \in PutBackPaths : source[p] = user[p]
      BY <1>0, <2>1, <2>3 DEF CommitInv, Undoing, Undoable, PutBackPaths
    <3>2. \A p \in Paths : p \notin DOMAIN Plan => source[p] = user[p]
      BY <1>0, <1>4 DEF JournalBeforeSource, PathsOf
    <3>3. Promise!GiveUp
      BY <1>1, <1>2, <1>3, <2>1, <2>2, <2>3, <3>1, <3>2 DEF Promise!GiveUp
    <3> QED
      BY <3>3 DEF PromiseStep, Promise!Next
  <2>4. CASE state # "COMMIT_FAILED"
    BY <1>1, <1>2, <1>3, <2>1, <2>2, <2>4 DEF PromiseStep
  <2> QED
    BY <2>3, <2>4
<1> QED
  BY <1>5, <1>6, <1>7

LEMMA StepMaps ==
    ASSUME PlainNames, DeliveryInv, DeliveryInv', [Next]_vars
    PROVE  PromiseStep
<1>1. CASE Step
  BY <1>1, CommitMaps, RollbackMaps, OutsideMaps DEF Step
<1>2. CASE ~Step
  BY <1>2, OutsideMaps DEF Next
<1> QED
  BY <1>1, <1>2

(* Whatever crashes, fails or is edited in between, the workspace delivers *)
(* a change set in full, or puts back every path it saw and touches no     *)
(* other, or says for ever that it does not know; if the user leaves the   *)
(* source alone while commit() runs.  Somebody else may write in the       *)
(* shadow all the while: only the paths he writes are excepted.            *)
THEOREM ImplementsAtomicDelivery ==
    ASSUME Quiet, PlainNames
    PROVE  Spec => DeliversAtomically
<1>1. Init => Verdict /\ JournalBeforeSource
  BY DEF Init, Verdict, JournalBeforeSource, NoJournal
<1>2. DeliveryInv /\ [Next]_vars => Verdict' /\ JournalBeforeSource'
  BY NextVerdict, NextBefore DEF DeliveryInv
<1>3. DeliveryInv /\ DeliveryInv' /\ [Next]_vars
        => [Promise!Next]_<<source, user, Plan, PutBackPaths, RacedPaths, Phase>>
  BY StepMaps DEF PromiseStep
<1>4. Spec => []DeliveryInv
  BY <1>1, <1>2, CommitCorrect, PTL DEF Spec, DeliveryInv
<1> QED
  BY <1>3, <1>4, InitPromise, PTL DEF Spec, DeliversAtomically, Promise!Spec
=============================================================================
