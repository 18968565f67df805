------------------------- MODULE VerificationLedger -------------------------
(***************************************************************************)
(* The evidence that a change set was verified: the execution ledger of    *)
(* pico/progress/progress_controller.py, the flags the tool executor keeps *)
(* beside it, and the decision of verification_failure_reason on which a   *)
(* transaction is delivered or blocked.                                    *)
(*                                                                         *)
(* One session and its transaction, across runs, interrupts and process    *)
(* restarts.  A tool call changes the shadow first; the flags and the      *)
(* ledger learn of it when the call returns, and the session file only     *)
(* when the call is recorded.                                              *)
(*                                                                         *)
(* Simplifications:                                                        *)
(*   - the code of the shadow is a revision number, counted per            *)
(*     transaction, and the set of paths that differ from the baseline;    *)
(*   - the counters beside unverified_changes and unresolved_failures are  *)
(*     left out: each is zero exactly when its collection is empty;        *)
(*   - a shell command and a diagnostic run_verification leave the same    *)
(*     evidence and are one tool, "command";                               *)
(*   - staging, review and commit are one step: no tool runs in between,   *)
(*     and DeliveryLifecycle and TransactionalWorkspace model them;        *)
(*   - failures recorded without argument boundaries, by old versions, are *)
(*     not modelled;                                                       *)
(*   - calls that are rejected before they run leave no evidence and are   *)
(*     AgentLoop's.                                                        *)
(***************************************************************************)
EXTENDS Integers, FiniteSets, Sequences

CONSTANTS
    Paths, TestPaths,      \* paths of the tree, those that are tests
    Checks,                \* verification identities
    MaxValidations,        \* MAX_LEDGER_VALIDATIONS
    MaxUnverified,         \* MAX_LEDGER_UNVERIFIED_CHANGES
    MaxRevisions,          \* bound on the revisions of a transaction
    MaxTorn                \* bound on calls whose effect outlives their record

ASSUME PathAssumption == TestPaths \subseteq Paths /\ IsFiniteSet(Paths)
ASSUME WindowAssumption == MaxValidations \in Nat \ {0} /\ MaxUnverified \in Nat \ {0}
ASSUME BoundAssumption == MaxRevisions \in Nat /\ MaxTorn \in Nat

Repairable == {"verification_failed", "verification_required", "verification_stale"}

(* What a tool call does: the paths it changes, those of them that then    *)
(* differ from the baseline, and the result of an acceptance check.  The   *)
(* result of another tool is no evidence and is fixed.                     *)
Calls ==
    {c \in [tool: {"write", "command", "acceptance"}, check: Checks, changed: SUBSET Paths,
            kept: SUBSET Paths, ok: BOOLEAN, raised: BOOLEAN] :
        /\ c.kept \subseteq c.changed
        /\ c.raised => ~c.ok
        /\ c.tool = "write" => c.changed # {}
        /\ c.tool # "acceptance" => c.ok /\ c.check = CHOOSE any \in Checks : TRUE}

NoCall ==
    [tool |-> "none", check |-> CHOOSE any \in Checks : TRUE, changed |-> {}, kept |-> {},
     ok |-> TRUE, raised |-> FALSE]

EmptyLedger == [unverified |-> {}, failures |-> {}, validations |-> <<>>, mutated |-> FALSE]
EmptySession == [ledger |-> EmptyLedger, need |-> FALSE, needTest |-> FALSE]

VARIABLES
    revision,   \* the code in the shadow
    differs,    \* the paths of diff()
    txn,        \* none, open, blocked or committed
    process,    \* down, idle (no run) or running
    ledger,     \* progress_controller.ledger of the run
    review,     \* progress_controller.state.delivery_review_pending
    last,       \* last_verification_succeeded: none, passed or failed
    stale,      \* verification_stale
    asked,      \* current_interaction: validation_required, test_artifact_required
    session,    \* the session in memory: ledger and requirements
    file,       \* the session file
    call, stage, \* the tool call under way and how far it got
    tested,     \* history: the revision the last passing check ran on
    verdict,    \* history: what each check said last
    torn        \* how many calls took effect and were never recorded

shadow == <<revision, differs>>
memory == <<ledger, review, last, stale, asked, session>>
history == <<tested, verdict, torn>>
vars == <<shadow, txn, process, memory, file, call, stage, history>>

NothingAsked == [need |-> FALSE, needTest |-> FALSE]

Init ==
    /\ revision = 0 /\ differs = {} /\ txn = "none" /\ process = "down"
    /\ ledger = EmptyLedger /\ review = FALSE /\ last = "none" /\ stale = FALSE
    /\ asked = NothingAsked /\ session = EmptySession /\ file = EmptySession
    /\ call = NoCall /\ stage = "none"
    /\ tested = -1 /\ verdict = [c \in Checks |-> "none"] /\ torn = 0

-----------------------------------------------------------------------------
(* The ledger *)

(* mark_mutation: the window of unverified paths forgets some of them, but *)
(* never all.                                                              *)
Marked(l, paths) ==
    LET all == l.unverified \cup paths
        kept == IF Cardinality(all) <= MaxUnverified THEN all
                ELSE CHOOSE some \in SUBSET all : Cardinality(some) = MaxUnverified
    IN  IF paths = {} THEN l ELSE [l EXCEPT !.unverified = kept, !.mutated = TRUE]

(* The last MaxValidations records.  Mutant: trimmed before the append. *)
WindowedLate(s) ==
    IF Len(s) <= MaxValidations + 1 THEN s ELSE SubSeq(s, Len(s) - MaxValidations, Len(s))

Windowed(s) ==
    IF Len(s) <= MaxValidations THEN s ELSE SubSeq(s, Len(s) - MaxValidations + 1, Len(s))

Passed(c) == c.tool = "acceptance" /\ c.ok /\ c.changed = {}

(* What observe() keeps of a check.  One that changes the workspace is an  *)
(* unresolved failure, whatever it says.  Mutant: any passing check        *)
(* retires every failure.                                                  *)
SettledByAny(l, c) ==
    CASE c.tool # "acceptance" -> l
      [] Passed(c) -> [l EXCEPT !.unverified = {}, !.failures = {}]
      [] c.tool = "acceptance" /\ ~Passed(c) -> [l EXCEPT !.failures = @ \cup {c.check}]

Settled(l, c) ==
    CASE c.tool # "acceptance" -> l
      [] Passed(c) -> [l EXCEPT !.unverified = {}, !.failures = @ \ {c.check}]
      [] c.tool = "acceptance" /\ ~Passed(c) -> [l EXCEPT !.failures = @ \cup {c.check}]

Recorded(l, c) ==
    LET r == [kind |-> IF c.tool = "acceptance" THEN "validation" ELSE "other", ok |-> c.ok]
    IN  IF c.tool = "write" THEN l
        ELSE [l EXCEPT !.validations = Windowed(Append(@, r))]

Observed(l, c) == Settled(Recorded(Marked(l, c.changed), c), c)

Validations(l) == {i \in DOMAIN l.validations : l.validations[i].kind = "validation"}

HasPassed(l) == \E i \in Validations(l) : l.validations[i].ok

(* A new controller asks for the review of work that was verified before. *)
ReviewOf(l) ==
    l.mutated /\ Validations(l) # {} /\ l.failures = {} /\ l.unverified = {}

(* Mutant: a later edit does not make the evidence stale. *)
FreshObjections(changes) ==
    << [reason |-> "required_test_artifact_missing",
        holds |-> session.needTest /\ changes # {} /\ changes \cap TestPaths = {}],
       [reason |-> "verification_failed", holds |-> ledger.failures # {} \/ last = "failed"],
       [reason |-> "verification_required",
        holds |-> /\ changes # {} /\ (session.need \/ asked.need)
                  /\ ~(HasPassed(ledger) \/ last = "passed")] >>

(* What speaks against a delivery of these changes, in the order           *)
(* verification_failure_reason asks.                                       *)
Objections(changes) ==
    LET failing == ledger.failures # {}
        unverified == ledger.unverified # {}
        passed == HasPassed(ledger) /\ ~failing /\ ~unverified
    IN  << [reason |-> "required_test_artifact_missing",
            holds |-> session.needTest /\ changes # {} /\ changes \cap TestPaths = {}],
           [reason |-> "verification_failed", holds |-> failing],
           [reason |-> "verification_stale",
            holds |-> stale \/ (Validations(ledger) # {} /\ unverified)],
           [reason |-> "verification_failed", holds |-> last = "failed"],
           [reason |-> "verification_required",
            holds |-> /\ changes # {} /\ (session.need \/ asked.need)
                      /\ ~(passed \/ last = "passed")] >>

Reason(changes) ==
    LET all == Objections(changes)
        open == {i \in DOMAIN all : all[i].holds}
    IN  IF open = {} THEN "" ELSE all[CHOOSE i \in open : \A j \in open : i <= j].reason

-----------------------------------------------------------------------------
(* Processes and runs *)

(* Pico.__init__: the session is read, the flags start empty. *)
Open ==
    /\ process = "down"
    /\ process' = "idle"
    /\ session' = file /\ last' = "none" /\ stale' = FALSE
    /\ UNCHANGED <<shadow, txn, ledger, review, asked, file, call, stage, history>>

(* ExecutionLedger.from_dict.  Mutant: each run starts a ledger of its own. *)
ResumedAfresh(l) == EmptyLedger

Resumed(l) == l

(* The bootstrap node: begin_transaction or resume_editing, the request,   *)
(* and a controller on the session's ledger.                               *)
StartRun(need, needTest) ==
    /\ process = "idle" /\ txn # "blocked"
    /\ process' = "running"
    /\ asked' = [need |-> need, needTest |-> needTest]
    /\ ledger' = Resumed(session.ledger) /\ review' = ReviewOf(ledger')
    /\ IF txn = "open"
       THEN UNCHANGED <<shadow, txn, last, stale, tested, verdict>>
       ELSE /\ txn' = "open" /\ revision' = 0 /\ differs' = {}
            /\ last' = "none" /\ stale' = FALSE
            /\ tested' = -1 /\ verdict' = [c \in Checks |-> "none"]
    /\ file' = session
    /\ UNCHANGED <<session, call, stage, torn>>

(* A tool runs: only the shadow knows. *)
RunTool(c) ==
    /\ process = "running" /\ call = NoCall
    /\ c.changed # {} => revision < MaxRevisions
    /\ call' = c /\ stage' = "ran"
    /\ revision' = IF c.changed = {} THEN revision ELSE revision + 1
    /\ differs' = (differs \ c.changed) \cup c.kept
    /\ UNCHANGED <<txn, process, memory, file, history>>

(* The executor's flags after a call. *)
FlagsAfter(c) ==
    IF c.tool = "acceptance"
    THEN /\ last' = CASE c.raised -> "failed"
                      [] ~c.raised /\ c.changed # {} -> "none"
                      [] ~c.raised /\ c.changed = {} -> IF c.ok THEN "passed" ELSE "failed"
         /\ stale' = (c.changed # {})
    ELSE IF c.changed # {} /\ last # "none" THEN last' = "none" /\ stale' = TRUE
    ELSE UNCHANGED <<last, stale>>

(* The session's copy of the ledger, and what the request asked for once   *)
(* the call changed something.                                             *)
SessionAfter(c) ==
    session' = [ledger |-> ledger',
                need |-> session.need \/ (c.changed # {} /\ asked.need),
                needTest |-> session.needTest \/ (c.changed # {} /\ asked.needTest)]

(* Any later mutation reopens the review.  Mutant: it does not. *)
ReviewKept(c) == review \/ (Passed(c) /\ ledger'.mutated)

ReviewAfter(c) == IF Passed(c) /\ ledger'.mutated THEN TRUE ELSE review /\ c.changed = {}

(* The call returns: flags, observe() and _finalize(). *)
Return ==
    /\ stage = "ran"
    /\ stage' = "returned"
    /\ FlagsAfter(call)
    /\ ledger' = Observed(ledger, call)
    /\ review' = ReviewAfter(call)
    /\ SessionAfter(call)
    /\ IF call.tool = "acceptance"
       THEN /\ verdict' = [verdict EXCEPT ![call.check] = IF Passed(call) THEN "passed" ELSE "failed"]
            /\ tested' = IF Passed(call) THEN revision ELSE tested
       ELSE UNCHANGED <<verdict, tested>>
    /\ UNCHANGED <<shadow, txn, process, asked, file, call, torn>>

(* record_model_events and record save the session. *)
Save ==
    /\ stage = "returned"
    /\ file' = session /\ call' = NoCall /\ stage' = "none"
    /\ UNCHANGED <<shadow, txn, process, memory, history>>

(* The run ends; nothing of the call under way is kept. *)
Leave(where) == process' = where /\ call' = NoCall /\ stage' = "none"

(* A call whose effect outlives its record. *)
Tear == torn < MaxTorn /\ torn' = torn + 1

(* KeyboardInterrupt: run() closes the run, which saves the session. *)
Interrupt ==
    /\ process = "running"
    /\ Leave("idle")
    /\ IF stage = "ran" /\ call.changed # {} THEN Tear ELSE UNCHANGED torn
    /\ file' = session
    /\ UNCHANGED <<shadow, txn, memory, tested, verdict>>

(* The process is killed: its memory is gone. *)
Kill ==
    /\ process # "down"
    /\ Leave("down")
    /\ IF stage = "returned" \/ (stage = "ran" /\ call.changed # {}) THEN Tear
       ELSE UNCHANGED torn
    /\ ledger' = EmptyLedger /\ review' = FALSE /\ last' = "none" /\ stale' = FALSE
    /\ asked' = NothingAsked /\ session' = EmptySession
    /\ UNCHANGED <<shadow, txn, file, tested, verdict>>

(* _restore_source_view(clear_context=True) *)
ClearEvidence ==
    /\ session' = EmptySession /\ file' = EmptySession
    /\ UNCHANGED <<last, stale, asked>>

(* finalize_transaction at the end of a run: delivered, sent back for      *)
(* repair, or blocked for good.                                            *)
Deliver ==
    /\ process = "running" /\ call = NoCall
    /\ Leave("idle")
    /\ LET reason == Reason(differs) IN
       IF reason = ""
       THEN txn' = "committed" /\ ClearEvidence
       ELSE /\ txn' = IF reason \in Repairable THEN "open" ELSE "blocked"
            /\ UNCHANGED <<session, file, last, stale, asked>>
    /\ UNCHANGED <<shadow, ledger, review, history>>

(* discard_transaction *)
Discard ==
    /\ process = "idle" /\ txn \in {"open", "blocked"}
    /\ txn' = "none" /\ ClearEvidence
    /\ UNCHANGED <<shadow, process, ledger, review, call, stage, history>>

Next ==
    \/ Open \/ Return \/ Save \/ Interrupt \/ Kill \/ Deliver \/ Discard
    \/ \E need, needTest \in BOOLEAN : StartRun(need, needTest)
    \/ \E c \in Calls : RunTool(c)

Spec == Init /\ [][Next]_vars

-----------------------------------------------------------------------------
(* Properties *)

LedgerOK(l) ==
    /\ l.unverified \subseteq Paths /\ l.failures \subseteq Checks /\ l.mutated \in BOOLEAN
    /\ Len(l.validations) <= MaxValidations

(* Every variable keeps its type; the windows of the ledger (pico/progress/ *)
(* progress_controller.py:165) are bounded in memory and in the file.      *)
TypeOK ==
    /\ revision \in 0..MaxRevisions /\ differs \subseteq Paths
    /\ txn \in {"none", "open", "blocked", "committed"}
    /\ process \in {"down", "idle", "running"}
    /\ LedgerOK(ledger) /\ LedgerOK(session.ledger) /\ LedgerOK(file.ledger)
    /\ Cardinality(ledger.unverified) <= MaxUnverified
    /\ review \in BOOLEAN /\ stale \in BOOLEAN /\ last \in {"none", "passed", "failed"}
    /\ asked \in [need: BOOLEAN, needTest: BOOLEAN]
    /\ call \in Calls \cup {NoCall} /\ stage \in {"none", "ran", "returned"}
    /\ tested \in -1..revision /\ torn \in 0..MaxTorn

Delivers == txn = "open" /\ txn' = "committed"

(* What is delivered under a request that wants validation is the code the *)
(* last passing acceptance check ran on, whatever edits, failing checks,   *)
(* new runs and restarts between the calls came before it                  *)
(* (pico/runtime/pico_runtime.py:692 verification_failure_reason).  An     *)
(* interrupt inside an editing tool (MaxTorn > 0) breaks it.               *)
DeliveredIsTested ==
    [][Delivers /\ differs # {} /\ (session.need \/ asked.need) => tested = revision]_vars

(* Nothing is delivered while the last word of any check of the            *)
(* transaction is a failure, also one of an earlier run or process.        *)
NoFailureDelivered ==
    [][Delivers => \A c \in Checks : verdict[c] # "failed"]_vars

(* The delivery review, which ends the run at the next successful tool     *)
(* call, is pending only for the code that passed its check.               *)
ReviewIsCurrent == review /\ stage # "ran" => tested = revision
=============================================================================
