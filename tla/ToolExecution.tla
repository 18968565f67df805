--------------------------- MODULE ToolExecution ---------------------------
(***************************************************************************)
(* One tool call from the model's request to the recorded result:          *)
(* ToolExecutor.execute (pico/tools/tool_executor.py) with the mutating    *)
(* tools it runs - write_file, patch_file, apply_patch (patch_set.py) -    *)
(* and the commands of run_shell and run_verification, which              *)
(* pico/execution/command_runner.py runs in a process group of their own.  *)
(*                                                                         *)
(* The calls of a run come one after the other, but the files are shared   *)
(* with the processes of a command, some of which may outlive it.  A write *)
(* can fail half way, the user can interrupt, a command can hang.          *)
(*                                                                         *)
(* Simplifications:                                                        *)
(*   - the answers of the validators and of the controller's preflight are *)
(*     part of the request: EvidenceGate models the latter;                *)
(*   - read-only tools are one tool, which touches nothing;                *)
(*   - an interrupt is delivered at the prompt, in a wait, in a write and  *)
(*     behind them, not between two statements of the executor;            *)
(*   - a failed or interrupted write leaves the old text, or a prefix of   *)
(*     the new one, of which Torn is the empty one;                        *)
(*   - a command overwrites files with one text, CommandText;              *)
(*   - one test artifact, TestPath, stands for the pending tests;          *)
(*   - a test report, of a command or of a process that escaped an earlier *)
(*     one, covers TestPath.                                               *)
(***************************************************************************)
EXTENDS PatchText, Selection, FiniteSets

CONSTANTS
    Paths, TestPath,
    InitialText,           \* [Paths -> texts]
    CommandText,           \* what a command writes
    Edits,                 \* edits the model may ask for: [path, old, new]
    AllowedTools,          \* agent.allowed_tools
    Terms,                 \* what a turn may permit
    MaxCalls, MaxFaults, MaxInterrupts, MaxEscapes  \* bounds

ASSUME PathsAssumption == IsFiniteSet(Paths) /\ TestPath \in Paths
ASSUME TextAssumption == InitialText = [p \in Paths |-> InitialText[p]]
ASSUME TermsAssumption ==
    Terms \subseteq [readOnly: BOOLEAN, mutation: BOOLEAN, protected: SUBSET Paths,
                    approval: {"auto", "ask", "never"}]
ASSUME EditsAssumption == \A e \in Edits : e.path \in Paths /\ e.old # <<>>
ASSUME BoundsAssumption == {MaxCalls, MaxFaults, MaxInterrupts, MaxEscapes} \subseteq Nat

Torn == <<>>
Tools == {"read", "write_file", "patch_file", "apply_patch", "run_shell", "run_verification"}
Risky == Tools \ {"read"}
Commands == {"run_shell", "run_verification"}

(* Requests.  write_file writes the new text of an edit, whatever is there *)
(* now; a command may need the node dependencies; a verification whose     *)
(* runner writes no XML reports may name the changed tests in its argv.    *)
Calls ==
    {c \in [tool: Tools, edits: {<<>>} \cup {<<e>> : e \in Edits} \cup (Edits \X Edits),
            node: BOOLEAN, selects: BOOLEAN] :
        /\ c.tool \in {"write_file", "patch_file"} => Len(c.edits) = 1
        /\ c.tool = "apply_patch" => c.edits # <<>>
        /\ c.tool \in Commands \cup {"read"} => c.edits = <<>>
        /\ c.node => c.tool \in Commands
        /\ c.selects => c.tool = "run_verification"}

NoCall == [tool |-> "read", edits |-> <<>>, node |-> FALSE, selects |-> FALSE]
NoResult == [status |-> "none", code |-> "", changed |-> {}]

VARIABLES
    file,       \* the texts of the shadow workspace
    terms,      \* of the turn: read_only, mutation_allowed, protected paths, approval
    pc, call, result,
    before,     \* before_snapshot
    plan,       \* texts to write, by path
    original,   \* the documents the plan was made from
    attempted,  \* files of the plan that were touched and not restored
    trouble,    \* the exception under way: none, error, timeout or interrupt
    unrestored, \* history: a rollback could not restore a file
    main, group, \* the command's process and a child in its group are alive
    daemon,     \* a descendant that left the group: none, holds (a pipe) or detached
    exit,       \* exit status of the command: 0 or 1
    report,     \* signature of the test report
    probe,      \* its signature when the verification began
    pending,    \* tests the workspace had changed then
    deps,       \* node_modules of the shadow: absent, partial or whole
    accounted,  \* history: the texts, as far as results told of their changes
    tested,     \* history: the command ran the tests
    calls, faults, interrupts, escapes

document == <<plan, original, attempted>>
command == <<main, group, exit, probe, pending, tested>>
bounds == <<calls, faults, interrupts, escapes>>
vars ==
    <<file, terms, pc, call, result, before, document, trouble, unrestored, command, daemon,
      report, deps, accounted, bounds>>

Init ==
    /\ file = InitialText /\ accounted = InitialText /\ before = InitialText
    /\ terms \in Terms
    /\ pc = "idle" /\ call = NoCall /\ result = NoResult
    /\ plan = <<>> /\ original = <<>> /\ attempted = {}
    /\ trouble = "none" /\ unrestored = FALSE
    /\ main = FALSE /\ group = FALSE /\ daemon = "none" /\ exit = 0
    /\ report = 0 /\ probe = 0 /\ pending = {} /\ deps = "absent" /\ tested = FALSE
    /\ calls = 0 /\ faults = 0 /\ interrupts = 0 /\ escapes = 0

-----------------------------------------------------------------------------
(* The gates of execute(), in its order *)

MutationPaths(c) == {c.edits[i].path : i \in DOMAIN c.edits}

(* The code of the first gate that turns the call down; valid and fresh    *)
(* are the verdicts of validate_tool and of the controller's preflight.    *)
Refusal(c, valid, fresh) ==
    CASE c.tool \notin AllowedTools -> "tool_not_allowed"
      [] c.tool \in AllowedTools /\ c.tool \in Risky /\ ~terms.mutation -> "interaction_read_only"
      [] c.tool \in AllowedTools /\ (c.tool \in Risky => terms.mutation)
         /\ MutationPaths(c) \cap terms.protected # {} -> "scope_constraint"
      [] OTHER -> IF ~valid THEN "invalid_arguments"
                  ELSE IF ~fresh THEN "repeated_no_progress" ELSE ""

(* The result reaches the ledger and the session through _finalize.        *)
Conclude(status, code, changed) ==
    /\ result' = [status |-> status, code |-> code, changed |-> changed]
    /\ accounted' = [p \in Paths |-> IF p \in changed THEN file[p] ELSE accounted[p]]
    /\ pc' = "idle" /\ trouble' = "none"

Request(c, valid, fresh) ==
    /\ pc = "idle" /\ calls < MaxCalls
    /\ call' = c /\ calls' = calls + 1
    /\ plan' = <<>> /\ original' = <<>> /\ attempted' = {}
    /\ tested' = FALSE /\ exit' = 0 /\ probe' = report /\ pending' = {} /\ before' = file
    /\ LET code == Refusal(c, valid, fresh)
       IN  \/ code # "" /\ Conclude("rejected", code, {})
           \/ code = "" /\ c.tool \notin Risky /\ Conclude("ok", "", {})
           \/ code = "" /\ c.tool \in Risky /\ pc' = "asking" /\ result' = NoResult
              /\ UNCHANGED <<accounted, trouble>>
    /\ UNCHANGED <<file, terms, unrestored, main, group, daemon, report, deps, faults, interrupts,
                   escapes>>

(* approve(): a delegate is read only, "never" and an end of file deny.    *)
Answers ==
    IF terms.readOnly \/ terms.approval = "never" THEN {FALSE}
    ELSE IF terms.approval = "auto" THEN {TRUE} ELSE BOOLEAN

Approve ==
    /\ pc = "asking"
    /\ \/ /\ TRUE \in Answers
          /\ before' = file
          /\ pc' = IF call.tool \in Commands THEN "starting" ELSE "planning"
          /\ UNCHANGED <<result, accounted, trouble>>
       \/ FALSE \in Answers /\ Conclude("rejected", "approval_denied", {}) /\ UNCHANGED before
    /\ UNCHANGED <<file, terms, call, document, unrestored, command, daemon, report, deps, bounds>>

-----------------------------------------------------------------------------
(* write_file, patch_file and apply_patch *)

EditsOf(p) == Picked(call.edits, {i \in DOMAIN call.edits : call.edits[i].path = p})

Admissible ==
    IF call.tool = "write_file" THEN TRUE
    ELSE \A p \in MutationPaths(call) : Plannable(file[p], EditsOf(p))

(* Every edit is matched against the text before the first file is         *)
(* touched.                                                                *)
PlanEdits ==
    /\ pc = "planning"
    /\ IF Admissible
       THEN /\ plan' = [p \in MutationPaths(call) |->
                           IF call.tool = "write_file" THEN call.edits[1].new
                           ELSE Patched(file[p], EditsOf(p))]
            /\ original' = [p \in MutationPaths(call) |-> file[p]]
            /\ pc' = "writing" /\ UNCHANGED trouble
       ELSE pc' = "failing" /\ trouble' = "error" /\ UNCHANGED <<plan, original>>
    /\ UNCHANGED <<file, terms, call, result, before, attempted, unrestored, command, daemon,
                   report, deps, accounted, bounds>>

Pending == DOMAIN plan \ attempted

Write(p) ==
    /\ pc = "writing" /\ p \in Pending
    /\ file' = [file EXCEPT ![p] = plan[p]]
    /\ IF Pending = {p} THEN pc' = "returning" /\ attempted' = {}
       ELSE attempted' = attempted \cup {p} /\ UNCHANGED pc
    /\ UNCHANGED <<terms, call, result, before, plan, original, trouble, unrestored, command,
                   daemon, report, deps, accounted, bounds>>

(* The file whose write failed is among the attempted ones.  Mutant: it is *)
(* noted after the write, and not restored.                                *)
AttemptedBefore(p) == attempted

AttemptedWith(p) == attempted \cup {p}

(* Only commit_patch_set restores.  Mutant: patch_file does, too. *)
PatchesRollBack == call.tool # "write_file"

RollsBack == call.tool = "apply_patch"

(* A failing write: patch sets are rolled back, whatever the exception is; *)
(* write_file and patch_file leave what they wrote.                        *)
WriteFails(p) ==
    /\ pc = "writing" /\ p \in Pending
    /\ \E text \in {file[p], Torn} : file' = [file EXCEPT ![p] = text]
    /\ \/ faults < MaxFaults /\ trouble' = "error" /\ faults' = faults + 1
          /\ UNCHANGED interrupts
       \/ interrupts < MaxInterrupts /\ trouble' = "interrupt" /\ interrupts' = interrupts + 1
          /\ UNCHANGED faults
    /\ IF RollsBack
       THEN pc' = "restoring" /\ attempted' = AttemptedWith(p)
       ELSE pc' = (IF trouble' = "error" THEN "failing" ELSE "stopped") /\ UNCHANGED attempted
    /\ UNCHANGED <<terms, call, result, before, plan, original, unrestored, command, daemon,
                   report, deps, accounted, calls, escapes>>

Restore(p) ==
    /\ pc = "restoring" /\ p \in attempted
    /\ file' = [file EXCEPT ![p] = original[p]]
    /\ attempted' = attempted \ {p}
    /\ UNCHANGED <<terms, pc, call, result, before, plan, original, trouble, unrestored, command,
                   daemon, report, deps, accounted, bounds>>

RestoreFails(p) ==
    /\ pc = "restoring" /\ p \in attempted /\ faults < MaxFaults
    /\ \E text \in {file[p], Torn} : file' = [file EXCEPT ![p] = text]
    /\ attempted' = attempted \ {p} /\ unrestored' = TRUE /\ faults' = faults + 1
    /\ UNCHANGED <<terms, pc, call, result, before, plan, original, trouble, command, daemon,
                   report, deps, accounted, calls, interrupts, escapes>>

(* What commit_patch_set raises when the rollback is over: a RuntimeError  *)
(* for files it could not restore - also in the place of an interrupt.     *)
RaiseAgain ==
    /\ pc = "restoring" /\ attempted = {}
    /\ pc' = IF unrestored \/ trouble # "interrupt" THEN "failing" ELSE "stopped"
    /\ UNCHANGED <<file, terms, call, result, before, document, trouble, unrestored, command,
                   daemon, report, deps, accounted, bounds>>

-----------------------------------------------------------------------------
(* run_shell and run_verification *)

(* pending_test_paths: the changes of the workspace that are tests.        *)
Tests == IF file[TestPath] # InitialText[TestPath] THEN {TestPath} ELSE {}

(* The probe of a verification notes the pending tests and the reports;    *)
(* then Popen in a new session, after the dependencies were copied on      *)
(* first use: whatever the copy left there counts as copied.               *)
Start ==
    /\ pc = "starting"
    /\ \/ /\ main' = TRUE /\ probe' = report /\ pending' = Tests /\ pc' = "waiting"
          /\ deps' = IF call.node /\ deps = "absent" THEN "whole" ELSE deps
          /\ UNCHANGED <<trouble, faults>>
       \/ /\ faults < MaxFaults /\ faults' = faults + 1
          /\ pc' = "failing" /\ trouble' = "error" /\ UNCHANGED <<main, probe, pending>>
          /\ deps' \in IF call.node /\ deps = "absent" THEN {"absent", "partial"} ELSE {deps}
    /\ UNCHANGED <<file, terms, call, result, before, document, unrestored, group, exit, tested,
                   daemon, report, accounted, calls, interrupts, escapes>>

Still == UNCHANGED <<terms, pc, call, result, before, document, trouble, unrestored, probe,
                     pending, deps, accounted, calls, faults, interrupts>>

CommandWrites(p) ==
    /\ main \/ group
    /\ file' = [file EXCEPT ![p] = CommandText]
    /\ Still /\ UNCHANGED <<main, group, exit, tested, daemon, report, escapes>>

CommandTests ==
    /\ main /\ ~tested /\ tested' = TRUE /\ report' = report + 1
    /\ Still /\ UNCHANGED <<file, main, group, exit, daemon, escapes>>

CommandForks ==
    /\ main /\ ~group /\ group' = TRUE
    /\ Still /\ UNCHANGED <<file, main, exit, tested, daemon, report, escapes>>

CommandEscapes(pipe) ==
    /\ main /\ daemon = "none" /\ escapes < MaxEscapes
    /\ daemon' = pipe /\ escapes' = escapes + 1
    /\ Still /\ UNCHANGED <<file, main, group, exit, tested, report>>

CommandExits(status) ==
    /\ main /\ main' = FALSE /\ exit' = status
    /\ Still /\ UNCHANGED <<file, group, tested, daemon, report, escapes>>

DaemonWrites(p) ==
    /\ daemon # "none" /\ file' = [file EXCEPT ![p] = CommandText]
    /\ Still /\ UNCHANGED <<main, group, exit, tested, daemon, report, escapes>>

(* It may also write a report while a later call runs.  A second one in    *)
(* the same call is a second one to no probe.                              *)
DaemonTests ==
    /\ daemon # "none" /\ report = probe /\ report' = report + 1
    /\ Still /\ UNCHANGED <<file, main, group, exit, tested, daemon, escapes>>

DaemonEnds ==
    /\ daemon # "none" /\ daemon' = "none"
    /\ Still /\ UNCHANGED <<file, main, group, exit, tested, report, escapes>>

(* process.wait: the command ends, or its time is up.  Mutant: no timeout. *)
Awaited == ~main

AwaitedOrLate == TRUE

Wait ==
    /\ pc = "waiting" /\ AwaitedOrLate /\ pc' = "killing"
    /\ trouble' = IF main THEN "timeout" ELSE trouble
    /\ UNCHANGED <<file, terms, call, result, before, document, unrestored, command, daemon,
                   report, deps, accounted, bounds>>

(* killpg of the finally clause, also after a command that ended itself.   *)
Kill ==
    /\ pc = "killing" /\ pc' = "draining"
    /\ main' = FALSE /\ group' = FALSE
    /\ UNCHANGED <<file, terms, call, result, before, document, trouble, unrestored, exit, probe,
                   pending, tested, daemon, report, deps, accounted, bounds>>

(* What ends the wait ends the call.  Mutant: the interrupt is lost.       *)
AfterPipesTimed == IF trouble = "timeout" THEN "failing" ELSE "returning"

AfterPipes ==
    CASE trouble = "interrupt" -> "stopped"
      [] trouble = "timeout" -> "failing"
      [] OTHER -> "returning"

(* The readers end with the last writer of their pipes.  After the grace   *)
(* the stream is closed, which waits for the reader that is blocked on it. *)
PipeOpen == main \/ group \/ daemon = "holds"

Drain ==
    /\ pc = "draining"
    /\ pc' = IF PipeOpen THEN "closing" ELSE AfterPipes
    /\ UNCHANGED <<file, terms, call, result, before, document, trouble, unrestored, command,
                   daemon, report, deps, accounted, bounds>>

Close ==
    /\ pc = "closing" /\ ~PipeOpen /\ pc' = AfterPipes
    /\ UNCHANGED <<file, terms, call, result, before, document, trouble, unrestored, command,
                   daemon, report, deps, accounted, bounds>>

(* An interrupt at the prompt, in the wait, while the pipes are drained or *)
(* closed, or in a rollback.                                               *)
Interrupt ==
    /\ interrupts < MaxInterrupts /\ interrupts' = interrupts + 1
    /\ pc \in {"asking", "waiting", "draining", "closing", "restoring", "returning", "failing"}
    /\ trouble' = "interrupt"
    /\ pc' = CASE pc = "waiting" -> "killing"
               [] pc = "closing" -> "closing"
               [] OTHER -> "stopped"
    /\ UNCHANGED <<file, terms, call, result, before, document, unrestored, command, daemon,
                   report, deps, accounted, calls, faults, escapes>>

-----------------------------------------------------------------------------
(* The result *)

Changed == {p \in Paths : before[p] # file[p]}

(* finish(): a report covers tests if it is not the one from before; so    *)
(* does an argv that names them.  Mutant: any report does.                 *)
AnyReport == report # 0

NewReport == report # probe

Missing == IF NewReport \/ call.selects THEN {} ELSE pending

(* What the except clause reports.  Mutant: an exception changes nothing.  *)
NothingAfterError == {}

ChangedAfterError == Changed

Return ==
    /\ pc = "returning"
    /\ \/ /\ faults < MaxFaults /\ faults' = faults + 1  \* enforce_storage_limit
          /\ pc' = "failing" /\ trouble' = "error" /\ UNCHANGED <<result, accounted>>
       \/ /\ UNCHANGED faults
          /\ CASE call.tool \in Commands /\ exit # 0 ->
                     Conclude(IF Changed # {} THEN "partial_success" ELSE "error",
                              IF Changed # {} THEN "tool_partial_success" ELSE "tool_failed",
                              Changed)
               [] call.tool = "run_verification" /\ exit = 0 /\ Missing # {} ->
                     Conclude("error", "verification_incomplete", Changed)
               [] OTHER -> Conclude("ok", "", Changed)
    /\ UNCHANGED <<file, terms, call, before, document, unrestored, command, daemon, report, deps,
                   calls, interrupts, escapes>>

Fail ==
    /\ pc = "failing"
    /\ LET changed == ChangedAfterError
       IN  Conclude(IF changed # {} THEN "partial_success" ELSE "error",
                    IF changed # {} THEN "tool_partial_success" ELSE "tool_failed", changed)
    /\ UNCHANGED <<file, terms, call, before, document, unrestored, command, daemon, report, deps,
                   bounds>>

Ended ==
    /\ pc = "stopped" \/ (pc = "idle" /\ calls = MaxCalls)
    /\ UNCHANGED vars

Runner ==
    \/ PlanEdits
    \/ \E p \in Paths : Write(p) \/ Restore(p)
    \/ RaiseAgain \/ Start \/ Wait \/ Kill \/ Drain \/ Close \/ Return \/ Fail

Next ==
    \/ \E c \in Calls, valid, fresh \in BOOLEAN : Request(c, valid, fresh)
    \/ Approve \/ Runner \/ Interrupt \/ Ended
    \/ \E p \in Paths : WriteFails(p) \/ RestoreFails(p) \/ CommandWrites(p) \/ DaemonWrites(p)
    \/ CommandTests \/ CommandForks \/ DaemonTests \/ DaemonEnds
    \/ \E pipe \in {"holds", "detached"} : CommandEscapes(pipe)
    \/ \E status \in {0, 1} : CommandExits(status)

(* The runner's own steps happen; nobody promises that a prompt is         *)
(* answered or that a process outside the group ends.                      *)
Spec == Init /\ [][Next]_vars /\ WF_vars(Runner)

-----------------------------------------------------------------------------
(* Properties *)

(* Types of the state. *)
TypeOK ==
    /\ DOMAIN file = Paths /\ DOMAIN accounted = Paths /\ DOMAIN before = Paths
    /\ terms \in Terms
    /\ pc \in {"idle", "asking", "planning", "writing", "restoring", "starting", "waiting",
               "killing", "draining", "closing", "returning", "failing", "stopped"}
    /\ call \in Calls
    /\ result.status \in {"none", "rejected", "ok", "error", "partial_success"}
    /\ result.changed \subseteq Paths
    /\ DOMAIN plan = DOMAIN original /\ DOMAIN plan \subseteq Paths
    /\ attempted \subseteq DOMAIN plan /\ (pc = "restoring" => call.tool = "apply_patch")
    /\ trouble \in {"none", "error", "timeout", "interrupt"}
    /\ unrestored \in BOOLEAN /\ main \in BOOLEAN /\ group \in BOOLEAN /\ tested \in BOOLEAN
    /\ daemon \in {"none", "holds", "detached"} /\ exit \in {0, 1}
    /\ report \in Nat /\ probe \in 0 .. report /\ pending \subseteq {TestPath}
    /\ deps \in {"absent", "partial", "whole"}
    /\ calls \in 0 .. MaxCalls /\ faults \in 0 .. MaxFaults
    /\ interrupts \in 0 .. MaxInterrupts /\ escapes \in 0 .. MaxEscapes

(* A patch set is applied as a whole or not at all, also when a write      *)
(* fails or the user interrupts it; what it applies is every edit on the   *)
(* text it was matched on.  Excepted are a rollback that reported its      *)
(* failure and one that a further interrupt cut short.                     *)
PatchAtomic ==
    (/\ pc \in {"idle", "stopped"} /\ call.tool = "apply_patch" /\ escapes = 0
     /\ ~unrestored /\ attempted = {}) =>
        \/ \A p \in DOMAIN plan : file[p] = Replaced(original[p], EditsOf(p))
        \/ \A p \in DOMAIN plan : file[p] = original[p]

(* Between two calls nothing in the files is unaccounted for: every change *)
(* was reported as workspace_changed by the call that made it, also by     *)
(* calls that failed, timed out or were only partly undone.                *)
ChangesReported == pc = "idle" /\ escapes = 0 => accounted = file

(* An interrupt stops the turn: the executor takes no further call, unless *)
(* the failed rollback of a patch set hid the interrupt behind its error.  *)
InterruptObeyed == pc = "idle" /\ interrupts > 0 => unrestored

(* A verification that is accepted although a test had been changed before *)
(* it ran tests, or named the changed test to a runner without reports:    *)
(* the report of an earlier command is never its evidence.  Excepted are   *)
(* the reports of processes that escaped their command.                    *)
EvidenceOfThisRun ==
    (/\ pc = "idle" /\ call.tool = "run_verification" /\ result.status = "ok"
     /\ before[TestPath] # InitialText[TestPath] /\ escapes = 0) => tested \/ call.selects

(* A call that was approved ends, whatever its command does, and no        *)
(* process of the command's group is left, unless a process outside the    *)
(* group keeps a pipe open.                                                *)
CallEnds ==
    pc \in {"planning", "starting"}
        ~> ((pc \in {"idle", "stopped"} /\ ~main /\ ~group) \/ daemon = "holds")
=============================================================================
