# A TLA+ model of pico

pico is a coding agent.  It runs a model in a loop, lets it edit a *shadow* copy
of the user's source tree, checks what it did, and at the end either commits the
change set into the source tree through a journal, hands it to the user for
review, or throws it away.  Sessions, runs and transactions live in files, so
that a process that was killed can be followed by another one.

This directory models the parts of pico that decide **what reaches the user's
source tree, on what evidence, and what is left when something goes wrong on the
way**.  The model checker TLC explores every interleaving on small instances;
the TLA+ proof system TLAPS proves the most important properties for every value
of the constants.

## 1. The system

### 1.1 Parts and how they interact

```
 command line ──► Pico facade ──► agent graph ──► model provider
 (cli)            (pico_runtime)  (agent_graph,    (clients, policy)
                     │  │  │       action turn,
                     │  │  │       finalization)
        session ◄────┘  │  └──► delivery lifecycle ──► transactional workspace
        store           │       (delivery_runtime,     (shadow, manifests,
        run store ◄─────┘        bootstrap_runtime)     journal, recovery)
        (record, lease)                                     ▲
                                   tool executor ───────────┘ edits the shadow
                                        │
                                        ▼
                                   progress controller (execution ledger)
                                   verification evidence
```

* A **call** `ask()` takes the lease of a run, opens or resumes the session's
  transaction, and runs the graph in the calling thread.
* The graph calls the model, and the **tool executor** for each tool call of the
  answer.  A tool writes into the shadow, or runs a command in it.  When it has
  returned, the executor updates its flags and the **progress controller** its
  ledger; the session is saved afterwards.
* Each request to the model is permitted by the **execution policy** and posted,
  several times if need be, by a **provider**.  What it shows of the source is a
  **projection** of the session's events; the controller refuses to read again
  what the last request showed.
* The session also carries file summaries, notes and checkpoints.  **Durable
  facts** live in files of the workspace state, shared by all its sessions.
* `finalize_transaction()` stages the change set, asks
  `verification_failure_reason()` whether the evidence allows a delivery, and
  commits, waits for review, or blocks.
* Nothing is shared in memory between processes.  They meet in the files of the
  session store (revision checked at every save), the run store (a lock file per
  run), and the transaction directories and durable facts (no lock).

### 1.2 Inventory

| component | state it keeps | operations | what is hard | what makes it correct |
|---|---|---|---|---|
| transactional workspace (`workspace/transactional_workspace.py`, `git_support.py`, `transaction_context.py`) | manifests of source and shadow, transaction record, staged manifest, commit journal, recovery copies, both trees | begin, stage, validate, commit, rollback, block, interrupt, resume, load, discard | crash or failed write between any two writes; user edits; a failure of the rollback itself | all of a reviewed change set or none of it reaches the source; no original is lost; an uncertain commit is never reopened |
| delivery lifecycle (`runtime/pico_runtime.py`, `bootstrap_runtime.py`, `delivery_runtime.py`) | session pointer, transaction context, current run, run record | restore, orphan recovery, ask, bind, finalize, apply, discard, abort | crash between the writes of three stores; two processes; stale copies | a run's report tells the truth; undelivered work stays reachable; every orphan is closed |
| run store and lease (`persistence/run_store.py`, `file_lock.py`) | task_state.json, owner.lock, trace, report | start, write, claim orphans | record read before the lease is taken | nobody closes a run in execution |
| session store (`persistence/session_store.py`) | session file, its backup and revision | load, save, recover | two writers; crash between backup and file | no lost update |
| checkpoint store (`persistence/checkpoint_store.py`) | checkpoint in the session | create, compare | stale checkpoint at resume | a checkpoint is only trusted for the workspace it describes |
| state root (`persistence/state_root.py`) | directories | ensure | – | – |
| agent graph (`runtime/agent_graph_runtime.py`, `agent_loop_runtime.py`, `action_turn_runtime.py`, `finalization_runtime.py`, `model_turn_runtime.py`, `tool_turn_runtime.py`, `completion_runtime.py`) | attempts, tool steps, failures, deferral, batch, finalization state | bootstrap, action turn, tool calls, finalization turn, deliver, stop | several budgets and a framework limit; batches; exceptions | it ends inside every budget and delivers what it verified |
| model protocol, grounding (`runtime/model_protocol_runtime.py`, `repository_grounding_runtime.py`) | – | parse, look up | text | – |
| progress controller (`progress/progress_controller.py`) | execution ledger, discovery budgets, delivery review | observe, mark, restore | windows that evict; evidence across runs | evidence is never newer than it says |
| verification evidence and feedback (`progress/verification_evidence.py`, `verification_feedback.py`) | validations, flags | classify, record, retire, decide | flags and ledger disagree; restart resets the flags only | only verified code is delivered |
| tool registry, executor, context (`tools/*.py`) | flags, approvals, snapshots | admit, run, observe | exception or interrupt inside a tool | the evidence learns of every edit |
| patch set (`tools/patch_set.py`) | – | plan, apply | failure between two files | all files or none |
| command runner (`execution/command_runner.py`) | process tree | run, time out, kill | children that outlive their timeout | no process outlives its call |
| model execution policy (`execution/model_execution_policy.py`) | recoveries, token budgets | permit | interaction with the graph's budgets | bounded requests |
| providers (`providers/clients.py`) | – | request, retry | timeouts below the graph's own retries | bounded retries |
| session state of the runtime (`runtime/session_state_runtime.py`) | session dictionary | normalise, trim | old formats | shape |
| task state, run outcome (`domain/task_state.py`, `run_outcome.py`) | status, stop reason, delivered paths | finish, stop, recover | – | one final status |
| work plan (`domain/work_plan.py`) | items, their status | update, bind calls | a plan that is written again in other words | a decision stays made |
| interaction policy (`domain/interaction_policy.py`) | – | classify a request | text | – |
| context assembly (`context/*.py`) | events, observations, working set | group, project, compact | compaction and later runs against what the controller thinks was shown | a refused read is shown; what is shown is current |
| memory (`memory/*.py`) | summaries, notes, durable facts (index, records, topics) | remember, invalidate, promote | three files written without a lock; notes that outlive their summary | no prompt shows a note of older source; the latest fact is the active one |
| secret boundary (`security/secret_boundary.py`) | registered secrets | redact | – | – |
| repository intelligence, text documents (`workspace/repository_*.py`, `text_document.py`) | indexes | build, query | – | – |
| command line (`cli/*.py`) | – | ask, apply, discard, show | states no command leaves | – |
| evaluation, scripts, utilities | – | offline | – | – |

`PROJECT.json` lists every component with its sources and whether it is
modelled, and under `hazards` each place where the code is exposed to something a
test would hardly reach, with the property that covers it.

## 2. The modules

| module | what it is |
|---|---|
| `TransactionalWorkspace` | one transaction, write by write |
| `AtomicDelivery` | abstract specification: what the workspace promises about the source tree |
| `TransactionalDelivery` | the refinement mapping between the two |
| `TransactionalWorkspaceProofs` | types, control, what a commit delivers, keeps and puts back, and the refinement |
| `DeliveryLifecycle`, `DeliveryLifecycleProofs` | processes, sessions, runs, leases and transactions |
| `VerificationLedger` | the evidence a delivery is decided on |
| `AgentLoop` | the graph of one run |
| `ModelRequests` | the same run with its requests, posts and recoveries; it implements `AgentLoop` |
| `AgentLoopProofs` | the budgets, deliveries and requests of a run |
| `PatchText` | what a set of edits makes of a text |
| `ToolExecution`, `ToolExecutionProofs` | one tool call after the other, with its processes |
| `VerificationLedgerProofs` | what is delivered was tested |
| `EvidenceGate`, `EvidenceGateProofs` | what a request shows of the source, and which reads are refused |
| `SessionMemory`, `SessionMemoryProofs` | the session file, its notes and the durable facts, write by write |
| `Selection` | the elements of a sequence at chosen positions, which three modules use |
| `RecursionLemmas` | induction and recursion over `0 .. n` with sets and functions, for the proofs |
| `MC…` | the values of the constants for TLC |

The behavioural modules are views of one system at several scales.
`TransactionalWorkspace` is the inside of a transaction, which `DeliveryLifecycle`
sees as a shadow that is clean, edited or gone, and a commit of a few steps.
`VerificationLedger` is the inside of the answer `verification_failure_reason()`,
which `AgentLoop` sees as one bit, and `DeliveryLifecycle` as a choice.
`ModelRequests` EXTENDS `AgentLoop` and refines its turns; `ToolExecution` is the
inside of `RunTool` and `Return` of the ledger.  `EvidenceGate` and `SessionMemory` are
what is carried from one request, and from one process, to the next.

### 2.1 TransactionalWorkspace

*State.*  The trees `source`, `shadow` and `recovery`; the two manifests of
`baseline.json`; `txn`, `staged` and `journal`, the JSON records; `state`, what the
process holds of the transaction; `pc`, where it is inside an operation;
`completed`, the list `commit()` keeps of what it applied.  `user` and `late` are
history variables: the source tree as the user alone would have it, and the paths
that were written in the shadow after `commit()` had compared it with the staged
change set.

*Actions.*  One per write of the code:

| action | code |
|---|---|
| `BeginManifest`, `BeginCopy`, `BeginFails` | `begin()`: the source manifest, then the copy with secrets scrubbed and the record; a failure removes what was made |
| `Stage`, `Validate`, `BlockValidation`, `Interrupt`, `ResumeEditing` | the methods of that name, each with its `_persist` |
| `Decide` | the findings of `commit()`: staged change set against shadow, and conflicts |
| `CommitJournal`, `CommitRecord` | the journal with all operations, then the record |
| `Backup`, `Replace`, `Complete` | per operation: recovery copy, replacement in the source, journal update |
| `ApplyFails`, `FailJournal`, `Undo`, `UndoFails`, `RollbackDone` | an exception in `commit()` and `_rollback()`, which swallows its own failures |
| `SealJournal`, `SealRecord`, `Cleanup` | COMMITTED in the journal, in the record, removal of the shadow |
| `Discard`, `DiscardRemove` | record first, tree second |
| `Crash`, `Load` | the process ends anywhere; `load()` reconciles record and journal |
| `EditShadow`, `EditSource` | a tool, or a process that outlived its command, at any step; the user |

A write may fail (`MaxFaults` times).  A content stands for bytes, modification
time and mode; symbolic links and contents with a registered secret are told
apart because the code treats them differently.  `Normalized` is what
`_safe_relative` makes of a path.  Stopping the execution lease only clears a flag,
and a descendant that left its process group survives the kill, so the shadow may
be written while a commit compares it, lists its changes and copies from it.

*Abstract specification.*  `AtomicDelivery` has no records at all: a source, the
user's tree, a plan and a phase.  A delivery shows all of its plan, or puts the
user's tree back, or is in doubt and says so for ever.  It promises nothing of how a
path is put back that the delivery had not seen as the user had it (`seen`): one
that Git ignores, or that the user edited around the copy of `begin()`, is put back
as something else (section 5).  It promises nothing either of the content it gives a
path that somebody rewrites in the shadow meanwhile (`raced`).  `DeliversAtomically` is its specification under the
mapping of `TransactionalDelivery`, where the phase is computed from the journal and
the state a process holds, or would load, `seen` is what `begin()` saw and the conflict check
compared, and `raced` is `late`, both from the journal on.

### 2.2 DeliveryLifecycle

*State.*  Per session the pointer to its transaction; per transaction the record,
the journal, the staged manifest and the shadow; per run its record and lease;
per process its step, its context, the state of the workspace object it holds,
its current run, whether its copy of the session is the latest.

*Actions.*  `Start` and the `Open` group are start-up: `_restore_session_transaction`
(`Restore…`), orphan recovery run by run (`Examine` reads a record, `Claim` takes
the lease, `SettleOrphan` interrupts the transaction, `CloseOrphan` writes the run).
`Ask` and the `Bootstrap` group are the prologue of a run.  `Edit`,
`SaveSession(work)` and `Break` are the turns of the model.  The `Deliver` group is
`finalize_transaction` / `_commit_transaction` / `_restore_source_view`, and
`Halt`, `WriteRun`, `CloseAborted` the three ways a run is closed.  `Apply` and
`Discard` are the user's commands, `Quit` and `Crash` the ends of a process.  `author`
is history: the run whose finalization committed a change.

### 2.3 VerificationLedger

*State.*  The shadow as a revision number and the set of paths that differ; the
ledger of the run; the executor's flags `last` and `stale`; the requirements of
the request, in memory (`asked`) and in the session; the session in memory and
the session file; the tool call under way and how far it got.  `tested` and
`verdict` are history: the revision the last passing check ran on, and the last
word of every check.

*Actions.*  `RunTool` changes the shadow; `Return` updates flags, ledger, review
and session; `Save` writes the file.  `Interrupt` (a KeyboardInterrupt) ends the
run between any two of them and saves the session; `Kill` loses the memory.
`StartRun` restores the ledger and carries the requirements over as the code
does; `Deliver` evaluates `Reason`, which is `verification_failure_reason`, and
delivers, sends back or blocks.

### 2.4 AgentLoop

*State.*  The node to run, the framework's count of nodes, every counter of the
graph's state, the batch under way, and the evidence as two bits.  *Actions.*
`Bootstrap`; `ActionExhausted`, `ActionFinal`, `ActionMalformed`, `ActionTools`,
one per way an action turn ends; `CallRefused`, `CallRuns`, `BatchEnds` for the
calls of a batch; `FinalizationFinal`, `FinalizationMalformed`; `Delivery`; `Stop`;
`Abort`, an exception anywhere.  The budgets are the code's:
`MaxSteps + MaxRecoveries + 1` attempts, `1 + MaxRecoveries` finalization turns,
and a recursion limit of their sum and four.  The graph framework is external:
its limit is taken conservatively, a run that is about to execute one node more
than the limit is out of steps.

### 2.5 ModelRequests

*State.*  Below the variables of `AgentLoop`: the capabilities of the provider
and the user's cap, whether a request is being sent and at which post, the output
limit it asked for, the tokens its completion used, and why the answer was
rejected: the policy takes the text of a reason for exhaustion when it names tokens
or a length, and so by mistake also that of some invalid answers (`Reasons`,
`Exhaustion`).  *Actions.*  `Prepare` asks `ModelExecutionPolicy` for another request
(`Permits`) and fixes its limit (`FirstLimit`, `RecoveryLimit`); `PrepareFails` is
its refusal.  `Resend` is a repeated post, `RequestFails` a failure that is not
repeated, and `AnswersFinal`, `AnswersTools`, `AnswersMalformed` the answers, each
conjoined with the action of `AgentLoop` it leads to.  `WithoutModel` are the nodes
that ask nothing, `Interrupted` is an exception anywhere.

*Abstract specification.*  `AgentLoop!Spec`: a run with requests is a run of the
graph, by the identity on its variables.

### 2.6 ToolExecution and PatchText

`PatchText` is the pure part of `patch_set.py`: where an edit matches (`Places`,
`Unique`), which edits go together (`Compatible`), and the text they make
(`Patched`, spans spliced in from the last to the first).  `Replaced` is the
reference: every position of the text keeps its symbol, or is replaced as the one
span that covers it says.

*State.*  The texts of the shadow; the call and how far it got; the plan of a
patch with what was attempted and what is still to restore; the process group of
a command, a descendant that left it, and its grip on the pipes; the report file;
the probe of a verification, which is the report's signature and the tests that were
changed (`pending`) before the command; the copy of the dependencies; `accounted`, the
texts as the results of the calls say they are.

*Actions.*  `Request` and `Approve` are the refusals of `execute()` in its order.
`PlanEdits`, `Write`, `WriteFails`, `Restore`, `RestoreFails`, `RaiseAgain` are the
editing tools: only `apply_patch` rolls back.  `Start`, `CommandWrites`,
`CommandTests`, `CommandForks`, `CommandEscapes`, `CommandExits`, `Wait`, `Kill`,
`Drain`, `Close` are the command runner and its children, `DaemonWrites`, `DaemonTests`
and `DaemonEnds` what is left of them.  `Start` copies `node_modules` on first use, and
the copy may fail half way.  `Interrupt` is Ctrl-C at the prompt, in a wait, in a
rollback or behind them.  `Return` and `Fail` compare the snapshots and give the
result; a verification is accepted with a new report, or when its argv names the
changed test to a runner that writes none (`Missing`).

### 2.7 EvidenceGate

*State.*  The contents and the revision of each path; the events of the session
in groups, whose source is evidence or only quoted; the last request and what the
controller believes it showed; the work plan; the prefetched working set.  `clipped`
and `older` are history: what was cut from the working set of the last request, and
the evidence in events from before the transaction.  *Actions.*  `Build` is a request:
freshness, priority, compaction to the budget (`Projection`), and a working set of
which the budget may cut any part (`WorkingSets`).  `RefuseRead` and `Read` are the two
answers of the preflight; `Search`, `Edit`, `Command`, `Verify` and `UpdatePlan` the other
calls of a turn, with the work items they name.  `LostEdit` is an edit whose call was interrupted, `NewTransaction` and
`NewRun` what comes between runs; /apply and /discard leave the events of the session.

### 2.8 SessionMemory

*State.*  The texts of the files; the session file, its backup, its lock; the
copy of each process; `index`, `records` and `topic`, the three files of the durable
facts, and what a process is about to write of them.  `saved`, `stated` and `latest` are
history.  *Actions.*  `Open`, `Record`, `ReadFile`, `WriteFile`, `Checkpoint`, `BuildPrompt`
are the operations of a process; `Lock`, `Refuse`, `Backup`, `Replace` the writes of
`SessionStore.save`; `Promote`, `WriteIndex`, `WriteRecords`, `WriteTopics` those of
`DurableMemoryStore.promote`; `Edit` is a user, `Crash` a kill between any two writes.

## 3. What is checked

All runs are small instances, and every bound is a CONSTANT.  "Violation" runs
check one statement that the repository makes of itself and that the code does
not keep; section 5 explains them.

| run | instance | question |
|---|---|---|
| `tsw_git` | Git tree with a file holding a secret, a plain file and an ignored one; 2 user edits outside `commit()`, 2 writes in the shadow at any step, so commits of up to 2 operations, 1 crash, 1 failing call anywhere (4 million states) | Is only reviewed work applied, but for late writes, is nothing seen overwritten?  Is the workspace an `AtomicDelivery`, so that a failed commit puts back what it saw? |
| `tsw_plain` | plain directory with a link, a file and an absent path; 1 user edit, 2 writes in the shadow, 1 crash, 2 failures; fair | When an operation fails after another replaced its file, and the rollback, the cleanup or a journal write fails as well: is an original lost, a commit left half applied, an uncertain one reopened, a delivery denied?  Is every commit settled? |
| `lifecycle_crash` | 1 process, 2 runs, 2 transactions, automatic commit, 2 crashes, 2 failing calls; fair | Is a committed run ever closed as undelivered?  Is every orphan closed?  Does a start-up leave one behind, also one whose own closing could not be written? |
| `lifecycle_two` | 2 processes with a session each (exchanged by symmetry), review policy, every command of the API, 2 runs, 1 transaction, 1 crash, 2 failing calls | Does recovery leave executing runs alone?  Is a reported delivery sealed, is work ever lost, can every session be opened? |
| `ledger_evidence` | 2 paths (one a test), 2 checks, a window of 2 validations and 1 unverified path, 2 revisions per transaction | Is what is delivered under required validation what the last passing check ran on, and is no failure forgotten? |
| `model` | 2 tool steps, 2 recoveries, batches of 3 calls, 3 posts, two limits and three usages; fair | Does a run end inside its budgets and the framework's limit, deliver what it verified, and does a recovery ask for more than was used? |
| `tools` | 2 files, 3 edits (two of one file and of different lengths), 2 calls, 1 failing write, 1 interrupt, 1 descendant that escapes; fair (2 million states) | Is a patch all or nothing?  Does the evidence learn of every change?  Is an interrupt obeyed, a report of this call, and does every call return? |
| `context` | 2 runs, 1 file of 2 units, 2 contents, a budget that forces compaction, 3 events, 2 requests, 2 items of which the plan keeps one (1.6 million states) | Is what is refused shown, and what is shown current, over lost edits, deliveries, /apply and /discard?  Does a decision stay made? |
| `stores` | 2 processes on one session, a file, a subject with two facts of which one is legacy, 1 kill | Is a save ever overwritten unread, a stale note shown, a superseded fact active? |

| violation run | instance | property |
|---|---|---|
| `tsw_ignored` | a change of a path that Git ignores, nobody else edits | `ConflictFreeCommit` |
| `lifecycle_phantom` | 2 processes on one session | `NoPhantomDelivery` |
| `stores_masked` | a file read again before the next prompt | `ShownIsFresh` |

**The properties.**  The comment before each one in its module says what it means
and which code it is about.  `ReviewedIsDelivered`, `JournalBeforeSource`,
`FailedCommitRestores`, `OriginalsKept`, `DeliveryComplete`, `UncertainNeverReopened`,
`DeliveryNeverDenied`, `ResumableHasShadow`, `NoUnseenOverwrite`, `DeliversAtomically`
and `CommitSettles` are about a transaction; `DeliveredIsCommitted` and `CommitReported` (the two
directions of a truthful report), `OrphanHasNoOwner`, `OrphansClosed`,
`RecoveryComplete`, `WorkIsReachable` and `SessionOpens` about the lifecycle; `DeliveredIsTested`,
`NoFailureDelivered` and `ReviewIsCurrent` about the evidence; `WithinRecursionLimit`,
`NoToolAfterAcceptance`, `VerifiedIsDelivered`, `RecoveryGrows` and `RunEnds` about the
graph and its requests; `PatchAtomic`, `ChangesReported`, `InterruptObeyed`,
`EvidenceOfThisRun` and `CallEnds` about a tool call; `RefusedIsShown`, `ShownIsCurrent`
and `DecisionKept` about the context; `SavedIsKept`, `ShownIsFresh` and
`LatestIsActive` about what is stored.  For each one
`PROJECT.json` names a mutant, a plausible slip in the code (a dropped guard, a
swapped pair of writes, a missing reset), under which the run finds it violated.
`ConflictFreeCommit` and `NoPhantomDelivery` state what the repository says of itself,
without the exceptions their neighbours in the module make; only violation runs check
them.

**Why the bounds are enough.**  Two writes in the shadow make commits of two
operations: the second can fail when the first has replaced its file, the rollback
then undoes one and may fail, and the order of undoing matters.  They also allow one
reviewed change and one write behind the check.  The three paths are one of each kind
the code distinguishes (link, file, absent; secret, plain, ignored).  Two failures let
the rollback fail after the commit failed.  One crash reaches `load()` from every step, two crashes also from
the start-up that follows the first.  Two runs and two transactions let a run
meet what an earlier one left.  Two checks distinguish "this check passed" from
"another one did", a window of two evicts, and the revision 2 can be untested
after the revision 1 was tested.  Two tool steps with batches of three spend
the budget in the middle of a batch, and three posts and two recoveries reach
every limit.  Two edits of one file of different lengths tell the order of their
application apart, and a second file is the one whose write fails after the
first.  A budget of three holds one group of two units whole and one compacted.
A plan that keeps one of two items evicts at every update that names the other.
For the properties of section 4 the proofs remove the bounds altogether.

**What constants exclude.**  Some constants switch on behaviour of the code under
which a property does not hold, and which is the subject of section 5.  The
passing runs have them off, and say nothing of these cases: `Quiet` (TRUE: the user
does not edit the source while `commit()` runs), `Normalized` (the identity: no path
begins with a dot), `MaxTorn` (a call whose effect outlives its record), `Masks` (a file
changed and read again with no prompt in between), `Overlap` and `Tears` (two promotions
at once, a half written file).  Exceptions that are not a constant are named in the property: late writes
in the shadow (`late`, `Unchecked`), paths that Git ignores or that changed around the
copy of `begin()` (`Seen`), processes that escaped (`escapes`), a working set that was
cut and evidence from before /apply (`clipped`, `older`), and a failed commit that was
discarded (`SessionOpens`).  `CommitReported` and `OrphansClosed`
except executions in which a call failed; the first is checked for one process, and
proved for several that work one at a time.  `EvidenceOfThisRun` excepts tests that the
argv names (`selects`), and `ShownIsCurrent` what searches quote.

**Deadlock** is checked, except in the runs of `TransactionalWorkspace`: a
transaction that is COMMITTED or DISCARDED really stops.

**Fairness.**  `TransactionalWorkspace!FairSpec` has `WF(Step)`, the steps a process
takes by itself inside an operation (straight-line file operations), and
`WF(Load)`, a user opens a session that went down.  `DeliveryLifecycle!FairSpec` has
`WF(Step(p))`, the same for start-up, the prologue, the delivery and leaving the
model's turns, which is justified by the bound on attempts (section 2.4) and the
provider's timeouts, and `WF(Start(p))`.  `ModelRequests!RequestSpec` has `WF(Step)`:
every post has a timeout, and the nodes that ask nothing run straight through.
`ToolExecution!Spec` has `WF(Runner)`, the steps of pico itself, its waits with a
time-out among them; a command and its descendants may hang for ever.  No fairness is assumed of users, tools,
faults or crashes; those are bounded in number.

## 4. What is proved

TLAPS checks these for every value of the constants.

| theorem | says | needs |
|---|---|---|
| `TypeCorrect`, `ControlCorrect` | types; what record, journal and the step of the process say of each other | – |
| `NeverReopened`, `NeverDenied` | no process holds an uncertain commit as editable; a sealed delivery is never anything else | `Control` |
| `WorkKeepsItsTree` | work that can be resumed, reviewed, repaired or recovered has its shadow | `TreeKept` |
| `DeliversReviewed` | the journal's operations are the staged, reviewed change set, and touch no protected path, but for the paths written behind the check | `Reviewed` |
| `JournalsFirst` | where the source differs from the user's, a journal on disk lists the path | `PlainNames` |
| `KeepsOriginals`, `RestoresFailedCommit`, `DeliversCompletely` | originals survive; a failed commit put back every path it saw; a seal is over a complete delivery, but for the content of late paths | `CommitInv`, `Quiet`, `PlainNames` |
| `OverwritesWhatItSaw` | a path the transaction saw is replaced only while it holds what it held at `begin()` | `Unedited`, `Quiet`, `PlainNames` |
| `ImplementsAtomicDelivery` | the workspace implements `AtomicDelivery`: initial states, and every step a step of it or a stutter | `CommitInv`, `Quiet`, `PlainNames` |
| `TypesHold`, `ExecutingRunsAreOwned` | types; who executes or claims a run holds its lease, for any number of processes on a session | `LeaseInv` |
| `ReportsAreTruthful` | a run that reports a delivery names a sealed commit | `DeliveryInv`, `OneProcessPerSession` |
| `WorkIsNeverLost`, `SessionsOpen` | undelivered edits have a pointer, and a pointer can be opened | `ShadowInv`, `OneProcessPerSession` |
| `CommitsAreReported` | until a call fails, a run whose finalization committed a change is never closed as undelivered | `ReportInv`, one process at a time |
| `NeverOutOfSteps`, `BudgetsKept` | no run reaches the recursion limit, no counter its budget's end | `BudgetInv` |
| `VerifiedWorkIsDelivered`, `AcceptanceEndsTheBatch` | verified work is delivered or reported as a conflict; no call runs behind acceptance | `Accepted` |
| `RequestsImplementTheLoop`, `RequestsStayWithinTheLimit` | the run with its requests implements `AgentLoop`, so its limits and deliveries hold of it | – |
| `EveryRecoveryGrows` | a recovery asks for more tokens than the cut answer is known to have used | `GrowInv` |
| `EveryChangeIsReported` | what calls changed is what they reported | `AccountInv` |
| `InterruptIsObeyed` | an interrupt stops the turn, unless a failed rollback hid it | `InterruptInv` |
| `EvidenceIsOfThisRun` | a verification accepted over a changed test ran tests in this very call, or names the test to a runner without reports | `EvidenceInv` |
| `PatchesAreAtomic` | a patch set is applied as a whole or not at all, and as its edits mean | `PatchInv` |
| `LedgerTypes` | types and windows of the ledger | – |
| `DeliveredCodeIsTested`, `FailuresBlockDelivery`, `ReviewIsOfTestedCode` | what is delivered was tested, no failure is delivered, the review is of tested code | `LedgerInv`, `NothingTorn` |
| `GateTypes`, `ShowsCurrentCode` | types; what a request shows of reads, receipts and the working set is the code at that time | `PrefetchTimely` |
| `RefusesOnlyWhatIsShown` | a read is refused only if the request it answers shows what it would return | `EventsHeld`, `VisibleShown` |
| `KeepsDecisions` | a decision stays due while its item stays open, however the plan is reworded | – |
| `FreshMemoryIsShown` | memory shows no summary or note of a text older than the last look at the file | `MemoryInv`, `Few`, `~Masks` |
| `SavedSessionIsKept` | no save overwrites one its process has not read | `SaveInv` |
| `LatestFactIsActive` | the active fact is the one stated last | `FactInv`, `~Overlap`, `~Tears` |

**The transaction.**  The properties are not inductive.  `Control` adds which
states, records and journals are possible at each step of an operation: without
it a step of the rollback could be taken from a sealed journal.  `Reviewed` adds
that between the decision and the journal the diff is what was staged, and that the
journal lists what the shadow holds, both but for the paths of `late`: a write behind
the check puts its path there, so the exception is exactly what was raced.
`CommitInv` is the heart: while operations are applied (`Applying`) the source
differs from the user's exactly where an operation was applied; until the
rollback ends (`Reversible`) the manifest's "before" or the recovery copy of each
operation suffices to put it back; and during the rollback (`Undoing`) what is
still to be put back is in `completed`.  The lemmas follow the phases of a commit
(`StartCommit`, `ApplyCommit`, `EndCommit`, `UndoCommit`), and `OutsideCommit` covers
the rest.  `Quiet` (the user does not edit the tree while `commit()` runs) and
`PlainNames` (no path begins with a dot) are assumptions because the code needs
them: without either one, TLC has a counterexample (section 5).
`TreeKept` says when the shadow is removed: after the record that makes the
transaction final, and never before.  `Unedited` carries the comparison of the
conflict check through the commit: what the user has at a path of the journal that
was checked is what the manifest of `begin()` says, so a replacement overwrites nothing
unseen.

**The refinement.**  `ImplementsAtomicDelivery` maps the steps action by action:
a replacement is `Show`, a write in the shadow behind the check is `Race`, an undo is `PutBack` of what the user has at a path that was
seen, a seal is `Deliver` because `CommitInv` says that all operations are shown, the
end of a rollback is `GiveUp`, and a failure that nothing on disk tells of is `Doubt`.  A
crash or a `load()` stutters, or is `Doubt`, because the phase is computed from what
`load()` will find.

**The lifecycle.**  `LeaseInv` says at which steps a process has a run, and that it
then has its lease.  `DeliveryInv` says that a transaction belongs to one session
(`Owned`), and what a process may hold in memory at each step against the journal of
that transaction: a sealed commit is held as nothing but committed, or is about to be
recorded.  `ShadowInv` adds the trees: a process whose transaction the pointer does
not name yet has a clean shadow, and whatever else the pointer names is settled.  The
steps are summed up once (`Confined`, `TxnStep`, `SessionStep`, `TreeStep`, `Leaves`: what a
step of one process leaves alone), so that the invariant of the others follows with no
look at the actions.  `OneProcessPerSession` is an assumption because the code
needs it: with two processes on one session `DeliveredIsCommitted` and `SessionOpens`
are violated (section 5); for `WorkIsReachable`, whose proof rests on the same `Owned`,
TLC knows no counterexample.
`ReportInv` follows a commit to its report.  `AuthorOK` says that the run that committed
is recorded as running with its transaction, or as having delivered it; `AnnounceOK`
that its process is on the way to that report, or gone; `OrphanOK` that the
transaction a recovery read with an orphan is still that of its record.  Any number of
processes, sessions (also shared) and crashes are allowed, but only while one process
works at a time and until a call fails: with a failing save or an interrupt behind the
seal, or with a second process, TLC has counterexamples (section 5), and the property
and the hypothesis exclude these.

**The run.**  The recursion limit counts nodes and the budgets count requests.
`Paced` relates the two: an action turn is one node and one request, and only the
bootstrap and the turn that finds the budget spent are nodes without a request.
`Budgeted` says that the failures still to come have room.  Deferral of the calls
of a batch past the last tool step is what keeps `steps` bounded.  `Accepted` says
that a run that requested finalization has no objection against it, and is on
one of the nodes from which it is delivered.

**Requests.**  The mapping is the identity, so the refinement is one lemma per
action: a step that posts, or prepares, leaves the graph alone.  `GrowInv` carries the
used or requested tokens of the rejected answer to the next `Prepare`.

**Calls.**  `AccountInv` says at each step of a call which paths may differ from
what has been accounted for: none outside a call, those between the snapshots
inside it.  A descendant that escaped may write at any time, so the property, and
the invariant, are about executions without one.  `InterruptInv` follows the
interrupt through the restore and the drain.  `EvidenceInv` adds (`ProbeOK`) that the
probe of a call knows its changed test, taken before the command as the code does, and
that a report other than the one probed was written by this call.

**Patches.**  `PatchInv` says how far a patch set is: while it is written a file holds
the plan if it was attempted and the original if not, while it is undone what is no
longer attempted is original again, and no command runs meanwhile.  That the plan is
what the edits mean is `PatchedIsReplaced`.  An old text that `count` finds once has a
place (`CountedIsFound`), so its span lies in the text; compatible spans lie apart; and
when the positions from *i* on are spliced, the text is the original one up to `Edge`
(before *i*, or to the end of the span *i* is in) followed by what those positions
become.  This is an induction over the text, from its end.

**The evidence.**  Which revision was tested is nowhere in the ledger.  `EvidenceOK`
says what its emptiness stands for: with no unverified change on record, the last
passing check ran on the code as it is, or nothing was changed and no passing
check is on record.  This must hold of the copy the next run will resume, in memory
or in the file (`Current`, `CopiesOK`), and not in the middle of a call (`Settling`).
`VerdictOK` says that each failed check of the transaction is among its failures.
`NothingTorn` is an assumption because the code needs it (section 5); `LedgerTypes`,
which bounds the windows, does without.

**The context.**  `ProjectionSends` says what the projection of any sequence of groups
sends, by induction over the groups, and `RequestShows` what a request then shows.  That what is shown is
current needs only the types and that the working set is of revisions the files
have reached (`PrefetchTimely`).  That what is refused is shown needs more:
`EventsHeld`, the evidence in the events is of revisions the ledger has reached, and
`VisibleShown`, what the controller believes visible is in the request, or of an older
revision.  Both except the evidence from before /apply or /discard (`older`), which
meets the revisions of a new ledger, and the second what was cut from the working set
(`clipped`); the theorem excepts the same, and has no hypothesis.
`KeepsDecisions` rests on the items of a plan having different names, whatever the
model calls them.

**The stores.**  `SaveInv` relates the revision of each copy to that of the file:
equal revisions mean that the copy has everything that was saved.  The lock makes
this hold between the check and the replacement.  `FactInv` says what the records in
memory and in the file will be once the promotion under way is done, for each step
at which a kill can stop it.  `MemoryInv` says that every note of a copy is as old as
the summary of its file and no path is remembered twice.  When the summaries of all
paths fit the limit (`Few`) none is evicted; when one is, its notes stay and nothing
tells their age, so beyond the limit TLC has a counterexample, as it has with `Masks`
(section 5).

**Induction over data.**  The induction theorems of the library take an operator,
which the provers cannot instantiate.  `RecursionLemmas` states them with sets and
functions: a set that holds 0, and k whenever it holds k - 1, holds `0 .. n` (`UpTo`);
some function follows given steps (`Walk`), so that a recursive definition satisfies
its own equation.  Patches, projections, selections and plans are proved with these.
The models write recursion as functions over `0 .. n` for this reason: the provers
reach no RECURSIVE operator.

**Only model-checked.**  The liveness properties (`CommitSettles`, `OrphansClosed`,
`RunEnds`, `CallEnds`) and the absence of deadlock are outside of the prover's reach, and
stay with TLC, as do `RecoveryComplete`, whose failing writes no invariant of this
section follows, and what the violation runs show.  Every other property of a passing run has
a theorem.  The other way round, the types of `TransactionalWorkspace`, `DeliveryLifecycle`
and `EvidenceGate` are proved (`TypeCorrect`, `TypesHold`, `GateTypes`) and in no run.

## 5. Where the code and its documentation disagree

1. *A commit overwrites an ignored file* (`tsw_ignored`).  Neither the baseline nor
   the current manifest lists what Git ignores, so a change set that creates such
   a path has no conflict with the user's file of that name
   (`transactional_workspace.py:499`).  `NoUnseenOverwrite` is what does hold: for
   paths the transaction saw.
2. *A delivered absence* (`lifecycle_phantom`).  A process that opened the session
   before another one committed its transaction reopens it with no look at the
   disk; the diff of the removed shadow is the deletion of every file
   (`bootstrap_runtime.py:80`).
3. *A stale note in a prompt* (`stores_masked`).  The invalidation of notes looks at
   the hashes of the file summaries only (`memory_store.py:624`).  A file that is
   changed from outside and read again before the next prompt has a summary with
   the new hash, so the note of its old text stays, and the prompt lists both.

The following is no run of its own.  Each is a place where a property names an
exception, or where a constant switches the behaviour off; the last words say how TLC
finds the counterexample.

* *Unreviewed code is delivered.*  A process that left its process group outlives its
  command, and the lease does not stop it.  What it writes in the shadow between the
  diff of `validate_commit()` (`transactional_workspace.py:493`) and the second one of
  `commit()` (`:542`) is listed and applied, and what it writes before the copy
  (`:609`) is applied in place of what was listed, against `:496`.
  (`ReviewedIsDelivered` without `late`.)
* *A user's edit is overwritten.*  `commit()` takes no lock on the tree and looks at a
  file once, in the conflict check; a file that is saved before its replacement is
  lost (`:556`).  (`NoUnseenOverwrite` with `Quiet` FALSE.)
* *A path that starts with a dot is another path.*  `_safe_relative` strips dots with
  the slashes (`:47`): a change to `.env` is applied to `env`, or not at all.
  (`DeliveryComplete` with a `Normalized` that maps one path to another.)
* *A delivery that is not reported.*  `_restore_source_view` clears the context before
  it saves the session; when the save fails, the run is closed with no delivered path
  though the journal is sealed (`pico_runtime.py:641`).  An interrupt between the seal
  of the journal and the state of the workspace object has the same end.
  (`CommitReported` without `faults = 0`.)
* *An interrupted tool leaves unrecorded edits.*  The executor catches `Exception`; a
  KeyboardInterrupt during a tool leaves its edits in the shadow under the evidence of
  the code before (`tool_executor.py:488`).  (`DeliveredIsTested` with `MaxTorn` 1.)
* *A part of the dependencies counts as all of them.*  A copy of `node_modules` that
  fails leaves what it copied, and the next command finds the directory there
  (`command_runner.py:376`).  (A command that needs them runs while `deps` is
  "partial".)
* *A test that was named counts as a test that ran.*  For a runner that is not known to
  write reports the argv is the evidence (`verification_evidence.py:174`).
  (`EvidenceOfThisRun` without `call.selects`.)
* *A descendant survives its call.*  The kill reaches the process group, and a
  descendant that starts a session of its own is not in it (`command_runner.py:454`);
  what it writes later belongs to no call.  (`ChangesReported` without
  `escapes = 0`.)
* *Stale source in the context.*  The output of a search is kept whatever happens to
  the files it quotes (`context_projection.py:77`).  (A group that quotes survives
  `FreshGroups` with a content the file no longer has.)
* *A refused read that nothing shows.*  /apply and /discard begin the revisions of the
  paths anew while the session keeps its events, so evidence of the old transaction
  matches a revision of the new one (`pico_runtime.py:638`).  (`RefusedIsShown` without
  `older`.)
* *A fact that is lost.*  Durable facts are read, changed and written with no lock, so
  of two promotions at once one is dropped (`memory_store.py:260`).  (`LatestIsActive`
  with `Overlap` TRUE, `OwnSubject` and `NoLegacy`.)

Other behaviour met while modelling:

* A commit fails, the API discards the transaction, and the process ends before the
  pointer is saved: `load()` reads RECOVERY_REQUIRED from the journal, the shadow is
  gone, and every later start is refused (`pico_runtime.py:351`).  `SessionOpens` excepts
  it; without its last disjunct `lifecycle_two` finds it.
* A working set that is cut at the budget of the runtime state counts as having been
  shown (`context_projection.py:298-402`), so a read of the missing part is refused;
  `RefusedIsShown` excepts these units.
* A durable fact also comes back when a promotion is stopped in the middle of a
  `write_text` (`Tears` violates `LatestIsActive`, `memory_store.py:255`).
* A process that opened the session before another one discarded its transaction
  can still apply it: the recheck finds a conflict, the record becomes CONFLICTED with
  the shadow gone, and no later start can open the session (`SessionOpens` with
  `SameSession`).
* An interrupt during a patch whose rollback fails as well is lost behind the error
  of the rollback (`patch_set.py:206`).
* `discard()` of a COMMIT_FAILED transaction is read as RECOVERY_REQUIRED by a
  later `load()`.  The rollback also removes an ignored file of the user's that a
  change set replaced.
* A path that the user edits between the manifest of `begin()` and the copy, and
  back before `commit()`, has no conflict (`transactional_workspace.py:378`).  Its
  change has as "before" what the copy saw, and a failed commit undoes it by that:
  where the copy saw nothing, the user's file is removed.  The same holds of an
  ignored path.  `FailedCommitRestores`, `NoUnseenOverwrite` and `AtomicDelivery` except
  these paths, and only these.
* The command line applies and discards only what is ready for review; a
  transaction in another state than ACTIVE or INTERRUPTED blocks every later task
  of its session (`ask()` refuses it) until it is settled through the Python API.
* `claim_orphaned_runs` reads a record before it takes its lease
  (`run_store.py:49`): a run that finishes in between is claimed and closed again, and
  one that is bound, committed and then crashes in between is closed as undelivered,
  because the transaction id read was none yet (two processes and a crash violate
  `CommitReported`, which is therefore proved while one process works at a time).
* The window of validation records can evict the last acceptance check, and the
  flag that remembers that changes are stale is lost in a restart.
* The reason of an earlier deferral is not cleared by later tool turns, so a stop
  for want of requests can name a verification that has passed since.  The stop
  reason `step_limit_reached` is never given, and the branch on `stuck_detected` never
  taken: nothing sets the flag.
* A save sorts the keys of the session, so the order of its checkpoints is lost
  when it is loaded.  An interrupt between the replacement of the session file and
  the update of the revision in memory makes the process's own later saves conflict.
* Notes of a file survive the eviction of its summary (`FILE_SUMMARY_LIMIT`), with
  nothing left to judge their age by (`memory_store.py:624`): `ShownIsFresh` fails when
  the files of a session do not fit the limit.  The hash of a summary is taken after
  the read it describes.

## 6. What is not modelled, and the plan

Left out for good: text (protocol parsing, prompts, rendering, redaction, the
wording of plans and notices), classification of requests, indexes of the source,
encodings, argument validation, offline evaluation, scripts, pure helpers.

Left out of modelled parts: the sizes at which histories, notes and checkpoints are
clipped, `reset()`, the ranking of notes, the ranges of a source unit, the text
prompts of `context_manager.py`, the environment of a command, streaming responses, and the recovery of a session from its backup.

Planned, in this order:

1. The composition of `ToolExecution` and `VerificationLedger`: the calls with their
   inside in place of `Calls`, so that a torn call is one the executor really leaves.
2. The composition of `AgentLoop` and `VerificationLedger`: the graph with the
   evidence in place of its two bits.
3. The interventions of the progress controller and their budgets.
4. Recovery of the session from its backup, and the order of checkpoints.

Proofs to come with them: that the calls of `ToolExecution` implement those of
`VerificationLedger`, and the graph with its evidence `AgentLoop`; what the work that
is kept (`WorkIsReachable`) means with two processes on a session.

To repeat a check: `tlc -config <run>.cfg <module>.tla` for a run of
`PROJECT.json`, `tlapm <module>.tla` for a module of proofs.
