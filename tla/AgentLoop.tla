----------------------------- MODULE AgentLoop -----------------------------
(***************************************************************************)
(* The graph of one agent run: pico/runtime/agent_graph_runtime.py and the *)
(* nodes it connects (bootstrap, action turn, finalization turn, delivery, *)
(* stop), with the batches of tool calls inside an action turn.            *)
(*                                                                         *)
(* A run is one thread.  What varies is what the model answers, what the   *)
(* tools it calls do, and where an exception ends the run.                 *)
(*                                                                         *)
(* Simplifications:                                                        *)
(*   - verification_failure_reason() is one bit, objection, and diff() is  *)
(*     one bit, changed: VerificationLedger models how calls move them,    *)
(*     here a call that changes the workspace or runs a check moves them   *)
(*     in any way;                                                         *)
(*   - native and textual model protocols differ in parsing only;          *)
(*   - the branch on stuck_detected is left out: nothing sets that flag;   *)
(*   - the model execution policy is its verdict recovery_permitted, which *)
(*     may be anything within max_recoveries.                              *)
(***************************************************************************)
EXTENDS Integers

CONSTANTS
    MaxSteps,         \* agent.max_steps: tool calls of a run
    MaxRecoveries,    \* model_execution_policy.max_recoveries
    MaxBatch          \* bound on the tool calls of one model turn

ASSUME BudgetAssumption == MaxSteps \in Nat /\ MaxRecoveries \in Nat \ {0}
ASSUME BatchAssumption == MaxBatch \in Nat \ {0}

MaxAttempts == MaxSteps + MaxRecoveries + 1
MaxFinalizations == 1 + MaxRecoveries

(* _run_active.  Mutant: the limit forgets the finalization turns. *)
ShortLimit == MaxAttempts + 4

RecursionLimit == MaxAttempts + MaxFinalizations + 4

VARIABLES
    node,          \* the node to run next, batch inside an action turn, or end or raised
    visits,        \* nodes the graph framework has executed
    attempts,      \* state["attempts"]
    steps,         \* task_state.tool_steps
    failures,      \* contract_failures: malformed answers in a row
    deferred,      \* completion_failure_reason is set
    requested,     \* finalization_requested
    finalizations, \* finalization_attempts
    finFailures,   \* finalization_failures
    abandoned,     \* contract_failure_final is set
    calls,         \* calls of the batch still to make
    broken,        \* batch_failure_reason is set
    objection,     \* verification_failure_reason() is not ""
    review,        \* delivery_review_pending
    changed,       \* the transaction has a diff()
    mutating,      \* the request allows mutation and the agent is not read-only
    outcome        \* how the run ended

evidence == <<objection, review, changed>>
batch == <<calls, broken>>
final == <<finalizations, finFailures>>
vars == <<node, visits, attempts, steps, failures, deferred, requested, final,
          abandoned, batch, evidence, mutating, outcome>>

Nodes == {"bootstrap", "action", "batch", "finalization", "delivery", "stop", "end", "raised"}

(* How a run ends; a change set that is handed to review counts as         *)
(* delivered.                                                              *)
Outcomes == {"running", "delivered", "conflict", "kept", "validation_failed",
             "retry_limit_reached", "step_limit_reached", "aborted", "out_of_steps"}

(* A run starts on whatever transaction and evidence the session holds. *)
Init ==
    /\ node = "bootstrap" /\ visits = 0 /\ attempts = 0 /\ steps = 0
    /\ failures = 0 /\ deferred = FALSE /\ requested = FALSE
    /\ finalizations = 0 /\ finFailures = 0 /\ abandoned = FALSE
    /\ calls = 0 /\ broken = FALSE
    /\ objection \in BOOLEAN /\ review \in BOOLEAN /\ changed \in BOOLEAN
    /\ mutating \in BOOLEAN /\ outcome = "running"

-----------------------------------------------------------------------------
(* The framework: a node finishes and the next one is due, unless the run  *)
(* has used its supersteps.                                                *)
Goto(next) ==
    /\ visits' = visits + 1
    /\ IF visits + 1 >= RecursionLimit /\ next # "end"
       THEN node' = "raised" /\ outcome' = "out_of_steps"
       ELSE node' = next /\ UNCHANGED outcome

End(result) == node' = "end" /\ visits' = visits + 1 /\ outcome' = result

Bootstrap ==
    /\ node = "bootstrap"
    /\ Goto("action")
    /\ UNCHANGED <<attempts, steps, failures, deferred, requested, final, abandoned,
                   batch, evidence, mutating>>

-----------------------------------------------------------------------------
(* The action turn *)

(* Out of tool steps, or out of model requests. *)
ActionExhausted ==
    /\ node = "action"
    /\ \/ steps >= MaxSteps /\ Goto("finalization")
       \/ steps < MaxSteps /\ attempts >= MaxAttempts /\ Goto("stop")
    /\ UNCHANGED <<attempts, steps, failures, deferred, requested, final, abandoned,
                   batch, evidence, mutating>>

(* The turn makes one model request. *)
Attempt ==
    /\ node = "action" /\ steps < MaxSteps /\ attempts < MaxAttempts
    /\ attempts' = attempts + 1

(* Is another request permitted after so many failures in a row?  Once for *)
(* an invalid answer, by the policy for an incomplete one.                 *)
Permitted(kind, count, policy) ==
    IF kind = "invalid" THEN count = 1 ELSE policy /\ count <= MaxRecoveries

ActionMalformed(kind, policy) ==
    /\ Attempt
    /\ failures' = failures + 1
    /\ LET retry == Permitted(kind, failures + 1, policy) IN
       /\ Goto(IF retry THEN "action" ELSE "stop")
       /\ abandoned' = ~retry
    /\ UNCHANGED <<steps, deferred, requested, final, batch, evidence, mutating>>

(* The model proposes its final answer: deferred while an objection stands. *)
ActionFinal ==
    /\ Attempt
    /\ failures' = 0
    /\ deferred' = (mutating /\ objection)
    /\ Goto(IF deferred' THEN "action" ELSE "delivery")
    /\ review' = (deferred' /\ review)
    /\ UNCHANGED <<steps, requested, final, abandoned, batch, objection, changed, mutating>>

(* The model asks for tools: the batch starts. *)
ActionTools(n) ==
    /\ Attempt
    /\ node' = "batch" /\ calls' = n /\ broken' = FALSE
    /\ UNCHANGED <<visits, steps, failures, deferred, requested, final, abandoned,
                   evidence, mutating, outcome>>

-----------------------------------------------------------------------------
(* The batch of an action turn *)

(* _deferred_tool_reason.  Mutants: the request to finalize is read once,  *)
(* before the batch; the step budget is read once, before the batch.       *)
DeferredByTurn(risky) == steps >= MaxSteps \/ (broken /\ risky)
DeferredUnbudgeted(risky) == requested \/ (broken /\ risky)

Deferred(risky) == steps >= MaxSteps \/ requested \/ (broken /\ risky)

(* A call that is deferred, or rejected before it runs. *)
CallRefused ==
    /\ node = "batch" /\ calls > 0
    /\ calls' = calls - 1 /\ broken' = TRUE
    /\ UNCHANGED <<node, visits, attempts, steps, failures, deferred, requested, final,
                   abandoned, evidence, mutating, outcome>>

(* A call that runs.  A risky one may change the workspace, a check may    *)
(* pass or fail; once the work is verified finalization is requested.      *)
CallRuns(risky, ok) ==
    /\ node = "batch" /\ calls > 0 /\ ~Deferred(risky)
    /\ calls' = calls - 1 /\ steps' = steps + 1
    /\ IF risky THEN objection' \in BOOLEAN /\ review' \in BOOLEAN /\ changed' \in BOOLEAN
       ELSE UNCHANGED evidence
    /\ broken' = (broken \/ ~ok)
    /\ requested' = (requested \/ (ok /\ review' /\ mutating /\ ~objection'))
    /\ UNCHANGED <<node, visits, attempts, failures, deferred, final, abandoned,
                   mutating, outcome>>

(* _route_after_tool_turn *)
BatchEnds ==
    /\ node = "batch" /\ calls = 0
    /\ failures' = 0
    /\ Goto(IF requested THEN "finalization" ELSE "action")
    /\ UNCHANGED <<attempts, steps, deferred, requested, final, abandoned, batch,
                   evidence, mutating>>

-----------------------------------------------------------------------------
(* The finalization turn.  Its branch for a spent budget is not modelled:  *)
(* the turn that spends the last request never leads back here, and were   *)
(* it reachable the run would be stuck in this model.                      *)

Finalize ==
    /\ node = "finalization" /\ finalizations < MaxFinalizations
    /\ finalizations' = finalizations + 1
    /\ attempts' = attempts + 1

FinalizationFinal ==
    /\ Finalize
    /\ review' = FALSE
    /\ Goto("delivery")
    /\ UNCHANGED <<steps, failures, deferred, requested, finFailures, abandoned, batch,
                   objection, changed, mutating>>

FinalizationMalformed(kind, policy) ==
    /\ Finalize
    /\ finFailures' = finFailures + 1
    /\ LET retry == /\ Permitted(kind, finFailures + 1, policy)
                    /\ finalizations + 1 < MaxFinalizations IN
       /\ Goto(IF retry THEN "finalization" ELSE "stop")
       /\ abandoned' = ~retry
    /\ UNCHANGED <<steps, failures, deferred, requested, batch, evidence, mutating>>

-----------------------------------------------------------------------------
(* Delivery and stop *)

(* _finish_success: the objection is asked for once more; the changes may  *)
(* break a constraint of the request or conflict with the source, and a    *)
(* read-only request keeps the changes of an earlier one for later.        *)
Delivered ==
    (IF objection THEN {"validation_failed"} ELSE {"delivered"})
        \cup (IF changed THEN {"conflict"} ELSE {})
        \cup (IF changed /\ ~mutating THEN {"kept"} ELSE {})

Delivery ==
    /\ node = "delivery"
    /\ \E result \in Delivered : End(result)
    /\ UNCHANGED <<attempts, steps, failures, deferred, requested, final, abandoned,
                   batch, evidence, mutating>>

(* _finish_verified_without_model_final.  Mutant: not for a run that was   *)
(* deferred before.                                                        *)
DeliversUndeferred == mutating /\ changed /\ ~objection /\ ~deferred

DeliversAnyway == mutating /\ changed /\ ~objection

(* _stop_task_state *)
StopReason ==
    CASE abandoned -> "retry_limit_reached"
      [] ~abandoned /\ deferred -> "validation_failed"
      [] ~abandoned /\ ~deferred /\ attempts >= MaxAttempts /\ steps < MaxSteps
            -> "retry_limit_reached"
      [] ~abandoned /\ ~deferred /\ ~(attempts >= MaxAttempts /\ steps < MaxSteps)
            -> "step_limit_reached"

Stop ==
    /\ node = "stop"
    /\ IF abandoned /\ DeliversAnyway
       THEN \E result \in Delivered : End(result)
       ELSE End(StopReason)
    /\ UNCHANGED <<attempts, steps, failures, deferred, requested, final, abandoned,
                   batch, evidence, mutating>>

(* A provider error, a KeyboardInterrupt, a failing save: run() closes it. *)
Abort ==
    /\ node \notin {"end", "raised"}
    /\ node' = "raised" /\ outcome' = "aborted"
    /\ UNCHANGED <<visits, attempts, steps, failures, deferred, requested, final, abandoned,
                   batch, evidence, mutating>>

(* The run is over. *)
Finished == node \in {"end", "raised"} /\ UNCHANGED vars

Next ==
    \/ Bootstrap \/ ActionExhausted \/ ActionFinal
    \/ \E kind \in {"invalid", "incomplete"}, policy \in BOOLEAN :
          ActionMalformed(kind, policy) \/ FinalizationMalformed(kind, policy)
    \/ \E n \in 1..MaxBatch : ActionTools(n)
    \/ CallRefused \/ \E risky, ok \in BOOLEAN : CallRuns(risky, ok)
    \/ BatchEnds \/ FinalizationFinal
    \/ Delivery \/ Stop \/ Abort \/ Finished

Spec == Init /\ [][Next]_vars

-----------------------------------------------------------------------------
(* Properties *)

(* Every variable keeps its type and every counter its budget; a batch of  *)
(* calls cannot overrun max_steps (pico/runtime/action_turn_runtime.py:440 *)
(* _deferred_tool_reason).                                                 *)
TypeOK ==
    /\ node \in Nodes /\ outcome \in Outcomes
    /\ visits \in 0..RecursionLimit
    /\ attempts \in 0..MaxAttempts + MaxFinalizations
    /\ steps \in 0..MaxSteps
    /\ failures \in 0..MaxRecoveries + 1
    /\ finalizations \in 0..MaxFinalizations /\ finFailures \in 0..MaxFinalizations
    /\ calls \in 0..MaxBatch
    /\ deferred \in BOOLEAN /\ requested \in BOOLEAN /\ abandoned \in BOOLEAN
    /\ broken \in BOOLEAN /\ objection \in BOOLEAN /\ review \in BOOLEAN
    /\ changed \in BOOLEAN /\ mutating \in BOOLEAN

(* No run, whatever its model and its tools do, exceeds the recursion      *)
(* limit that _run_active gives the graph: retries, deferrals and          *)
(* finalization turns all fit (pico/runtime/agent_loop_runtime.py:33).     *)
WithinRecursionLimit == outcome # "out_of_steps"

(* Once the work is verified and finalization requested, no call of the    *)
(* batch under way runs any more, so nothing disturbs what was verified    *)
(* (pico/runtime/action_turn_runtime.py:449).                              *)
NoToolAfterAcceptance ==
    [][requested => requested' /\ UNCHANGED <<steps, objection, changed>>]_vars

(* A run that verified its changes and is not cut off by an exception      *)
(* delivers them or reports a conflict, also when the model fails to give  *)
(* a final answer (pico/runtime/delivery_runtime.py:116).                  *)
VerifiedIsDelivered ==
    requested /\ changed /\ node = "end" => outcome \in {"delivered", "conflict"}
=============================================================================
