--------------------------- MODULE AgentLoopProofs ---------------------------
(***************************************************************************)
(* The graph of an agent run keeps its budgets, ends within the recursion  *)
(* limit and delivers what it verified, for every number of tool steps,    *)
(* recoveries and calls in a batch.                                        *)
(*                                                                         *)
(* The recursion limit counts nodes and the budgets count model requests.  *)
(* Paced relates the two: an action turn is one node and one request, only *)
(* the bootstrap and the turn that finds the budget spent are nodes without*)
(* a request.                                                              *)
(*                                                                         *)
(* A run with its model requests is a run of AgentLoop, so that what is    *)
(* shown of the graph holds of the run with requests; and a recovery from  *)
(* an exhausted output asks for more, for every cap of a user, limit of a  *)
(* provider and number of recoveries.                                      *)
(***************************************************************************)
EXTENDS ModelRequests, TLAPS

(* How many nodes a run has executed for the requests it made. *)
Paced ==
    /\ node = "bootstrap" => visits = 0 /\ attempts = 0
    /\ node = "action" => visits = attempts + 1 /\ attempts <= MaxAttempts
    /\ node = "batch" => visits = attempts /\ attempts <= MaxAttempts
    /\ node \in {"finalization", "delivery", "stop"} =>
          visits <= attempts + 2 /\ attempts <= MaxAttempts + finalizations

(* The failures and turns that are still to come have room. *)
Budgeted ==
    /\ finFailures <= finalizations
    /\ node \in {"bootstrap", "action", "batch"} => finalizations = 0
    /\ node \in {"bootstrap", "action"} => failures <= MaxRecoveries
    /\ node = "finalization" => finalizations < MaxFinalizations

(* Verified work is on its way out, and nothing speaks against it. *)
Accepted ==
    requested =>
        /\ mutating /\ ~objection
        /\ node \notin {"bootstrap", "action"}
        /\ node = "stop" => abandoned
        /\ node = "end" /\ changed => outcome \in {"delivered", "conflict"}

(* The typing of TypeOK in two parts: the counters, and the flags. *)
Counters ==
    /\ node \in Nodes /\ outcome \in Outcomes
    /\ visits \in 0..RecursionLimit
    /\ attempts \in 0..MaxAttempts + MaxFinalizations
    /\ steps \in 0..MaxSteps
    /\ failures \in 0..MaxRecoveries + 1
    /\ finalizations \in 0..MaxFinalizations /\ finFailures \in 0..MaxFinalizations
    /\ calls \in 0..MaxBatch

Flags ==
    /\ deferred \in BOOLEAN /\ requested \in BOOLEAN /\ abandoned \in BOOLEAN
    /\ broken \in BOOLEAN /\ objection \in BOOLEAN /\ review \in BOOLEAN
    /\ changed \in BOOLEAN /\ mutating \in BOOLEAN

(* The counters depend on the flags nowhere: two invariants of their own. *)
BudgetInv == Counters /\ Paced /\ Budgeted /\ WithinRecursionLimit

-----------------------------------------------------------------------------
(* The counters *)

LEMMA LimitFacts ==
    /\ MaxSteps \in Nat /\ MaxRecoveries \in Nat \ {0} /\ MaxBatch \in Nat \ {0}
    /\ MaxAttempts \in Nat /\ MaxFinalizations \in Nat /\ RecursionLimit \in Nat
    /\ RecursionLimit = MaxAttempts + MaxFinalizations + 4
    /\ MaxAttempts = MaxSteps + MaxRecoveries + 1
    /\ MaxFinalizations = 1 + MaxRecoveries
BY BudgetAssumption, BatchAssumption DEF MaxAttempts, MaxFinalizations, RecursionLimit

(* A node that still has one to run after it is within the limit. *)
LEMMA Room ==
    ASSUME BudgetInv, node \notin {"end", "raised"}
    PROVE  visits \in Nat /\ ~(visits + 1 >= RecursionLimit)
BY LimitFacts DEF BudgetInv, Counters, Nodes, Paced, Budgeted

(* So the framework goes where it is told. *)
LEMMA Goes ==
    ASSUME BudgetInv, node \notin {"end", "raised"}, NEW next, Goto(next)
    PROVE  node' = next /\ visits' = visits + 1 /\ outcome' = outcome
BY Room, Zenon DEF Goto

LEMMA BudgetInit == Init => BudgetInv
BY LimitFacts DEF Init, BudgetInv, Counters, Nodes, Outcomes, Paced, Budgeted,
   WithinRecursionLimit

LEMMA BudgetStep == BudgetInv /\ [Next]_vars => BudgetInv'
<1> SUFFICES ASSUME BudgetInv, [Next]_vars PROVE BudgetInv'
  OBVIOUS
<1> DEFINE Moves(next) == node' = next /\ visits' = visits + 1 /\ outcome' = outcome
<1>1. CASE Bootstrap
  <2>1. Moves("action")
    BY <1>1, Goes, Zenon DEF Bootstrap
  <2> QED
    BY <1>1, <2>1, LimitFacts
    DEF Bootstrap, final, batch, BudgetInv, Counters, Nodes, Outcomes, Paced,
        Budgeted, WithinRecursionLimit
<1>2. CASE ActionExhausted
  <2>1. (steps >= MaxSteps /\ Moves("finalization")) \/ Moves("stop")
    BY <1>2, Goes, Zenon DEF ActionExhausted
  <2> QED
    BY <1>2, <2>1, LimitFacts
    DEF ActionExhausted, final, batch, BudgetInv, Counters, Nodes, Outcomes,
        Paced, Budgeted, WithinRecursionLimit
<1>3. CASE ActionFinal
  <2>1. Moves("action") \/ Moves("delivery")
    BY <1>3, Goes, Zenon DEF ActionFinal, Attempt
  <2> QED
    BY <1>3, <2>1, LimitFacts
    DEF ActionFinal, Attempt, final, batch, BudgetInv, Counters, Nodes, Outcomes,
        Paced, Budgeted, WithinRecursionLimit
<1>4. ASSUME NEW kind \in {"invalid", "incomplete"}, NEW policy \in BOOLEAN,
             ActionMalformed(kind, policy)
      PROVE  BudgetInv'
  <2>1. \/ Permitted(kind, failures + 1, policy) /\ Moves("action")
        \/ Moves("stop")
    BY <1>4, Goes, Zenon DEF ActionMalformed, Attempt
  <2>2. Permitted(kind, failures + 1, policy) => failures + 1 <= MaxRecoveries
    BY LimitFacts DEF Permitted, BudgetInv, Counters
  <2>3. /\ attempts < MaxAttempts /\ node = "action" /\ failures' = failures + 1
        /\ attempts' = attempts + 1 /\ UNCHANGED <<steps, final, batch>>
    BY <1>4 DEF ActionMalformed, Attempt
  <2> QED
    BY <2>1, <2>2, <2>3, LimitFacts
    DEF final, batch, BudgetInv, Counters, Nodes, Outcomes, Paced, Budgeted,
        WithinRecursionLimit
<1>5. ASSUME NEW kind \in {"invalid", "incomplete"}, NEW policy \in BOOLEAN,
             FinalizationMalformed(kind, policy)
      PROVE  BudgetInv'
  <2>1. \/ finalizations + 1 < MaxFinalizations /\ Moves("finalization")
        \/ Moves("stop")
    BY <1>5, Goes, Zenon DEF FinalizationMalformed, Finalize
  <2>2. /\ node = "finalization" /\ finalizations < MaxFinalizations
        /\ finFailures' = finFailures + 1 /\ finalizations' = finalizations + 1
        /\ attempts' = attempts + 1 /\ UNCHANGED <<steps, failures, batch>>
    BY <1>5 DEF FinalizationMalformed, Finalize
  <2> QED
    BY <2>1, <2>2, LimitFacts
    DEF batch, BudgetInv, Counters, Nodes, Outcomes, Paced, Budgeted,
        WithinRecursionLimit
<1>6. ASSUME NEW n \in 1..MaxBatch, ActionTools(n) PROVE BudgetInv'
  BY <1>6, LimitFacts
  DEF ActionTools, Attempt, final, BudgetInv, Counters, Nodes, Outcomes, Paced,
      Budgeted, WithinRecursionLimit
<1>7. CASE CallRefused
  BY <1>7, LimitFacts
  DEF CallRefused, final, BudgetInv, Counters, Nodes, Outcomes, Paced, Budgeted,
      WithinRecursionLimit
<1>8. ASSUME NEW risky \in BOOLEAN, NEW ok \in BOOLEAN, CallRuns(risky, ok)
      PROVE  BudgetInv'
  <2>1. /\ node = "batch" /\ calls > 0 /\ ~(steps >= MaxSteps)
        /\ calls' = calls - 1 /\ steps' = steps + 1
        /\ UNCHANGED <<node, visits, attempts, failures, final, outcome>>
    BY <1>8 DEF CallRuns, Deferred
  <2> QED
    BY <2>1, LimitFacts
    DEF final, BudgetInv, Counters, Nodes, Outcomes, Paced, Budgeted,
        WithinRecursionLimit
<1>9. CASE BatchEnds
  <2>1. Moves("finalization") \/ Moves("action")
    BY <1>9, Goes, Zenon DEF BatchEnds
  <2> QED
    BY <1>9, <2>1, LimitFacts
    DEF BatchEnds, final, batch, BudgetInv, Counters, Nodes, Outcomes, Paced,
        Budgeted, WithinRecursionLimit
<1>10. CASE FinalizationFinal
  <2>1. Moves("delivery")
    BY <1>10, Goes, Zenon DEF FinalizationFinal, Finalize
  <2> QED
    BY <1>10, <2>1, LimitFacts
    DEF FinalizationFinal, Finalize, batch, BudgetInv, Counters, Nodes, Outcomes,
        Paced, Budgeted, WithinRecursionLimit
<1>11. ASSUME NEW result \in Outcomes \ {"out_of_steps"}, End(result),
              node \in {"delivery", "stop"},
              UNCHANGED <<attempts, steps, failures, final, batch>>
       PROVE  BudgetInv'
  <2>1. node' = "end" /\ visits' = visits + 1 /\ outcome' = result
    BY <1>11 DEF End
  <2> QED
    BY <1>11, <2>1, LimitFacts
    DEF final, batch, BudgetInv, Counters, Nodes, Outcomes, Paced, Budgeted,
        WithinRecursionLimit
<1>12. CASE Delivery
  <2>1. PICK result \in Delivered : End(result)
    BY <1>12 DEF Delivery
  <2>2. Delivered \subseteq Outcomes \ {"out_of_steps"}
    BY DEF Delivered, Outcomes
  <2>3. node = "delivery" /\ UNCHANGED <<attempts, steps, failures, final, batch>>
    BY <1>12 DEF Delivery
  <2> QED
    BY <1>11, <2>1, <2>2, <2>3
<1>13. CASE Stop
  <2>1. Delivered \subseteq Outcomes \ {"out_of_steps"}
    BY DEF Delivered, Outcomes
  <2>2. StopReason \in Outcomes \ {"out_of_steps"}
    BY Zenon DEF StopReason, Outcomes
  <2>3. PICK result \in Delivered \cup {StopReason} : End(result)
    BY <1>13, Zenon DEF Stop
  <2>4. node = "stop" /\ UNCHANGED <<attempts, steps, failures, final, batch>>
    BY <1>13 DEF Stop
  <2> QED
    BY <1>11, <2>1, <2>2, <2>3, <2>4
<1>14. CASE Abort
  BY <1>14, LimitFacts
  DEF Abort, final, batch, BudgetInv, Counters, Nodes, Outcomes, Paced, Budgeted,
      WithinRecursionLimit
<1>15. CASE UNCHANGED vars
  BY <1>15
  DEF vars, final, batch, BudgetInv, Counters, Nodes, Outcomes, Paced, Budgeted,
      WithinRecursionLimit
<1> QED
  BY <1>1, <1>2, <1>3, <1>4, <1>5, <1>6, <1>7, <1>8, <1>9, <1>10, <1>12, <1>13, <1>14,
     <1>15
  DEF Next, Finished

(* No run, however its model and its tools behave, runs into the recursion *)
(* limit that _run_active gives the graph.                                 *)
THEOREM NeverOutOfSteps == Spec => []WithinRecursionLimit
<1>1. BudgetInv => WithinRecursionLimit
  BY DEF BudgetInv
<1> QED
  BY <1>1, BudgetInit, BudgetStep, PTL DEF Spec

-----------------------------------------------------------------------------
(* The flags *)

LEMMA FlagsInit == Init => Flags
BY Zenon DEF Init, Flags

LEMMA FlagsStep == Flags /\ [Next]_vars => Flags'
<1> SUFFICES ASSUME Flags, [Next]_vars PROVE Flags'
  OBVIOUS
<1> USE DEF Flags
<1>1. CASE Bootstrap
  BY <1>1, Zenon DEF Bootstrap, batch, evidence
<1>2. CASE ActionExhausted
  BY <1>2, Zenon DEF ActionExhausted, batch, evidence
<1>3. CASE ActionFinal
  BY <1>3, Zenon DEF ActionFinal, Attempt, batch
<1>4. ASSUME NEW kind \in {"invalid", "incomplete"}, NEW policy \in BOOLEAN,
             ActionMalformed(kind, policy)
      PROVE  Flags'
  BY <1>4, Zenon DEF ActionMalformed, Attempt, batch, evidence
<1>5. ASSUME NEW kind \in {"invalid", "incomplete"}, NEW policy \in BOOLEAN,
             FinalizationMalformed(kind, policy)
      PROVE  Flags'
  BY <1>5, Zenon DEF FinalizationMalformed, Finalize, batch, evidence
<1>6. ASSUME NEW n \in 1..MaxBatch, ActionTools(n) PROVE Flags'
  BY <1>6, Zenon DEF ActionTools, Attempt, evidence
<1>7. CASE CallRefused
  BY <1>7, Zenon DEF CallRefused, evidence
<1>8. ASSUME NEW risky \in BOOLEAN, NEW ok \in BOOLEAN, CallRuns(risky, ok)
      PROVE  Flags'
  BY <1>8, Zenon DEF CallRuns, evidence
<1>9. CASE BatchEnds
  BY <1>9, Zenon DEF BatchEnds, batch, evidence
<1>10. CASE FinalizationFinal
  BY <1>10, Zenon DEF FinalizationFinal, Finalize, batch
<1>11. CASE Delivery
  BY <1>11, Zenon DEF Delivery, batch, evidence
<1>12. CASE Stop
  BY <1>12, Zenon DEF Stop, batch, evidence
<1>13. CASE Abort
  BY <1>13, Zenon DEF Abort, batch, evidence
<1>14. CASE UNCHANGED vars
  BY <1>14, Zenon DEF vars, batch, evidence
<1> QED
  BY <1>1, <1>2, <1>3, <1>4, <1>5, <1>6, <1>7, <1>8, <1>9, <1>10, <1>11, <1>12, <1>13,
     <1>14
  DEF Next, Finished

(* Every variable keeps its type and every counter its budget: batches of  *)
(* calls never overrun max_steps.                                          *)
THEOREM BudgetsKept == Spec => []TypeOK
<1>1. Counters /\ Flags => TypeOK
  BY DEF Counters, Flags, TypeOK
<1>2. BudgetInv => Counters
  BY DEF BudgetInv
<1> QED
  BY <1>1, <1>2, BudgetInit, BudgetStep, FlagsInit, FlagsStep, PTL DEF Spec

-----------------------------------------------------------------------------
(* Acceptance *)

LEMMA AcceptedInit == Init => Accepted
BY DEF Init, Accepted

(* A batch of verified work refuses what is left of it, and the only way   *)
(* from it to the stop node is a finalization given up.                    *)
LEMMA AcceptedStep == BudgetInv /\ Flags /\ Accepted /\ [Next]_vars => Accepted'
<1> SUFFICES ASSUME BudgetInv, Flags, Accepted, [Next]_vars PROVE Accepted'
  OBVIOUS
<1>1. CASE Bootstrap
  BY <1>1, Zenon DEF Bootstrap, Accepted
<1>2. CASE ActionExhausted
  BY <1>2, Zenon DEF ActionExhausted, Accepted
<1>3. CASE ActionFinal
  BY <1>3, Zenon DEF ActionFinal, Attempt, Accepted
<1>4. ASSUME NEW kind \in {"invalid", "incomplete"}, NEW policy \in BOOLEAN,
             ActionMalformed(kind, policy)
      PROVE  Accepted'
  BY <1>4, Zenon DEF ActionMalformed, Attempt, Accepted
<1>5. ASSUME NEW kind \in {"invalid", "incomplete"}, NEW policy \in BOOLEAN,
             FinalizationMalformed(kind, policy)
      PROVE  Accepted'
  <2>1. \/ node' = "finalization"
        \/ node' = "stop" /\ abandoned'
    BY <1>5, Goes, Zenon DEF FinalizationMalformed, Finalize
  <2>2. UNCHANGED <<requested, mutating, objection, changed>>
    BY <1>5, Zenon DEF FinalizationMalformed, Finalize, evidence
  <2> QED
    BY <2>1, <2>2 DEF Accepted
<1>6. ASSUME NEW n \in 1..MaxBatch, ActionTools(n) PROVE Accepted'
  BY <1>6, Zenon DEF ActionTools, Attempt, Accepted
<1>7. CASE CallRefused
  BY <1>7, Zenon DEF CallRefused, evidence, Accepted
<1>8. ASSUME NEW risky \in BOOLEAN, NEW ok \in BOOLEAN, CallRuns(risky, ok)
      PROVE  Accepted'
  <2>1. ~requested /\ node' = "batch"
    BY <1>8, Zenon DEF CallRuns, Deferred
  <2>2. requested' => mutating' /\ ~objection'
    BY <1>8, <2>1, Zenon DEF CallRuns
  <2> QED
    BY <2>1, <2>2 DEF Accepted
<1>9. CASE BatchEnds
  <2>1. requested => node' = "finalization"
    BY <1>9, Goes, Zenon DEF BatchEnds
  <2>2. UNCHANGED <<requested, mutating, objection, changed>>
    BY <1>9, Zenon DEF BatchEnds, evidence
  <2> QED
    BY <2>1, <2>2 DEF Accepted
<1>10. CASE FinalizationFinal
  <2>1. node' = "delivery"
    BY <1>10, Goes, Zenon DEF FinalizationFinal, Finalize
  <2>2. UNCHANGED <<requested, mutating, objection, changed>>
    BY <1>10, Zenon DEF FinalizationFinal, Finalize
  <2> QED
    BY <2>1, <2>2 DEF Accepted
<1>11. ASSUME NEW result \in Delivered, End(result),
              UNCHANGED <<requested, abandoned, evidence, mutating>>
       PROVE  Accepted'
  <2>1. requested /\ changed => result \in {"delivered", "conflict"}
    BY <1>11 DEF Delivered, Accepted
  <2> QED
    BY <1>11, <2>1 DEF End, evidence, Accepted
<1>12. CASE Delivery
  <2>1. UNCHANGED <<requested, abandoned, evidence, mutating>>
    BY <1>12 DEF Delivery
  <2> QED
    BY <1>11, <1>12, <2>1 DEF Delivery
<1>13. CASE Stop
  <2>1. UNCHANGED <<requested, abandoned, evidence, mutating>>
    BY <1>13 DEF Stop
  <2>2. CASE abandoned /\ DeliversAnyway
    BY <1>11, <1>13, <2>1, <2>2 DEF Stop
  <2>3. CASE ~(abandoned /\ DeliversAnyway)
    <3>1. ~(requested /\ changed)
      BY <1>13, <2>3, Zenon DEF Stop, DeliversAnyway, Accepted
    <3>2. node' = "end"
      BY <1>13, <2>3, Zenon DEF Stop, End
    <3> QED
      BY <1>13, <2>1, <3>1, <3>2 DEF Stop, evidence, Accepted
  <2> QED
    BY <2>2, <2>3
<1>14. CASE Abort
  BY <1>14, Zenon DEF Abort, evidence, Accepted
<1>15. CASE UNCHANGED vars
  BY <1>15 DEF vars, evidence, Accepted
<1> QED
  BY <1>1, <1>2, <1>3, <1>4, <1>5, <1>6, <1>7, <1>8, <1>9, <1>10, <1>12, <1>13, <1>14,
     <1>15
  DEF Next, Finished

(* A run that verified its changes and reaches its end delivers them or    *)
(* reports a conflict, also when the model fails to give a final answer.   *)
THEOREM VerifiedWorkIsDelivered == Spec => []VerifiedIsDelivered
<1>1. Accepted => VerifiedIsDelivered
  BY DEF Accepted, VerifiedIsDelivered
<1> QED
  BY <1>1, BudgetInit, BudgetStep, FlagsInit, FlagsStep, AcceptedInit, AcceptedStep, PTL
  DEF Spec

(* Once the work is verified no call of the batch under way runs any more. *)
THEOREM AcceptanceEndsTheBatch == Spec => NoToolAfterAcceptance
<1>1. ASSUME [Next]_vars, requested
      PROVE  requested' /\ UNCHANGED <<steps, objection, changed>>
  <2>1. ASSUME NEW kind, NEW policy,
               ActionMalformed(kind, policy) \/ FinalizationMalformed(kind, policy)
        PROVE  UNCHANGED <<requested, steps, evidence>>
    BY <2>1, Zenon DEF ActionMalformed, FinalizationMalformed
  <2>2. ASSUME NEW risky, NEW ok, CallRuns(risky, ok) PROVE FALSE
    BY <1>1, <2>2, Zenon DEF CallRuns, Deferred
  <2>3. CASE ActionFinal \/ FinalizationFinal
    BY <1>1, <2>3, Zenon DEF ActionFinal, FinalizationFinal
  <2>4. ASSUME \/ Bootstrap \/ ActionExhausted \/ CallRefused \/ BatchEnds
               \/ Delivery \/ Stop \/ Abort \/ UNCHANGED vars
               \/ \E n \in 1..MaxBatch : ActionTools(n)
        PROVE  UNCHANGED <<requested, steps, evidence>>
    BY <2>4, Zenon
    DEF Bootstrap, ActionExhausted, CallRefused, BatchEnds, Delivery, Stop, Abort,
        ActionTools, vars
  <2> QED
    BY <1>1, <2>1, <2>2, <2>3, <2>4 DEF Next, Finished, evidence
<1> QED
  BY <1>1, PTL DEF Spec, NoToolAfterAcceptance

-----------------------------------------------------------------------------
(* The run with its requests *)

LEMMA PermitsBoolean ==
    ASSUME NEW n, NEW why, NEW used, NEW sent
    PROVE  Permits(n, why, used, sent) \in BOOLEAN
BY DEF Permits

LEMMA RequestStep == [RequestNext]_allVars => [Next]_vars
<1> SUFFICES ASSUME [RequestNext]_allVars PROVE [Next]_vars
  OBVIOUS
<1>1. CASE \/ Prepare \/ Resend \/ UNCHANGED allVars
  <2>1. UNCHANGED vars
    BY <1>1 DEF Prepare, Resend, allVars
  <2> QED  BY <2>1
<1>2. CASE PrepareFails \/ RequestFails \/ Interrupted
  BY <1>2 DEF PrepareFails, RequestFails, Interrupted, Next
<1>3. CASE AnswersFinal
  BY <1>3 DEF AnswersFinal, Next
<1>4. ASSUME NEW n \in 1 .. MaxBatch, AnswersTools(n) PROVE Next
  BY <1>4 DEF AnswersTools, Next
<1>5. ASSUME NEW kind \in {"invalid", "incomplete"}, AnswersMalformed(kind) PROVE Next
  <2>1. \E policy \in BOOLEAN : ActionMalformed(kind, policy) \/ FinalizationMalformed(kind, policy)
    BY <1>5, PermitsBoolean, Zenon DEF AnswersMalformed
  <2> QED  BY <2>1 DEF Next
<1>6. CASE WithoutModel
  BY <1>6 DEF WithoutModel, Next
<1>7. CASE Over
  BY <1>7 DEF Over, Next
<1> QED  BY <1>1, <1>2, <1>3, <1>4, <1>5, <1>6, <1>7 DEF RequestNext, Step

(* Preparing, posting and repeating a request are steps the graph does not *)
(* see, and every answer is a turn of the graph (execute_model_turn).      *)
THEOREM RequestsImplementTheLoop == RequestSpec => Spec
<1>1. RequestInit => Init
  BY DEF RequestInit
<1> QED  BY <1>1, RequestStep, PTL DEF RequestSpec, Spec

(* With its requests, too, a run never reaches the recursion limit, and    *)
(* delivers what it verified (agent_loop_runtime.py, delivery_runtime.py). *)
THEOREM RequestsStayWithinTheLimit == RequestSpec => [](WithinRecursionLimit /\ VerifiedIsDelivered)
BY RequestsImplementTheLoop, NeverOutOfSteps, VerifiedWorkIsDelivered, PTL

----------------------------------------------------------------------------
(* What the next request will ask for was settled when the last answer was *)
(* rejected: the invariant carries the permission from there to the post.  *)

Granted ==
    reason = "exhausted" /\ usage # None =>
        /\ phase = "ready" /\ node \in {"action", "finalization"} =>
              RecoveryLimit(usage, limit) > usage
        /\ phase = "sending" => limit > usage

(* A rejected answer counts as a failure of the turn that is repeated, and *)
(* a run does not go from an exhausted action turn to finalization.        *)
Rejected ==
    /\ failures \in Nat /\ finFailures \in Nat /\ steps \in Nat /\ phase \in {"ready", "sending"}
    /\ reason = "exhausted" =>
          /\ node \notin {"bootstrap", "batch"}
          /\ node = "action" => failures > 0 /\ steps < MaxSteps
          /\ node = "finalization" => finFailures > 0

GrowInv == Granted /\ Rejected

LEMMA InitGrow == RequestInit => GrowInv
<1> SUFFICES ASSUME RequestInit PROVE GrowInv
  OBVIOUS
<1>1. reason # "exhausted"
  BY DEF RequestInit
<1>2. failures = 0 /\ finFailures = 0 /\ steps = 0 /\ phase = "ready"
  BY DEF RequestInit, Init
<1> QED  BY <1>1, <1>2 DEF GrowInv, Granted, Rejected

LEMMA AcceptGrow ==
    ASSUME Accept, failures' \in Nat, finFailures' \in Nat, steps' \in Nat
    PROVE  GrowInv'
<1>1. reason' # "exhausted" /\ phase' = "ready"
  BY DEF Accept, Respond
<1> QED  BY <1>1 DEF GrowInv, Granted, Rejected

LEMMA AbortGrow ==
    ASSUME GrowInv, Abort, UNCHANGED <<capabilities, limit, usage, reason>>,
           phase' = "ready" \/ UNCHANGED phase
    PROVE  GrowInv'
BY DEF GrowInv, Granted, Rejected, Abort, final

LEMMA MalformedGrow ==
    ASSUME GrowInv, NEW kind \in {"invalid", "incomplete"}, AnswersMalformed(kind)
    PROVE  GrowInv'
<1> DEFINE policy == Permits(Failures + 1, reason', usage', limit)
<1>1. /\ phase = "sending" /\ phase' = "ready" /\ UNCHANGED <<capabilities, limit>>
      /\ reason' = "exhausted" => kind = "incomplete"
      /\ ActionMalformed(kind, policy) \/ FinalizationMalformed(kind, policy)
  BY DEF AnswersMalformed, Respond, Reasons
<1>2. reason' = "exhausted" /\ policy /\ usage' # None => (RecoveryLimit(usage, limit) > usage)'
  BY <1>1 DEF Permits, RecoveryLimit, Baseline, Ceiling, Exhaustion
<1> HIDE DEF policy
<1>3. CASE ActionMalformed(kind, policy)
  <2>1. /\ node' \in {"action", "stop", "raised"}
        /\ node' = "action" => Permitted(kind, failures + 1, policy)
        /\ steps < MaxSteps /\ steps' = steps
        /\ failures' = failures + 1 /\ finFailures' = finFailures
    BY <1>3 DEF ActionMalformed, Attempt, Goto, final
  <2> QED  BY <1>1, <1>2, <2>1 DEF GrowInv, Granted, Rejected, Permitted
<1>4. CASE FinalizationMalformed(kind, policy)
  <2>1. /\ node' \in {"finalization", "stop", "raised"}
        /\ node' = "finalization" => Permitted(kind, finFailures + 1, policy)
        /\ finFailures' = finFailures + 1 /\ failures' = failures
        /\ steps' = steps
    BY <1>4 DEF FinalizationMalformed, Goto
  <2> QED  BY <1>1, <1>2, <2>1 DEF GrowInv, Granted, Rejected, Permitted
<1> QED  BY <1>1, <1>3, <1>4

LEMMA SilentGrow == ASSUME GrowInv, WithoutModel PROVE GrowInv'
<1>1. phase = "ready" /\ UNCHANGED <<capabilities, phase, limit, usage, reason>>
  BY DEF WithoutModel, request
<1>2. CASE Bootstrap \/ BatchEnds \/ CallRefused \/ \E risky, ok \in BOOLEAN : CallRuns(risky, ok)
  <2>1. node \in {"bootstrap", "batch"} /\ failures' \in Nat /\ finFailures' \in Nat /\ steps' \in Nat
    BY <1>2 DEF Bootstrap, BatchEnds, CallRefused, CallRuns, final, GrowInv, Rejected
  <2> QED  BY <1>1, <2>1 DEF GrowInv, Granted, Rejected
<1>3. CASE ActionExhausted
  <2>1. /\ node = "action" /\ (node' = "finalization" => steps >= MaxSteps)
        /\ node' \in {"finalization", "stop", "raised"} /\ UNCHANGED <<failures, finFailures, steps>>
    BY <1>3 DEF ActionExhausted, Goto, final
  <2>2. reason = "exhausted" => node' # "finalization"
    BY <2>1, LimitFacts DEF GrowInv, Rejected
  <2> QED  BY <1>1, <2>1, <2>2 DEF GrowInv, Granted, Rejected
<1>4. CASE Delivery \/ Stop
  <2>1. node' = "end" /\ UNCHANGED <<failures, finFailures, steps>>
    BY <1>4 DEF Delivery, Stop, End, final
  <2> QED  BY <1>1, <2>1 DEF GrowInv, Granted, Rejected
<1> QED  BY <1>2, <1>3, <1>4 DEF WithoutModel

LEMMA NextGrow == GrowInv /\ [RequestNext]_allVars => GrowInv'
<1> SUFFICES ASSUME GrowInv, [RequestNext]_allVars PROVE GrowInv'
  OBVIOUS
<1>1. CASE Prepare
  <2>1. /\ phase = "ready" /\ phase' = "sending" /\ MayRequest
        /\ limit' = IF Recovering THEN RecoveryLimit(usage, limit) ELSE FirstLimit
        /\ UNCHANGED <<node, steps, failures, finFailures, usage, reason>>
    BY <1>1 DEF Prepare, vars, final
  <2>2. reason = "exhausted" => Recovering /\ node \in {"action", "finalization"}
    BY <2>1 DEF GrowInv, Rejected, Recovering, Failures, MayRequest, Exhaustion
  <2>3. reason = "exhausted" /\ usage # None => limit' > usage
    BY <2>1, <2>2 DEF GrowInv, Granted
  <2> QED  BY <2>1, <2>3 DEF GrowInv, Granted, Rejected
<1>2. CASE Resend \/ Over \/ UNCHANGED allVars
  <2>1. UNCHANGED <<node, steps, failures, finFailures, capabilities, phase, limit, usage, reason>>
    BY <1>2 DEF Resend, Over, Finished, allVars, request, vars, final
  <2> QED  BY <2>1 DEF GrowInv, Granted, Rejected, RecoveryLimit, Baseline, Ceiling
<1>3. CASE PrepareFails \/ RequestFails \/ Interrupted
  BY <1>3, AbortGrow DEF PrepareFails, RequestFails, Interrupted, request
<1>4. CASE AnswersFinal
  <2>1. failures' \in Nat /\ finFailures' \in Nat /\ steps' \in Nat
    BY <1>4 DEF AnswersFinal, ActionFinal, FinalizationFinal, GrowInv, Rejected, final
  <2> QED  BY <1>4, <2>1, AcceptGrow DEF AnswersFinal
<1>5. ASSUME NEW n \in 1 .. MaxBatch, AnswersTools(n) PROVE GrowInv'
  <2>1. failures' \in Nat /\ finFailures' \in Nat /\ steps' \in Nat
    BY <1>5 DEF AnswersTools, ActionTools, GrowInv, Rejected, final
  <2> QED  BY <1>5, <2>1, AcceptGrow DEF AnswersTools
<1>6. ASSUME NEW kind \in {"invalid", "incomplete"}, AnswersMalformed(kind) PROVE GrowInv'
  BY <1>6, MalformedGrow
<1>7. CASE WithoutModel
  BY <1>7, SilentGrow
<1> QED  BY <1>1, <1>2, <1>3, <1>4, <1>5, <1>6, <1>7 DEF RequestNext, Step

(* A request that recovers a cut answer asks for more tokens than that     *)
(* answer used, for every cap, limit and usage (ModelExecutionPolicy,      *)
(* recovery_permitted).                                                    *)
THEOREM EveryRecoveryGrows == RequestSpec => []RecoveryGrows
<1>1. GrowInv => RecoveryGrows
  BY DEF GrowInv, Granted, RecoveryGrows
<1> QED  BY <1>1, InitGrow, NextGrow, PTL DEF RequestSpec
=============================================================================
