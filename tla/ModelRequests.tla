--------------------------- MODULE ModelRequests ---------------------------
(***************************************************************************)
(* The model requests of an agent run: the turns of AgentLoop with the     *)
(* request each of them makes (pico/runtime/model_turn_runtime.py), the    *)
(* limits and the recoveries that ModelExecutionPolicy grants it           *)
(* (pico/execution/model_execution_policy.py) and the transport below      *)
(* (pico/providers/clients.py).                                            *)
(*                                                                         *)
(* A request is posted up to MaxPosts times.  What comes back is an answer,*)
(* an answer that was cut short or is malformed, which the run may ask for *)
(* again, or a failure, which ends the run.                                *)
(*                                                                         *)
(* Simplifications:                                                        *)
(*   - a number of tokens is a small number, None is 0;                    *)
(*   - of the metadata of a completion the output tokens are kept, of the  *)
(*     reason of a failure whether it names an exhausted output;           *)
(*   - reasoning effort, input budget and usage samples are left out;      *)
(*   - the client is the OpenAI-compatible one: the Anthropic one differs  *)
(*     in what it calls a failure, Ollama's makes one post.                *)
(***************************************************************************)
EXTENDS AgentLoop

CONSTANTS
    MaxPosts,         \* attempts of _request_responses
    Limits,           \* output limits a user or a provider may set, with None
    Usages            \* output tokens a provider may report, with None

ASSUME PostsAssumption == MaxPosts \in Nat \ {0}
ASSUME TokensAssumption == Limits \subseteq Nat /\ Usages \subseteq Nat

None == 0

VARIABLES
    capabilities,  \* the user's cap, the provider's limit, whether one is required
    phase,         \* ready, or sending a request
    post,          \* attempt of the transport
    limit,         \* requested_output_tokens of the last request
    usage,         \* output_tokens of its completion
    reason         \* why its answer was rejected, "" if it was not

request == <<phase, post, limit, usage, reason>>
allVars == <<vars, capabilities, request>>

RequestInit ==
    /\ Init
    /\ capabilities \in [cap: Limits, provider: Limits, required: BOOLEAN]
    /\ phase = "ready" /\ post = 0 /\ limit = None /\ usage = None /\ reason = ""

-----------------------------------------------------------------------------
(* ModelExecutionPolicy.for_turn *)

Smaller(m, n) == IF m < n THEN m ELSE n

Ceiling ==
    IF None \in {capabilities.cap, capabilities.provider}
    THEN capabilities.cap + capabilities.provider
    ELSE Smaller(capabilities.cap, capabilities.provider)

(* Without a cap of the user the provider decides, unless it wants to be   *)
(* told its own limit.                                                     *)
FirstLimit ==
    IF capabilities.cap # None THEN capabilities.cap
    ELSE IF capabilities.required THEN capabilities.provider ELSE None

Baseline(used, sent) == IF used # None THEN used ELSE sent

(* Twice what was consumed, as far as there is room. *)
RecoveryLimit(used, sent) ==
    LET doubled == 2 * Baseline(used, sent)
    IN  IF Baseline(used, sent) = None THEN Ceiling
        ELSE IF Ceiling = None THEN doubled ELSE Smaller(doubled, Ceiling)

(* _is_output_exhaustion: the text of a reason names tokens or a length.    *)
(* That of an answer whose output was cut does, or names another cause;    *)
(* that of an invalid answer may do so by mistake.                         *)
Reasons(kind) ==
    IF kind = "incomplete" THEN {"exhausted", "protocol"} ELSE {"mistaken", "protocol"}

Exhaustion == {"exhausted", "mistaken"}

(* Is the recovery number n from a failure permitted?  Mutant: also when   *)
(* there is no room to grow.                                               *)
PermitsAnyway(n, why, used, sent) == n <= MaxRecoveries

Permits(n, why, used, sent) ==
    /\ n <= MaxRecoveries
    /\ why \in Exhaustion =>
          IF Baseline(used, sent) # None THEN RecoveryLimit(used, sent) > Baseline(used, sent)
          ELSE Ceiling # None \/ n <= 1

-----------------------------------------------------------------------------
(* One request *)

MayRequest ==
    \/ node = "action" /\ steps < MaxSteps /\ attempts < MaxAttempts
    \/ node = "finalization" /\ finalizations < MaxFinalizations

Failures == IF node = "finalization" THEN finFailures ELSE failures

Recovering == Failures > 0 /\ reason \in Exhaustion

Prepare ==
    /\ phase = "ready" /\ MayRequest
    /\ FirstLimit # None \/ ~capabilities.required
    /\ phase' = "sending" /\ post' = 1
    /\ limit' = IF Recovering THEN RecoveryLimit(usage, limit) ELSE FirstLimit
    /\ UNCHANGED <<vars, capabilities, usage, reason>>

(* for_turn raises: the provider requires a limit and there is none. *)
PrepareFails ==
    /\ phase = "ready" /\ MayRequest
    /\ FirstLimit = None /\ capabilities.required
    /\ Abort /\ UNCHANGED <<capabilities, request>>

(* A timeout, a lost connection or a status that may be retried. *)
Resend ==
    /\ phase = "sending" /\ post < MaxPosts
    /\ post' = post + 1
    /\ UNCHANGED <<vars, capabilities, phase, limit, usage, reason>>

(* The last attempt fails, or in a way that is not tried again: the        *)
(* failure is persisted, and raised through the graph.  Mutant: the turn   *)
(* swallows it and asks again.                                             *)
RequestFailsQuietly ==
    /\ phase = "sending" /\ phase' = "ready"
    /\ UNCHANGED <<vars, capabilities, post, limit, usage, reason>>

RequestFails ==
    /\ phase = "sending" /\ phase' = "ready"
    /\ Abort /\ UNCHANGED <<capabilities, post, limit, usage, reason>>

Respond == phase = "sending" /\ phase' = "ready" /\ post' = 0 /\ UNCHANGED capabilities

(* What an accepted answer used is not read again. *)
Accept == Respond /\ reason' = "" /\ usage' = None /\ limit' = None

AnswersFinal == Accept /\ (ActionFinal \/ FinalizationFinal)

AnswersTools(n) == Accept /\ ActionTools(n)

(* Asked to finalize, a call of a tool is malformed, too. *)
AnswersMalformed(kind) ==
    /\ Respond /\ usage' \in Usages /\ UNCHANGED limit
    /\ reason' \in Reasons(kind)
    /\ LET policy == Permits(Failures + 1, reason', usage', limit)
       IN  ActionMalformed(kind, policy) \/ FinalizationMalformed(kind, policy)

-----------------------------------------------------------------------------
(* The run *)

WithoutModel ==
    /\ phase = "ready" /\ UNCHANGED <<capabilities, request>>
    /\ \/ Bootstrap \/ ActionExhausted \/ CallRefused \/ BatchEnds \/ Delivery \/ Stop
       \/ \E risky, ok \in BOOLEAN : CallRuns(risky, ok)

Step ==
    \/ Prepare \/ PrepareFails \/ Resend \/ RequestFails
    \/ AnswersFinal \/ \E n \in 1 .. MaxBatch : AnswersTools(n)
    \/ \E kind \in {"invalid", "incomplete"} : AnswersMalformed(kind)
    \/ WithoutModel

Interrupted == Abort /\ UNCHANGED <<capabilities, request>>

Over == Finished /\ UNCHANGED <<capabilities, request>>

RequestNext == Step \/ Interrupted \/ Over

(* Every post has a timeout and every command one, so the thread of a run  *)
(* is never stuck; an approval is taken to be answered.                    *)
RequestSpec == RequestInit /\ [][RequestNext]_allVars /\ WF_allVars(Step)

-----------------------------------------------------------------------------
(* Properties *)

(* A request that replaces one whose answer was cut short asks for more    *)
(* tokens than that answer is known to have used (not for more than the    *)
(* request had asked for): the permission that was given on the failure    *)
(* still describes the request that is sent.                               *)
RecoveryGrows ==
    phase = "sending" /\ Failures > 0 /\ reason = "exhausted" /\ usage # None => limit > usage

(* Every run ends: the retries of the transport, the recoveries of a turn, *)
(* the deferred answers and the turns of finalization are all bounded.     *)
RunEnds == <>(node \in {"end", "raised"})
=============================================================================
