---------------------------- MODULE LlmPlanning ----------------------------
(***************************************************************************)
(* The planning stage of a tick: the engine's run_llm_plan under the       *)
(* stage runner, the planning adapter (llm_planning.py), the bounded       *)
(* repair loop (planning/repair.py) and what the providers make of a       *)
(* response (llm/provider).  One plan artifact, one process at a time that *)
(* may die at every step.  Time is what is left of the artifact's delay:   *)
(* a tick uses the time of its own start for every comparison.             *)
(***************************************************************************)
EXTENDS Integers

CONSTANTS Keys,         \* values of the credential's environment variable
          NoKey,        \* the variable is not set
          Digests,      \* provider configurations, by config_digest
          ValidDigests, \* those that resolve_llm_provider_config accepts
          Kinds,        \* kinds of provider that the run explores
          MaxRepairs,   \* max_structure_repairs
          RetryBase, RetryCap,  \* LLM_RETRY_BASE_SECONDS, LLM_RETRY_CAP_SECONDS
          CountCap,     \* attempt_count is told apart up to this many attempts
          None

NetworkKinds == {"openai_compatible", "anthropic", "gemini"}

ASSUME PlanningConstants ==
  /\ NoKey \notin Keys /\ ValidDigests \subseteq Digests
  /\ Kinds \subseteq NetworkKinds \cup {"ollama", "cli", "disabled"}
  /\ MaxRepairs \in 0..5 /\ RetryBase \in Nat \ {0} /\ RetryCap \in Nat
  /\ CountCap \in 1..30 /\ RetryBase * 2^(CountCap - 1) >= RetryCap

VARIABLES
  kind,       \* which sort of provider is configured
  env,        \* the credential in the process's environment
  adapter,    \* the process's LLMPlanAdapter
  artifact,   \* llm_plan of the plan file, or None
  checkpoint, \* status of the llm_planning stage checkpoint
  attempt,    \* locals of _run_llm_plan_uncheckpointed and of the repair loop
  planAt      \* where the tick stands in run_llm_plan

planVars == <<kind, env, adapter, artifact, checkpoint, attempt, planAt>>

----------------------------------------------------------------------------
(* Configuration and providers                                             *)

\* resolve_llm_provider_config with require_credentials, and the factory:
\* the answers are whether a provider could be made.  A command line is looked
\* up on the machine, so it may be found or not.
Makes(d, key) ==
  IF d \notin ValidDigests THEN {FALSE}
  ELSE IF kind \in NetworkKinds THEN {key # NoKey}
  ELSE IF kind = "cli" THEN BOOLEAN ELSE {TRUE}

\* LLMPlanAdapter.from_config: seen is _credential_value; ready says that there
\* is a provider, broken that a configuration_error is kept.
FreshAdapters(d, key) ==
  {[digest |-> d, seen |-> IF kind \in NetworkKinds THEN key ELSE NoKey,
    ready |-> ok, broken |-> ~ok] : ok \in Makes(d, key)}

NetworkCredentialChanged == kind \in NetworkKinds /\ env # adapter.seen

\* prepare_for_attempt.
Prepared ==
  IF NetworkCredentialChanged
    THEN {[adapter EXCEPT !.seen = env, !.ready = ok, !.broken = ~ok] :
            ok \in Makes(adapter.digest, env)}
    ELSE {adapter}

\* _post_json_with_session: transport failures, then the status of the response.
HttpError(status, long) ==
  CASE status \in {401, 403} -> [code |-> "authentication_error", retryable |-> FALSE]
    [] status = 429 -> [code |-> "rate_limited", retryable |-> TRUE]
    [] status \notin {401, 403, 429} /\ long ->
         [code |-> "context_length_exceeded", retryable |-> FALSE]
    [] OTHER -> [code |-> "provider_error", retryable |-> status >= 500]

TransportErrors ==
  {[code |-> c, retryable |-> TRUE] : c \in {"timeout", "connection_error", "provider_error"}}

Terminal(codes) == {[code |-> c, retryable |-> FALSE] : c \in codes}

\* What the answer itself may be refused for: nothing readable in it, or content
\* that is not a JSON object or array (validate_structured_content).  Gemini also
\* reports what its safety filter has blocked.
OpenAIErrors == Terminal({"invalid_response", "invalid_structured_output"})
AnthropicErrors == Terminal({"invalid_response", "invalid_structured_output"})
GeminiErrors == Terminal({"invalid_response", "invalid_structured_output", "provider_error"})
OllamaErrors == Terminal({"invalid_response", "invalid_structured_output"})
CliAnswerErrors == Terminal({"invalid_response", "invalid_structured_output"})

\* CLIProvider.complete: of the process's failures only a timeout may be tried
\* again; too much output, a bad start and a non-zero exit may not.
CliErrors == {[code |-> "timeout", retryable |-> TRUE]} \cup Terminal({"process_error"})

HttpErrors ==
  TransportErrors \cup Terminal({"invalid_response"}) \cup
  {HttpError(s, long) : s \in {400, 401, 403, 429, 500}, long \in BOOLEAN}

\* What provider.complete may raise.
Errors ==
  CASE kind = "cli" -> CliErrors \cup CliAnswerErrors
    [] kind = "ollama" -> HttpErrors \cup OllamaErrors
    [] kind = "gemini" -> HttpErrors \cup GeminiErrors
    [] kind = "anthropic" -> HttpErrors \cup AnthropicErrors
    [] OTHER -> HttpErrors \cup OpenAIErrors

InvalidConfiguration == [code |-> "invalid_configuration", retryable |-> FALSE]
RepairsExhausted == [code |-> "invalid_structured_output", retryable |-> FALSE]
Success == [code |-> "none", retryable |-> FALSE]

----------------------------------------------------------------------------
(* The plan file                                                           *)

Lesser(a, b) == IF a < b THEN a ELSE b

\* attempt_count: the attempts of this configuration, the last one included.
AttemptCount(prev) ==
  IF prev # None /\ prev.digest = adapter.digest
    THEN Lesser(prev.count + 1, CountCap) ELSE 1

Delay(count) == Lesser(RetryBase * 2^(count - 1), RetryCap)

\* Faulty variant: an error is asked again by the same process as well.
ReusableSuccessOnly(plan, changed) ==
  plan # None /\ plan.digest = adapter.digest /\ ~changed /\ plan.status = "success"

\* Faulty variant: the delay of an error is not looked at.
ReusableForEver(plan, changed) ==
  plan # None /\ plan.digest = adapter.digest /\ ~changed

\* _reuse_llm_plan_artifact.
Reusable(plan, changed) ==
  /\ plan # None
  /\ plan.digest = adapter.digest
  /\ ~changed
  /\ \/ plan.status = "success"
     \/ plan.status = "error" /\ plan.retryable /\ plan.left > 0
     \/ plan.status = "error" /\ ~plan.retryable /\ plan.mine

\* payload["llm_plan"]: delay is what next_retry_at adds to the tick's start,
\* left what is still to come of it, mine that this process wrote it.
PlanOf(result, count, left) ==
  LET retry == result # Success /\ result.retryable
                 /\ result.code # "authentication_error" IN
  [status |-> IF result = Success THEN "success" ELSE "error",
   retryable |-> retry, count |-> count,
   digest |-> adapter.digest, mine |-> TRUE,
   delay |-> IF retry THEN Delay(count) ELSE 0,
   left |-> IF retry THEN left ELSE 0]

----------------------------------------------------------------------------
(* The stage                                                               *)

NoAttempt == [changed |-> FALSE, prev |-> None, round |-> 0, result |-> Success]

PlanInit ==
  /\ kind \in Kinds
  /\ env \in Keys \cup {NoKey}
  /\ \E d \in Digests : adapter \in FreshAdapters(d, env)
  /\ artifact = None
  /\ checkpoint = "none"
  /\ attempt = NoAttempt
  /\ planAt = "idle"

\* StageCheckpointStore.write: the file is replaced whole.
Saves(status) == checkpoint' = status

\* StageRunner.run: the replay policy is "safe", so an interrupted attempt is
\* simply begun again.  The tick's now is taken here, so what the tick will know
\* of the delay is what is left of it at this moment.
StageBegins ==
  /\ planAt = "idle"
  /\ Saves("running")
  /\ attempt' = [NoAttempt EXCEPT !.prev = artifact]
  /\ planAt' = "begun"
  /\ UNCHANGED <<kind, env, adapter, artifact>>

NotConfigured ==
  /\ planAt = "begun" /\ kind = "disabled"
  /\ Saves("skipped")
  /\ planAt' = "idle"
  /\ UNCHANGED <<kind, env, adapter, artifact, attempt>>

PrepareAdapter ==
  /\ planAt = "begun" /\ kind # "disabled"
  /\ adapter' \in Prepared
  /\ attempt' = [attempt EXCEPT !.changed = NetworkCredentialChanged]
  /\ planAt' = "prepared"
  /\ UNCHANGED <<kind, env, artifact, checkpoint>>

Reuse ==
  /\ planAt = "prepared" /\ Reusable(attempt.prev, attempt.changed)
  /\ planAt' = "written"
  /\ UNCHANGED <<kind, env, adapter, artifact, checkpoint, attempt>>

\* call_configured prepares once more before it asks; a configuration error
\* is the answer without a request.
Ask ==
  /\ planAt = "prepared" /\ ~Reusable(attempt.prev, attempt.changed)
  /\ adapter' \in Prepared
  /\ IF adapter'.broken
       THEN planAt' = "answered" /\ attempt' = [attempt EXCEPT !.result = InvalidConfiguration]
       ELSE planAt' = "asking" /\ attempt' = [attempt EXCEPT !.round = 1]
  /\ UNCHANGED <<kind, env, artifact, checkpoint>>

RoundsLeft(r) == r <= MaxRepairs

\* generate_plan_proposal_result: an answer that is not a plan_proposal goes
\* back with its errors; what the provider raises ends the loop.  Under the
\* legacy contract (call) every JSON answer fits.
AnswerFits ==
  /\ planAt = "asking"
  /\ attempt' = [attempt EXCEPT !.result = Success]
  /\ planAt' = "answered"
  /\ UNCHANGED <<kind, env, adapter, artifact, checkpoint>>

AnswerIsMisshaped ==
  /\ planAt = "asking"
  /\ IF RoundsLeft(attempt.round)
       THEN attempt' = [attempt EXCEPT !.round = @ + 1] /\ UNCHANGED planAt
       ELSE attempt' = [attempt EXCEPT !.result = RepairsExhausted] /\ planAt' = "answered"
  /\ UNCHANGED <<kind, env, adapter, artifact, checkpoint>>

RequestFails ==
  /\ planAt = "asking"
  /\ \E e \in Errors : attempt' = [attempt EXCEPT !.result = e]
  /\ planAt' = "answered"
  /\ UNCHANGED <<kind, env, adapter, artifact, checkpoint>>

\* The ledger is written between the answer and this file; the call may have
\* used up any part of the delay.
WritePlan ==
  /\ planAt = "answered"
  /\ LET count == AttemptCount(attempt.prev) IN
     \E left \in 0..Delay(count) : artifact' = PlanOf(attempt.result, count, left)
  /\ planAt' = "written"
  /\ UNCHANGED <<kind, env, adapter, checkpoint, attempt>>

\* Faulty variant: an error that may be tried again counts as done.
OutcomeAlwaysCompleted(plan) == "completed"

Outcome(plan) == IF plan.status = "error" /\ plan.retryable THEN "deferred" ELSE "completed"

StageEnds ==
  /\ planAt = "written"
  /\ Saves(Outcome(artifact))
  /\ planAt' = "idle"
  /\ UNCHANGED <<kind, env, adapter, artifact, attempt>>

\* An exception, a write that fails for instance: the stage is failed and the
\* tick ends; the process goes on with the next one.
StageFails ==
  /\ planAt \in {"begun", "prepared", "answered", "written"}
  /\ Saves("failed")
  /\ planAt' = "idle"
  /\ UNCHANGED <<kind, env, adapter, artifact, attempt>>

\* The process dies and another one starts, perhaps with another
\* configuration.  Its instance id is new, so no plan is its own.
Restart ==
  /\ \E d \in Digests : adapter' \in FreshAdapters(d, env)
  /\ artifact' = IF artifact = None THEN None ELSE [artifact EXCEPT !.mine = FALSE]
  /\ attempt' = NoAttempt
  /\ planAt' = "idle"
  /\ UNCHANGED <<kind, env, checkpoint>>

SetKey ==
  /\ \E k \in (Keys \cup {NoKey}) \ {env} : env' = k
  /\ kind \in NetworkKinds
  /\ UNCHANGED <<kind, adapter, artifact, checkpoint, attempt, planAt>>

TimePasses ==
  /\ artifact # None /\ artifact.left > 0
  /\ artifact' = [artifact EXCEPT !.left = @ - 1]
  /\ UNCHANGED <<kind, env, adapter, checkpoint, attempt, planAt>>

StageStep ==
  \/ StageBegins \/ NotConfigured \/ PrepareAdapter \/ Reuse \/ Ask
  \/ AnswerFits \/ AnswerIsMisshaped \/ RequestFails \/ WritePlan \/ StageEnds

PlanNext == StageStep \/ StageFails \/ Restart \/ SetKey \/ TimePasses

\* The engine ticks for ever, a request ends within its timeout, time passes.
\* Nothing is assumed of what the provider answers.
PlanFairness == WF_planVars(StageStep) /\ WF_planVars(TimePasses)
PlanSpec == PlanInit /\ [][PlanNext]_planVars /\ PlanFairness

----------------------------------------------------------------------------
(* Properties                                                              *)

Plans ==
  [status: {"success", "error"}, retryable: BOOLEAN, count: 1..CountCap,
   digest: Digests, mine: BOOLEAN, delay: 0..RetryCap, left: 0..RetryCap]

\* A plan file without llm_plan is told from one with it.
ASSUME NoneIsNoPlan == None \notin Plans

Results == [code: {"none", "authentication_error", "rate_limited", "timeout",
  "connection_error", "provider_error", "invalid_response", "invalid_structured_output",
  "context_length_exceeded", "invalid_configuration", "process_error"},
  retryable: BOOLEAN]

\* Types; the repair loop generates at most MaxRepairs + 1 answers.
PlanTypeOK ==
  /\ kind \in Kinds /\ env \in Keys \cup {NoKey}
  /\ adapter \in [digest: Digests, seen: Keys \cup {NoKey}, ready: BOOLEAN, broken: BOOLEAN]
  /\ artifact \in Plans \cup {None}
  /\ checkpoint \in {"none", "running", "skipped", "completed", "deferred", "failed"}
  /\ attempt \in [changed: BOOLEAN, prev: Plans \cup {None},
                  round: 0..MaxRepairs + 1, result: Results]
  /\ planAt \in {"idle", "begun", "prepared", "asking", "answered", "written"}

\* A finished checkpoint tells the truth about the plan file, although the two
\* are written one after the other and the process may die between them.
CheckpointMatchesPlan ==
  /\ checkpoint = "deferred" =>
       artifact # None /\ artifact.status = "error" /\ artifact.retryable
  /\ checkpoint = "completed" =>
       artifact # None /\ (artifact.status = "error" => ~artifact.retryable)

\* What the tick that replaces a plan knew of it when it began: a plan that
\* succeeded is final for its configuration and credential, an error that may be
\* tried again has waited, any other error is tried again by another process.
PlanIsReplacedForAReason ==
  [][planAt = "answered" /\ planAt' = "written" /\ artifact # None =>
       LET old == attempt.prev IN
       \/ adapter.digest # old.digest
       \/ attempt.changed
       \/ /\ old.status = "error"
          /\ IF old.retryable THEN old.left = 0 ELSE ~old.mine]_planVars

\* A plan that was put off is asked for again, if from some time on no process
\* dies and no stage fails.
StaysUp == <>[][StageStep \/ SetKey \/ TimePasses]_planVars
Deferred == artifact # None /\ artifact.retryable
DeferredIsAskedAgain ==
  StaysUp => (Deferred ~> (~Deferred \/ planAt \in {"asking", "answered"}))

=============================================================================
