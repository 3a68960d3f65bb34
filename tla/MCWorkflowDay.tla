--------------------------- MODULE MCWorkflowDay ---------------------------
(***************************************************************************)
(* What a tick of the workflow decides from the files of earlier ticks:    *)
(* the budget, whether to ask for a plan, and the feedback to apply.  The  *)
(* parts share no state here and are checked in one run: each behaviour is *)
(* of one of them, and the others stay in an initial state.                *)
(***************************************************************************)
EXTENDS MCWorkflowBudget, MCPolicyFeedback, LlmPlanning

VARIABLE scene
MCVars == <<scene, vars, feedbackVars, planVars>>

MCInit ==
  /\ scene \in {"budget", "feedback", "plan"}
  /\ Init /\ FeedbackInit /\ PlanInit
  /\ scene = "feedback" \/ (requested = "off" /\ boundary = CHOOSE b \in Boundaries : TRUE)
  /\ scene = "plan" \/ (kind = "disabled" /\ env = NoKey /\ adapter.digest = CHOOSE d \in Digests : TRUE)

MCNext ==
  \/ scene = "budget" /\ Next /\ UNCHANGED <<scene, feedbackVars, planVars>>
  \/ scene = "feedback" /\ FeedbackNext /\ UNCHANGED <<scene, vars, planVars>>
  \/ scene = "plan" /\ PlanNext /\ UNCHANGED <<scene, vars, feedbackVars>>

MCFairness ==
  /\ WF_vars(scene = "budget" /\ (Drain \/ Tick))
  /\ WF_planVars(scene = "plan" /\ StageStep)
  /\ WF_planVars(scene = "plan" /\ TimePasses)
MCSpec == MCInit /\ [][MCNext]_MCVars /\ MCFairness

\* The types of the parts.
DayTypeOK == TypeOK /\ FeedbackTypeOK /\ PlanTypeOK
=============================================================================
