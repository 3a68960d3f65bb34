---------------------------- MODULE MCSubmission ----------------------------
(***************************************************************************)
(* The submission worker and the intake of its jobs share no state here    *)
(* and are checked in one run: each behaviour is of one of them, and the   *)
(* other stays in its initial state.                                       *)
(***************************************************************************)
EXTENDS SubmissionWorker, SubmissionIntake

VARIABLE scene
MCVars == <<scene, vars, intakeVars>>

\* In the intake nothing is submitted yet, each run has every alpha ready, and
\* the first one's decisions were taken before.
MCInit ==
  /\ scene \in {"worker", "intake"}
  /\ submitted = {} /\ ready = [r \in Runs |-> ReadyAlphas]
  /\ decided = {CHOOSE r \in Runs : TRUE} \X Decisions
  /\ Init /\ IntakeInit
MCNext ==
  \/ scene = "worker" /\ Next /\ UNCHANGED <<scene, intakeVars>>
  \/ scene = "intake" /\ IntakeNext /\ UNCHANGED <<scene, vars>>

MCFairness ==
  /\ WF_vars(scene = "worker" /\ RunningStep)
  /\ \A i \in 1..MaxOps : WF_vars(scene = "worker" /\ i \in DOMAIN journal /\ TimePasses(i))
  /\ SF_vars(scene = "worker"
             /\ (ConfirmSubmitted \/ ConfirmCheckFailed \/ \E aged \in BOOLEAN : ConfirmNoEvidence(aged)))
  /\ WF_intakeVars(scene = "intake" /\ TickStep)
  /\ WF_intakeVars(scene = "intake" /\ RefreshStep)
  /\ WF_intakeVars(scene = "intake" /\ StateAges)

MCSpec == MCInit /\ [][MCNext]_MCVars /\ MCFairness
=============================================================================
