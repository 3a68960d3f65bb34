--------------------------- MODULE PolicyFeedback ---------------------------
(***************************************************************************)
(* The evidence gate between the evaluation of earlier runs and what a run *)
(* simulates: evaluate_candidate_boundaries (research/policy/policy.py),   *)
(* the slice that prepare_budgeted_scan cuts (workflow/engine.py) and the  *)
(* shadow decisions and their scores (governance/policy_feedback.py).      *)
(*                                                                         *)
(* A run is a day, and a day one stage: a stage's decisions, slices and    *)
(* result file are its own.  Left to WorkflowBudget: diversity caps, the   *)
(* expression preflight, the ledger's way through the outbox.              *)
(* Rates are compared without rounding.                                    *)
(***************************************************************************)
EXTENDS Integers, SequencesExt, FiniteSetsExt

CONSTANTS
  Pool,            \* the queued candidates: a sequence of records
                   \* [mechanism, fields, kills, capped, family, worth]
  Boundaries,      \* the policies a day may have:
                   \* [unclassified, kills, price] of BOOLEAN, what they block
  Days,
  RequestedModes,  \* policy_feedback.mode
  Allocation,      \* the stage's budget
  CapShare,        \* max_budget_share of the capped candidates, in percent
  ExplorationShare,    \* control_min_exploration_share, in percent
  MinRuns, MinSimulations,
  MaxBreaks        \* bound: scans and ticks that end early

ASSUME FeedbackConstants ==
  /\ Days \in Nat \ {0} /\ Allocation \in Nat \ {0} /\ CapShare \in 0..100
  /\ ExplorationShare \in 10..100 /\ MinRuns \in Nat /\ MinSimulations \in Nat
  /\ Pool \in Seq(ToSet(Pool)) /\ MaxBreaks \in Nat /\ RequestedModes \subseteq {"off", "shadow", "advisory", "control"}

VARIABLES
  day, requested, boundary,
  phase,        \* of the tick: "plan", "scan", "over"
  spend,        \* the stage's
  cut,          \* sliced configs: size -> candidates
  slice,        \* the one that is scanned
  tested,       \* day -> candidates with a row in the result file
  shadow,       \* policy_feedback_shadow.json of the day: its decisions
  scored,       \* day -> the aggregate of its shadow evaluation
  owed,         \* an undelivered stage event
  advice,       \* history: day -> candidates some decision recommended
  breaks

dayVars == <<day, requested, boundary>>
feedbackVars == <<dayVars, phase, spend, cut, slice, tested, shadow, scored, owed, advice, breaks>>

Least(m, n) == IF m < n THEN m ELSE n
Most(m, n) == IF m < n THEN n ELSE m
Candidate == DOMAIN Pool

----------------------------------------------------------------------------
(* evaluate_candidate_boundaries.  fields: "none", "inside" and "outside"  *)
(* the mechanism's, or inside and all "price"-volume.                      *)

AllowedBy(p, c) ==
  /\ \/ c.mechanism = "enabled" /\ c.fields # "outside" /\ (p.kills => c.kills)
     \/ c.mechanism = "" /\ ~p.unclassified
  /\ c.fields # "none" /\ (p.price => c.fields # "price")

----------------------------------------------------------------------------
(* Scores                                                                  *)

NoScore == [tested |-> 0, ready |-> 0, low |-> 0, families |-> 0]

\* _outcome_metrics of the candidates cs, given the rows of the result file.
Score(cs, rows) ==
  [tested   |-> Cardinality(cs \cap rows),
   ready    |-> Cardinality({c \in cs \cap rows : Pool[c].worth = "ready"}),
   low      |-> Cardinality({c \in cs \cap rows : Pool[c].worth = "low"}),
   families |-> Cardinality({Pool[c].family : c \in cs})]
Plus(s, t) == [k \in DOMAIN s |-> s[k] + t[k]]

\* _aggregate_scored
Aggregate(decisions, rows) ==
  LET sum(side(_)) == FoldSeq(LAMBDA d, s : Plus(Score(side(d), rows), s), NoScore, decisions)
  IN  [baseline    |-> sum(LAMBDA d : d.baseline),
       recommended |-> sum(LAMBDA d : d.recommended)]

NoEvidence == [baseline |-> NoScore, recommended |-> NoScore]
Counted == {d \in 1..Days : scored[d].recommended.tested > 0}

\* aggregate_shadow_evidence
Evidence ==
  LET sum(side(_)) == FoldSet(LAMBDA d, s : Plus(side(scored[d]), s), NoScore, Counted)
  IN  [runs        |-> Cardinality(Counted),
       baseline    |-> sum(LAMBDA e : e.baseline),
       recommended |-> sum(LAMBDA e : e.recommended)]

\* evaluate_promotion_gate: rates are cross-multiplied.
GateOpens ==
  LET b == Evidence.baseline
      r == Evidence.recommended
      n == Most(b.tested, 1)
      m == Most(r.tested, 1)
  IN  /\ Evidence.runs >= MinRuns /\ r.tested >= MinSimulations
      /\ r.ready * n >= b.ready * m
      /\ 100 * (r.low * n - b.low * m) <= (-2) * n * m
      /\ 10 * r.families >= 8 * Most(b.families, 1)

\* resolve_feedback_mode
EffectiveMode == IF requested = "control" /\ ~GateOpens THEN "shadow" ELSE requested

----------------------------------------------------------------------------
FeedbackInit ==
  /\ day = 1 /\ requested \in RequestedModes /\ boundary \in Boundaries
  /\ phase = "plan" /\ spend = 0 /\ cut = [n \in 0..Allocation |-> {}] /\ slice = {}
  /\ tested = [d \in 1..Days |-> {}] /\ shadow = <<>>
  /\ scored = [d \in 1..Days |-> NoEvidence] /\ owed = FALSE
  /\ advice = [d \in 1..Days |-> {}] /\ breaks = 0

\* Completed candidates: rows for candidates of a slice that is still there.
Done == tested[day] \cap UNION {cut[n] : n \in DOMAIN cut}

\* reconcile_existing_stage_progress
SpendSoFar == Most(spend, Cardinality(Done))

\* _apply_research_policy: the queued candidates that are not done and that the
\* boundaries let through.
Open == {c \in Candidate \ Done : AllowedBy(boundary, Pool[c])}

\* The first k of the candidates cs, in the order of the pool.
FirstOf(k, cs) == {c \in cs : Cardinality({d \in cs : d < c}) < k}

\* cap_recommended_candidates of the candidates cs: the capped ones that the
\* budget shares leave out.
Overflow(cs, budget) ==
  LET capped == {c \in cs : Pool[c].capped}
  IN  capped \ FirstOf((CapShare * Most(budget, 1)) \div 100, capped)

\* _apply_policy_feedback_controls: what is recommended of the candidates cs,
\* the overflow admitted for exploration included, and what is selected.  They
\* are no more than the budget, so the code's last cut takes none away.
Controls(cs, budget) ==
  LET overflow    == Overflow(cs, budget)
      slots       == Most(1, (Most(budget, 1) * ExplorationShare + 99) \div 100)
      recommended == (cs \ overflow) \cup FirstOf(slots, overflow)
  IN  [baseline    |-> cs,
       recommended |-> recommended,
       selected    |-> IF EffectiveMode = "control" THEN recommended ELSE cs]

\* Faulty variant: each slice's decision is added.
AddedTo(decisions, d) == Append(decisions, d)

\* record_shadow_decision: the decisions of a stage and result file share
\* their decision_id.
RecordedIn(decisions, d) == <<d>>

\* prepare_budgeted_scan
Prepare ==
  /\ phase = "plan" /\ SpendSoFar < Allocation
  /\ LET budget   == Least(Allocation - SpendSoFar, Cardinality(Open))
         controls == Controls(FirstOf(budget, Open), budget)
     IN  /\ slice' = controls.selected
         /\ IF EffectiveMode = "off" THEN UNCHANGED <<shadow, advice>>
            ELSE /\ shadow' = RecordedIn(shadow, [baseline    |-> controls.baseline,
                                                  recommended |-> controls.recommended])
                 /\ advice' = [advice EXCEPT ![day] = @ \cup controls.recommended]
  /\ cut' = [cut EXCEPT ![Cardinality(slice')] = slice']
  /\ spend' = SpendSoFar /\ phase' = "scan"
  /\ UNCHANGED <<dayVars, tested, scored, owed, breaks>>

\* The scan appends the row of a candidate that has none yet.
TestCandidate(c) ==
  /\ phase = "scan" /\ c \in slice \ tested[day]
  /\ tested' = [tested EXCEPT ![day] = @ \cup {c}]
  /\ UNCHANGED <<dayVars, phase, spend, cut, slice, shadow, scored, owed, advice, breaks>>

\* The scan is over; an empty slice exhausts the stage.
Finish ==
  /\ phase' = "plan" /\ owed' = TRUE
  /\ spend' = IF slice = {} THEN Allocation
              ELSE Least(Allocation, spend + Cardinality(slice \cap tested[day]))
  /\ UNCHANGED <<dayVars, cut, slice, tested, shadow, scored, advice>>

SliceEnds == phase = "scan" /\ slice \subseteq tested[day] /\ Finish /\ UNCHANGED breaks

Break == breaks < MaxBreaks /\ breaks' = breaks + 1
SliceEndsEarly == phase = "scan" /\ ~(slice \subseteq tested[day]) /\ Break /\ Finish

SliceDies ==
  /\ phase = "scan" /\ Break /\ phase' = "plan"
  /\ UNCHANGED <<dayVars, spend, cut, slice, tested, shadow, scored, owed, advice>>

\* The delivery of a stage event: score_shadow_decisions.
DeliverScore ==
  /\ phase = "plan" /\ owed /\ owed' = FALSE
  /\ scored' = IF shadow = <<>> THEN scored
                ELSE [scored EXCEPT ![day] = Aggregate(shadow, tested[day])]
  /\ UNCHANGED <<dayVars, phase, spend, cut, slice, tested, shadow, advice, breaks>>

\* The stage is exhausted and its events are delivered: the next day.
NextDay ==
  /\ phase = "plan" /\ SpendSoFar >= Allocation /\ ~owed
  /\ IF day = Days THEN phase' = "over" /\ UNCHANGED <<dayVars, spend, cut, slice, shadow>>
     ELSE /\ day' = day + 1 /\ requested' \in RequestedModes /\ boundary' \in Boundaries
          /\ spend' = 0 /\ cut' = [n \in DOMAIN cut |-> {}] /\ slice' = {} /\ shadow' = <<>>
          /\ UNCHANGED phase
  /\ UNCHANGED <<tested, scored, owed, advice, breaks>>

FeedbackNext ==
  \/ Prepare \/ (\E c \in Candidate : TestCandidate(c)) \/ SliceEnds \/ SliceEndsEarly \/ SliceDies
  \/ DeliverScore \/ NextDay

FeedbackSpec == FeedbackInit /\ [][FeedbackNext]_feedbackVars

----------------------------------------------------------------------------
(* Properties                                                              *)

FeedbackTypeOK ==
  /\ day \in 1..Days /\ requested \in RequestedModes /\ boundary \in Boundaries
  /\ phase \in {"plan", "scan", "over"} /\ spend \in 0..Allocation
  /\ cut \in [0..Allocation -> SUBSET Candidate] /\ slice \subseteq Candidate
  /\ tested \in [1..Days -> SUBSET Candidate] /\ Len(shadow) <= 1
  /\ owed \in BOOLEAN /\ breaks \in 0..MaxBreaks
  /\ \A d \in 1..Days : scored[d].recommended.tested \in 0..Allocation

Advised(d) == advice[d] \cap tested[d]

\* What the gate is there to ask for.
Earned ==
  /\ Cardinality({d \in 1..Days : Advised(d) # {}}) >= MinRuns
  /\ MapThenSumSet(LAMBDA d : Cardinality(Advised(d)), 1..Days) >= MinSimulations
  /\ \E d \in 1..Days : \E c \in tested[d] : Pool[c].worth = "low"

\* A slice is cut under control only if the recommendations were really tried
\* and paid: in enough runs, on enough candidates with a row of their own,
\* and some candidate that they left out proved to be of low value.  Slices
\* that are cut again, replayed deliveries and broken scans earn nothing.
ControlIsEarned == [][Prepare /\ EffectiveMode = "control" => Earned]_feedbackVars

\* What OPEN_COGNITION_CONTROLLED_EXECUTION.md says of the evidence: what a run
\* has scored stays in the aggregate.
EvidenceIsKept ==
  [][\A d \in 1..Days : scored'[d].recommended.tested >= scored[d].recommended.tested]_feedbackVars
=============================================================================
