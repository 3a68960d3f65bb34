--------------------------- MODULE FailureTriage ---------------------------
(***************************************************************************)
(* What is decided about one result row, three times and from thresholds   *)
(* that are written down three times: the diagnosis of its failed checks   *)
(* (evaluation/failure_diagnosis.py), its route (workflow/diagnosis.py     *)
(* with the buckets of workflow/candidates.py) and the policy that its     *)
(* diagnosis is given (diagnosis_policy.py) with the share of the budget   *)
(* that later runs leave to it (output/budget_policy.py).                  *)
(*                                                                         *)
(* Metrics and check values are hundredths; no instance sits on a bound    *)
(* that floating point would round to its other side.  A check has the     *)
(* default limit and comes once.  A row is chosen, and routed in one step. *)
(***************************************************************************)
EXTENDS Integers, FiniteSets

CONSTANTS Sharpes, Fitnesses, Turnovers     \* metrics that rows come with

ASSUME TriageConstants == Sharpes \cup Fitnesses \cup Turnovers \subseteq Nat

VARIABLES row,      \* metrics, checks and error of the row
          known,    \* the alpha: new, submitted, or its submission failed
          verdict   \* [bucket, route] when it is routed

triageVars == <<row, known, verdict>>

NoValue == -1     \* a check without a number
Result(r, v) == [result |-> r, value |-> v]
Passes == Result("PASS", NoValue)
Undecided == [bucket |-> "none", route |-> "none"]

\* What a check may say: the platform fails the metrics' own checks below its
\* limits, and the others on values that a row tells or does not.  The values
\* are those on both sides of each bound of the buckets.
MetricCheck(ok) == IF ok THEN Passes ELSE Result("FAIL", NoValue)
SelfCorrelations ==
  {Passes, Result("PENDING", NoValue), Result("PENDING", 95)}
    \cup {Result("FAIL", v) : v \in {NoValue, 72, 73, 89, 90}}
SubUniverses == {Passes} \cup {Result("FAIL", v) : v \in {NoValue, 34, 36, 59, 61}}
Concentrations ==
  {Passes, Result("WARNING", 12), Result("WARNING", 25)}
    \cup {Result("FAIL", v) : v \in {NoValue, 12, 13, 19, 20}}
UnitChecks == {Passes, Result("WARNING", NoValue)}

ResultRow(s, f, t, sc, su, cw, un) ==
  [sharpe |-> s, fitness |-> f, turnover |-> t, error |-> "none",
   checks |-> [SELF_CORRELATION |-> sc, LOW_SUB_UNIVERSE_SHARPE |-> su,
               CONCENTRATED_WEIGHT |-> cw, UNITS |-> un,
               LOW_SHARPE |-> MetricCheck(s >= 125), LOW_FITNESS |-> MetricCheck(f >= 100),
               HIGH_TURNOVER |-> MetricCheck(t <= 70)]]

\* A simulation that the platform refused, or that has no result yet.
EmptyRow(e) == [ResultRow(0, 0, 100, Passes, Passes, Passes, Passes) EXCEPT
                  !.error = e, !.checks.LOW_SHARPE = Passes, !.checks.LOW_FITNESS = Passes,
                  !.checks.HIGH_TURNOVER = Passes]

TriageInit ==
  /\ \/ \E s \in Sharpes, f \in Fitnesses, t \in Turnovers, sc \in SelfCorrelations,
           su \in SubUniverses, cw \in Concentrations, un \in UnitChecks :
          row = ResultRow(s, f, t, sc, su, cw, un)
     \/ \E e \in {"none", "event_operator", "other"} : row = EmptyRow(e)
  /\ known \in {"new", "submitted", "failed"}
  /\ verdict = Undecided

Named(r, results) == {n \in DOMAIN r.checks : r.checks[n].result \in results}
Failed(r) == Named(r, {"FAIL", "ERROR"})
Value(r, name) == r.checks[name].value

\* self_corr_bucket, of research/self_corr_policy.py, that both sides call.
self_corr_bucket(v) ==
  IF v = NoValue THEN "unknown" ELSE IF v >= 90 THEN "extreme" ELSE IF v > 72 THEN "moderate" ELSE "mild"

----------------------------------------------------------------------------
(* The diagnosis                                                           *)

DiagnosedSubUniverse(v) ==
  IF v = NoValue THEN "unknown" ELSE IF 70 - v >= 35 THEN "severe" ELSE IF 70 - v >= 10 THEN "moderate" ELSE "mild"

DiagnosedWeakness(r) ==
  CASE r.sharpe >= 110 /\ r.fitness >= 85 -> "near_pass"
    [] OTHER -> IF r.sharpe * 100 < 65 * 125 \/ r.fitness * 100 < 50 * 100 THEN "deep_fail" ELSE "medium_gap"

DiagnosedConcentration(v) ==
  IF v = NoValue THEN "unknown" ELSE IF v >= 20 THEN "severe" ELSE IF v * 100 >= 125 * 10 THEN "moderate" ELSE "mild"

Diagnosis(type, bucket, severity, action, checks) ==
  [type |-> type, bucket |-> bucket, severity |-> severity, action |-> action, checks |-> checks]
\* The bucket of a type that has none.
NoBucket == ""

HighIf(b) == IF b THEN "high" ELSE "medium"

Terminal(r) ==
  IF r.error = "none" THEN {}
  ELSE IF r.error = "event_operator"
       THEN {Diagnosis("field_type_operator_mismatch", NoBucket, "high", "add_static_field_operator_guard", {"TERMINAL_ERROR"})}
       ELSE {Diagnosis("invalid_simulation_request", NoBucket, "high", "fix_expression_before_resimulation", {"TERMINAL_ERROR"})}

Overcrowded(r) ==
  LET b == self_corr_bucket(Value(r, "SELF_CORRELATION"))
      action == [extreme |-> "replace_overcrowded_signal", moderate |-> "structural_self_corr_escape",
                 mild |-> "light_self_corr_repair", unknown |-> "self_corr_live_recheck_or_structural_escape"]
  IN  {Diagnosis("overcrowded_skeleton", b, HighIf(b = "extreme"), action[b], {n}) :
         n \in Named(r, {"FAIL", "ERROR", "PENDING"}) \cap {"SELF_CORRELATION"}}

Unstable(r) ==
  LET b == DiagnosedSubUniverse(Value(r, "LOW_SUB_UNIVERSE_SHARPE"))
      action == CASE b = "severe" -> "replace_unstable_universe_proxy"
                  [] b = "moderate" -> "controlled_sub_universe_repair"
                  [] OTHER -> "neutralization_or_grouping_shift"
  IN  {Diagnosis("sub_universe_instability", b, HighIf(b = "severe"), action, {n}) :
         n \in Failed(r) \cap {"LOW_SUB_UNIVERSE_SHARPE"}}

Weak(r) ==
  LET checks == Failed(r) \cap {"LOW_SHARPE", "LOW_FITNESS"}
      b == DiagnosedWeakness(r)
      action == [deep_fail |-> "replace_proxy_or_behavior_thesis", near_pass |-> "local_parameter_or_weight_repair",
                 medium_gap |-> "rewrite_signal_chassis"]
      low == b # "near_pass" /\ "LOW_SHARPE" \in checks /\ r.sharpe < 110
  IN  IF checks = {} THEN {}
      ELSE {Diagnosis("weak_behavior_proxy", b, HighIf(b = "deep_fail" \/ low), action[b], checks)}

Concentrated(r) ==
  LET b == DiagnosedConcentration(Value(r, "CONCENTRATED_WEIGHT"))
      action == CASE b = "severe" -> "replace_concentrated_expression_structure"
                  [] b = "moderate" -> "smooth_or_truncate_weight_concentration"
                  [] OTHER -> "light_weight_smoothing"
  IN  {Diagnosis("weight_concentration", b, HighIf(b = "severe"), action, {n}) :
         n \in Named(r, {"FAIL", "ERROR", "WARNING"}) \cap {"CONCENTRATED_WEIGHT"}}

Others(r) ==
  {Diagnosis("turnover_instability", NoBucket, "medium", "increase_decay_or_smooth_signal", {n}) :
     n \in Failed(r) \cap {"HIGH_TURNOVER"}}
  \cup {Diagnosis("unit_normalization_mismatch", NoBucket, "medium", "normalize_terms_before_combining", {n}) :
     n \in Named(r, {"WARNING"}) \cap {"UNITS"}}

diagnose_failure_objects(r) ==
  Terminal(r) \cup Overcrowded(r) \cup Unstable(r) \cup Weak(r) \cup Concentrated(r) \cup Others(r)

----------------------------------------------------------------------------
(* The route                                                               *)

\* Faulty variant: the bound of a severe gap is a hundredth lower than that of
\* the diagnosis.
RoutedSubUniverseStrict(v) ==
  IF v = NoValue THEN "unknown" ELSE IF 70 - v >= 34 THEN "severe" ELSE IF 70 - v >= 10 THEN "moderate" ELSE "mild"

RoutedSubUniverse(v) ==
  IF v = NoValue THEN "unknown" ELSE IF 70 - v >= 35 THEN "severe" ELSE IF 70 - v >= 10 THEN "moderate" ELSE "mild"

RoutedWeakness(r) ==
  CASE r.sharpe >= 110 /\ r.fitness >= 85 -> "near_pass"
    [] OTHER -> IF r.sharpe * 100 < 65 * 125 \/ r.fitness * 100 < 50 * 100 THEN "deep_fail" ELSE "medium_gap"

RoutedConcentration(v) ==
  IF v = NoValue THEN "unknown" ELSE IF v >= 20 THEN "severe" ELSE IF v * 100 >= 125 * 10 THEN "moderate" ELSE "mild"

row_metric_pass(r) == r.sharpe >= 125 /\ r.fitness >= 100 /\ r.turnover <= 70

row_near_pass(r) ==
  /\ "HIGH_TURNOVER" \notin Named(r, {"FAIL", "ERROR", "PENDING", "WARNING"})
  /\ ~("SELF_CORRELATION" \in Failed(r) /\ self_corr_bucket(Value(r, "SELF_CORRELATION")) = "extreme")
  /\ r.sharpe >= 110 /\ r.fitness >= 85 /\ r.turnover <= 85

Low(route) == [bucket |-> "low_value", route |-> route]
Optimize(route) == [bucket |-> "optimize_next", route |-> route]
NextIfNear(r, route) == IF row_near_pass(r) THEN Optimize(route) ELSE Low(route)

\* The first line that fits decides.
route_diagnosed_row(r, alpha) ==
  LET corr == self_corr_bucket(Value(r, "SELF_CORRELATION"))
      universe == RoutedSubUniverse(Value(r, "LOW_SUB_UNIVERSE_SHARPE"))
      weight == RoutedConcentration(Value(r, "CONCENTRATED_WEIGHT"))
      fails(n) == n \in Failed(r)
      weak == fails("LOW_SHARPE") \/ fails("LOW_FITNESS")
  IN CASE alpha = "submitted" -> [bucket |-> "already_submitted", route |-> "skip_already_submitted"]
       [] alpha = "failed" -> Low("skip_previous_submit_unconfirmed")
       [] OTHER ->
     CASE row_metric_pass(r) /\ Failed(r) = {} -> [bucket |-> "direct_submit", route |-> "live_recheck_then_submit"]
       [] OTHER ->
     IF fails("SELF_CORRELATION") /\ (corr = "extreme" \/ row_near_pass(r))
     THEN CASE corr = "extreme" -> Low("replace_overcrowded_signal")
            [] corr = "mild" -> Optimize("self_corr_light_repair")
            [] OTHER -> Low("self_corr_escape")
     ELSE IF fails("CONCENTRATED_WEIGHT")
     THEN IF weight = "severe" THEN Low("replace_concentrated_expression_structure")
                               ELSE NextIfNear(r, "smooth_or_truncate_weight_concentration")
     ELSE IF fails("LOW_SUB_UNIVERSE_SHARPE") /\ universe = "severe" THEN Low("replace_unstable_universe_proxy")
     ELSE IF fails("LOW_SUB_UNIVERSE_SHARPE") /\ universe = "moderate"
          THEN NextIfNear(r, "controlled_sub_universe_repair")
     ELSE IF weak /\ RoutedWeakness(r) = "deep_fail" THEN Low("replace_weak_behavior_proxy")
     ELSE IF weak /\ RoutedWeakness(r) = "medium_gap" THEN Low("rewrite_weak_signal_chassis")
     ELSE IF row_near_pass(r) THEN Optimize("structural_repair_or_parameter_sweep") ELSE Low("avoid_unchanged")

Route ==
  /\ verdict = Undecided /\ verdict' = route_diagnosed_row(row, known)
  /\ UNCHANGED <<row, known>>

TriageNext == Route
TriageSpec == TriageInit /\ [][TriageNext]_triageVars

----------------------------------------------------------------------------
(* The budget                                                              *)

\* The words on spending of a diagnosis' policy (evaluation/
\* diagnosis_policy.py), whose own bucket takes a template of its own or none.
BudgetWords ==
  [weak_behavior_proxy |-> "no_scale_until_proxy_replaced",
   overcrowded_skeleton |-> "small_repair_budget_with_chassis_change",
   sub_universe_instability |-> "controlled_grouping_probe",
   field_type_operator_mismatch |-> "zero_simulation_until_guarded",
   turnover_instability |-> "small_parameter_repair",
   unit_normalization_mismatch |-> "preflight_rewrite_before_resimulation",
   weight_concentration |-> "small_smoothing_or_structure_repair"]

policy_template(type, bucket) ==
  CASE type = "weak_behavior_proxy" /\ bucket = "near_pass" -> "small_repair_budget"
    [] type = "weak_behavior_proxy" /\ bucket = "deep_fail" -> "zero_scale_until_proxy_replaced"
    [] type = "sub_universe_instability" /\ bucket = "severe" -> "block_scale_until_proxy_replaced"
    [] type = "sub_universe_instability" /\ bucket = "mild" -> "small_grouping_probe"
    [] type = "weight_concentration" /\ bucket = "severe" -> "block_until_structure_replaced"
    [] OTHER -> IF type \in DOMAIN BudgetWords THEN BudgetWords[type] ELSE "no_policy_until_classified"

NothingToSpend ==
  {"zero_scale_until_proxy_replaced", "block_scale_until_proxy_replaced", "block_until_structure_replaced",
   "zero_simulation_until_guarded", "no_policy_until_classified"}

\* The confidence in a policy: how many rows of how many families it is from.
policy_confidence(observed, families) ==
  CASE observed >= 40 /\ families >= 3 -> "high" [] observed >= 10 -> "medium" [] OTHER -> "low"

\* The policy of a diagnosis that so many rows, this one among them, have.
finalize_policy(d, observed, families) ==
  [type |-> d.type, bucket |-> d.bucket, budget |-> policy_template(d.type, d.bucket),
   confidence |-> policy_confidence(observed, families)]

PoliciesOf(d) == {finalize_policy(d, n, f) : n \in {1, 9, 10, 39, 40}, f \in 1..3}

\* max_budget_share of a policy, in hundredths.
MaxBudgetShare(p) ==
  CASE p.type = "weak_behavior_proxy" ->
         (CASE p.bucket = "deep_fail" -> 0 [] p.bucket = "near_pass" -> 8
            [] OTHER -> IF p.confidence = "high" THEN 5 ELSE 10)
    [] p.type = "overcrowded_skeleton" -> 15
    [] p.type = "sub_universe_instability" -> IF p.bucket = "severe" THEN 0 ELSE 8
    [] p.type = "weight_concentration" -> IF p.bucket = "severe" THEN 0 ELSE 5
    [] OTHER -> 0

----------------------------------------------------------------------------
(* Properties                                                              *)

TriageTypeOK ==
  /\ known \in {"new", "submitted", "failed"}
  /\ verdict.bucket \in {"none", "already_submitted", "direct_submit", "optimize_next", "low_value"}

\* The diagnosis that a route acts on, and the actions it may recommend.
Grounds ==
  [replace_overcrowded_signal |-> <<"overcrowded_skeleton", {"replace_overcrowded_signal"}>>,
   self_corr_light_repair |-> <<"overcrowded_skeleton", {"light_self_corr_repair"}>>,
   self_corr_escape |-> <<"overcrowded_skeleton",
     {"structural_self_corr_escape", "self_corr_live_recheck_or_structural_escape"}>>,
   replace_concentrated_expression_structure |->
     <<"weight_concentration", {"replace_concentrated_expression_structure"}>>,
   smooth_or_truncate_weight_concentration |->
     <<"weight_concentration", {"smooth_or_truncate_weight_concentration", "light_weight_smoothing"}>>,
   replace_unstable_universe_proxy |-> <<"sub_universe_instability", {"replace_unstable_universe_proxy"}>>,
   controlled_sub_universe_repair |-> <<"sub_universe_instability", {"controlled_sub_universe_repair"}>>,
   replace_weak_behavior_proxy |-> <<"weak_behavior_proxy", {"replace_proxy_or_behavior_thesis"}>>,
   rewrite_weak_signal_chassis |-> <<"weak_behavior_proxy", {"rewrite_signal_chassis"}>>]

ReplaceRoutes ==
  {"replace_concentrated_expression_structure", "replace_unstable_universe_proxy", "replace_weak_behavior_proxy"}

\* The copies of the thresholds agree: a route that names a defect has the
\* diagnosis of it with the action that belongs to it; a row that must be
\* replaced gets a policy that forbids to spend on it, and a policy that forbids
\* it, in whichever words, gets no share of the budget at any confidence; a row
\* that is to be repaired as it stands has a share for each check it fails; and
\* a row that goes to submission carries no diagnosis of a failed check.
RouteAgreesWithDiagnosis ==
  LET diagnoses == diagnose_failure_objects(row)
      ofFailed == {d \in diagnoses : d.checks \cap Failed(row) # {}}
      policies == UNION {PoliciesOf(d) : d \in diagnoses}
  IN /\ verdict.route \in DOMAIN Grounds =>
          \E d \in diagnoses :
            /\ d.type = Grounds[verdict.route][1] /\ d.action \in Grounds[verdict.route][2]
            /\ verdict.route \in ReplaceRoutes => \A p \in PoliciesOf(d) : p.budget \in NothingToSpend
     /\ verdict # Undecided => \A p \in policies : p.budget \in NothingToSpend => MaxBudgetShare(p) = 0
     /\ verdict = Optimize("structural_repair_or_parameter_sweep") =>
          \A d \in ofFailed : \A p \in PoliciesOf(d) : MaxBudgetShare(p) > 0
     /\ verdict.bucket = "direct_submit" => ofFailed = {} /\ known = "new"
=============================================================================
