---------------------------- MODULE PolicyMemory ----------------------------
(***************************************************************************)
(* What a run learns about its policies: the decision records of its scans *)
(* (evaluation/attribution/records.py), their scores, and the evaluation   *)
(* after the run: policy effectiveness (policy_effectiveness.py), memory   *)
(* governance (memory/governance) and the guardrail (workflow/daemon.py),  *)
(* each reading the file of the one before.                                *)
(*                                                                         *)
(* A record is named after its stage and the size of its slice, and is     *)
(* scored with every row of the stage's result file: a stage scanned in    *)
(* slices of two sizes counts its rows twice.  An evaluation that fails is *)
(* run again from the front, and writes the same.  Result files lose no    *)
(* rows here; rates are compared as fractions, not rounded.                *)
(***************************************************************************)
EXTENDS Integers, FiniteSets, FiniteSetsExt

CONSTANTS
  Policies,       \* diagnosis types with a policy
  ScanStages,     \* stages that are scanned
  Slices,         \* the slices by stage and size
  Batches,        \* rows that a scan adds: <<ready, other metric passes, low>>
  MaxRows         \* bound: rows of a stage's result file

ASSUME PolicyMemoryConstants ==
  /\ IsFiniteSet(ScanStages) /\ Slices \subseteq ScanStages \X Nat /\ MaxRows \in Nat
  /\ Batches \subseteq Nat \X Nat \X Nat

VARIABLES
  scanned,     \* stage -> counts of its result file
  attributed,  \* decision_attribution.json: set of records
  effect,      \* policy_effectiveness_report.json: policy -> counts
  governed,    \* memory_governance_report.json: policy -> its row
  guardrail,   \* daemon_guardrail_state.json: reasons to pause
  chain        \* "run", then the next report of the evaluation, then "done"

policyVars == <<scanned, attributed, effect, governed, guardrail, chain>>

Counts == [decisions : Nat, spent : Nat, ready : Nat, near : Nat, low : Nat]
NoCounts == [decisions |-> 0, spent |-> 0, ready |-> 0, near |-> 0, low |-> 0]
Sum(a, b) == [k \in DOMAIN NoCounts |-> a[k] + b[k]]
NoRow == [level |-> 0, promotes |-> FALSE, action |-> "none"]

PolicyInit ==
  /\ scanned = [s \in ScanStages |-> NoCounts]
  /\ attributed = {}
  /\ effect = [p \in Policies |-> NoCounts]
  /\ governed = [p \in Policies |-> NoRow]
  /\ guardrail = {}
  /\ chain = "run"

\* A scan writes rows: those that are not low value pass the metrics.
RowsArrive(s) ==
  /\ chain = "run"
  /\ \E b \in Batches :
       LET rows == [NoCounts EXCEPT !.spent = b[1] + b[2] + b[3], !.ready = b[1],
                                    !.near = b[1] + b[2], !.low = b[3]]
       IN  /\ scanned[s].spent + rows.spent <= MaxRows
           /\ scanned' = [scanned EXCEPT ![s] = Sum(@, rows)]
  /\ UNCHANGED <<attributed, effect, governed, guardrail, chain>>

\* record_scan_decision: a record of the same slice is replaced, its score with
\* it.  Only feedback that controls the slice is said to be used.
WithDecision(s, n, used) ==
  {r \in attributed : <<r.stage, r.size>> # <<s, n>>}
    \cup {[stage |-> s, size |-> n, used |-> used, outcome |-> NoCounts]}

Decide(s, n, used) ==
  /\ chain = "run"
  /\ attributed' = WithDecision(s, n, used)
  /\ UNCHANGED <<scanned, effect, governed, guardrail, chain>>

\* score_decision_outcomes, when the outbox delivers a scan.
Scored(r) == [r EXCEPT !.outcome = scanned[r.stage]]

Score ==
  /\ chain = "run"
  /\ attributed' = {Scored(r) : r \in attributed}
  /\ UNCHANGED <<scanned, effect, governed, guardrail, chain>>

----------------------------------------------------------------------------
(* The evaluation.                                                         *)

\* Every policy that a decision used is counted with the whole outcome.
Effectiveness(p) ==
  LET records == {r \in attributed : p \in r.used}
      total(k) == MapThenSumSet(LAMBDA r : r.outcome[k], records)
  IN  [k \in DOMAIN NoCounts |-> IF k = "decisions" THEN Cardinality(records) ELSE total(k)]

BiggerOf(m, n) == IF m < n THEN n ELSE m

\* _metrics_for_policy: how many skeletons and fields, and how many runs, is
\* not measured but put down from the number of decisions and simulations.
Skeletons(e) == BiggerOf(e.decisions, IF e.spent >= 20 THEN 3 ELSE 1)
Fields(e) == IF e.spent >= 20 THEN 3 ELSE 1
RepeatedRuns(e) == BiggerOf(e.decisions, 1)
LowWithin(e, percent) == e.low * 100 <= e.spent * percent

\* Faulty variant: the third level does not ask for the share of low values.
AssessedLoosely(e) ==
  CASE e.spent >= 40 /\ RepeatedRuns(e) >= 3 /\ e.ready >= 2
         /\ Skeletons(e) >= 4 /\ Fields(e) >= 3 /\ LowWithin(e, 50) -> 4
    [] OTHER -> IF e.spent >= 20 /\ e.ready >= 1 /\ Skeletons(e) >= 3 /\ Fields(e) >= 2 THEN 3
                ELSE IF e.spent >= 3 \/ e.near >= 1 THEN 1 ELSE 0

\* assess_evidence: the levels L0 to L4.
Assessed(e) ==
  CASE e.spent >= 40 /\ RepeatedRuns(e) >= 3 /\ e.ready >= 2
         /\ Skeletons(e) >= 4 /\ Fields(e) >= 3 /\ LowWithin(e, 50) -> 4
    [] OTHER ->
  CASE e.spent >= 20 /\ e.ready >= 1 /\ Skeletons(e) >= 3 /\ Fields(e) >= 2 /\ LowWithin(e, 75) -> 3
    [] OTHER ->
  CASE e.spent >= 20 /\ (e.near >= 2 \/ e.ready >= 1) /\ Skeletons(e) >= 3 /\ Fields(e) >= 2
         /\ LowWithin(e, 75) -> 2
    [] OTHER -> IF e.spent >= 3 \/ e.near >= 1 THEN 1 ELSE 0

\* resolve_action_permission: the levels that may be promoted.
CanPromote(level) == level >= 3

\* evaluate_forgetting: of its triggers the metrics here can only meet one,
\* as low fitness and low Sharpe are both put down as the low values.
Quarantined(e) ==
  e.spent >= 20 /\ e.ready = 0 /\ e.near = 0 /\ e.low * 10 >= e.spent * 6

memory_action(e) ==
  CASE Quarantined(e) -> "quarantine"
    [] OTHER -> IF CanPromote(Assessed(e)) THEN "promote" ELSE "observe"

GovernedRow(e) ==
  [level |-> Assessed(e), promotes |-> CanPromote(Assessed(e)), action |-> memory_action(e)]

LowQuality(e) == e.low * 10 >= e.spent * 9 /\ e.spent >= 20

\* The ledger says that the run is complete, all scans scored or not.
RunCompletes ==
  /\ chain = "run" /\ chain' = "govern"
  /\ effect' = [p \in Policies |-> Effectiveness(p)]
  /\ UNCHANGED <<scanned, attributed, governed, guardrail>>

Govern ==
  /\ chain = "govern" /\ chain' = "guard"
  /\ governed' = [p \in Policies |-> IF effect[p].decisions = 0 THEN NoRow ELSE GovernedRow(effect[p])]
  /\ UNCHANGED <<scanned, attributed, effect, guardrail>>

Guard ==
  /\ chain = "guard" /\ chain' = "done"
  /\ guardrail' = {<<"low_quality_policy", p>> : p \in {q \in Policies : LowQuality(effect[q])}}
        \cup {<<"memory_quarantine", p>> : p \in {q \in Policies : governed[q].action = "quarantine"}}
  /\ UNCHANGED <<scanned, attributed, effect, governed>>

PolicyNext ==
  \/ \E s \in ScanStages : RowsArrive(s)
  \/ \E slice \in Slices, used \in SUBSET Policies : Decide(slice[1], slice[2], used)
  \/ Score \/ RunCompletes \/ Govern \/ Guard

PolicySpec == PolicyInit /\ [][PolicyNext]_policyVars

----------------------------------------------------------------------------
(* Properties.                                                             *)

PolicyTypeOK ==
  /\ scanned \in [ScanStages -> Counts] /\ effect \in [Policies -> Counts]
  /\ \A r \in attributed : <<r.stage, r.size>> \in Slices /\ r.outcome \in Counts
  /\ governed \in [Policies -> [level : 0..4, promotes : BOOLEAN,
                                action : {"none", "observe", "promote", "quarantine"}]]
  /\ chain \in {"run", "govern", "guard", "done"}

\* Each stage was scanned in slices of one size.
CountedOnce ==
  \A q, r \in attributed : q.stage = r.stage => q.size = r.size

Scanned(k) == MapThenSumSet(LAMBDA s : scanned[s][k], ScanStages)

\* memory/governance/report.py:70: the verdicts on a policy agree and are earned.
\* The guardrail calls no policy low in quality that memory promotes; a run
\* whose stages were each scanned in one slice promotes on no less than twenty
\* simulations that it made, one of them submit-ready; and simulations that
\* are all submit-ready never make a verdict worse.
VerdictsAreEarned ==
  \A p \in Policies :
    /\ governed[p].action = "promote" =>
         /\ <<"low_quality_policy", p>> \notin guardrail
         /\ Scanned("ready") >= 1
         /\ CountedOnce => Scanned("spent") >= 20
    /\ chain = "done" /\ effect[p].decisions > 0 =>
         \A k \in {1, 20} :
           LET more == [decisions |-> 1, spent |-> k, ready |-> k, near |-> k, low |-> 0]
               better == Sum(effect[p], more)
           IN  /\ Assessed(better) >= Assessed(effect[p])
               /\ governed[p].action = "promote" => memory_action(better) = "promote"
=============================================================================
