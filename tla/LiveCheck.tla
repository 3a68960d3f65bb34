----------------------------- MODULE LiveCheck -----------------------------
(***************************************************************************)
(* scripts/checks/check_unsubmitted_submit_ready.py: one run asks the      *)
(* platform for the checks of the metric-ready alphas that are not         *)
(* submitted and writes a report of those to review and a progress file    *)
(* that a resumed run starts from.  A record keeps the snapshot of checks  *)
(* it was made of.  Beside it evaluate_check_snapshot of                   *)
(* platform/check_readiness.py, by which the submission worker decides     *)
(* about the same checks.                                                  *)
(*                                                                         *)
(* MetricReady holds the alphas that pass the metric filter and are left   *)
(* when equal expressions are merged.  Their order by score is any order.  *)
(***************************************************************************)
EXTENDS FiniteSets, Naturals

CONSTANTS MetricReady,
          Options,       \* sets of the flags a run is started with
          MaxChecks,     \* --max-checks, of the runs with the flag "limited"
          Retries,       \* --check-retries
          MaxErrors      \* bound: failing requests and deaths

ASSUME LiveCheckConstants ==
  /\ IsFiniteSet(MetricReady)
  /\ Options \subseteq SUBSET {"resume", "refresh", "recheck", "dry", "limited"}
  /\ MaxChecks \in Nat \ {0} /\ Retries \in Nat \ {0} /\ MaxErrors \in Nat

VARIABLES
  stored,     \* what the platform has of each alpha's checks
  at,         \* where the run is
  flags, todo, listed, checked,   \* its flags, alphas to come, their checks
                                  \* in the list, and live checks made
  item,       \* the alpha at hand: [alpha, snapshot, tries, throttled]
  records,    \* results_by_id
  progress, report,               \* the two files
  errors

runVars == <<at, flags, todo, listed, checked, item>>
resultFiles == <<progress, report>>
liveVars == <<stored, runVars, records, resultFiles, errors>>

Error == errors < MaxErrors /\ errors' = errors + 1

----------------------------------------------------------------------------
(* Snapshots of checks                                                     *)

\* PLATFORM_CHECK_NAMES, and with the checks on metrics REQUIRED_CHECK_NAMES.
PlatformChecks == {"CONCENTRATED_WEIGHT", "SELF_CORRELATION", "MATCHES_COMPETITION"}
Required == {"METRICS"} \cup PlatformChecks
Check(w, s, c, u) ==
  [METRICS |-> "PASS", CONCENTRATED_WEIGHT |-> w, SELF_CORRELATION |-> s,
   MATCHES_COMPETITION |-> c, UNITS |-> u]
Absent == "absent"

\* A snapshot goes by the stage that the platform is at: asked for the checks
\* it answers nothing at first, then with a pending one, then for good.  One
\* of the three, here the weight's, is enough not to be asked (partial).
Checks ==
  [bare      |-> Check(Absent, Absent, Absent, "PASS"),
   partial   |-> Check("PASS", Absent, Absent, "PASS"),
   pending   |-> Check("PASS", "PENDING", "PASS", "PASS"),
   good      |-> Check("PASS", "PASS", "PASS", "PASS"),
   bad       |-> Check("PASS", "FAIL", "PASS", "PASS"),
   mixed     |-> Check("PASS", "PASS", "PASS", "WARNING")]
Unasked == {"bare", "partial", "pending"}
Final == {"good", "bad", "mixed"}
Shown(stage) == CASE stage = "computing" -> "bare" [] stage = "working" -> "pending" [] OTHER -> stage

HasPlatformCheck(c) == \E n \in PlatformChecks : Checks[c][n] # Absent
Missing(c) == {n \in Required : Checks[c][n] = Absent}
Blockers(c) ==
  {n \in DOMAIN Checks[c] : Checks[c][n] \in {"FAIL", "ERROR", "PENDING"}}
    \cup {n \in {"UNITS"} : Checks[c][n] = "WARNING"}

AllPass(c) == Missing(c) = {} /\ Blockers(c) = {}

\* evaluate_check_snapshot; a FAIL of the self-correlation stands for a value
\* above the limit too, a check without a result for UNKNOWN.
Readiness(c) ==
  LET says(r) == \E n \in DOMAIN Checks[c] : Checks[c][n] = r
  IN  CASE says("FAIL") \/ says("ERROR") -> "failed"
        [] OTHER -> IF Missing(c) # {} \/ says("PENDING") THEN "waiting" ELSE "ready"

----------------------------------------------------------------------------
\* A record is the snapshot it was made of, whatever its check_action says.
NoRecord == "none"
NoResults == [a \in MetricReady |-> NoRecord]
NoItem == [alpha |-> "none", snapshot |-> "bare", tries |-> 0, throttled |-> FALSE]
Recorded(rs, a) == rs[a] # NoRecord

LiveInit ==
  /\ stored \in [MetricReady -> Unasked]
  /\ at = "off" /\ flags = {} /\ todo = {} /\ listed = [a \in MetricReady |-> "bare"]
  /\ checked = 0 /\ item = NoItem
  /\ records = NoResults /\ progress = NoResults /\ report = NoResults /\ errors = 0

\* fetch_unsubmitted, and the results that a resumed run begins with.
Begin ==
  /\ at = "off" /\ at' = "next"
  /\ flags' \in Options
  /\ todo' = MetricReady /\ listed' = [a \in MetricReady |-> Shown(stored[a])] /\ checked' = 0
  /\ records' = IF "resume" \in flags' THEN progress ELSE NoResults
  /\ UNCHANGED <<stored, item, resultFiles, errors>>

\* Faulty variant: skips what any earlier run has recorded.
SkipsRecorded(a) == Recorded(progress, a)

Skips(a) == "resume" \in flags /\ Recorded(records, a)

Skip(a) ==
  /\ at = "next" /\ a \in todo /\ Skips(a) /\ todo' = todo \ {a}
  /\ UNCHANGED <<stored, at, flags, listed, checked, item, records, resultFiles, errors>>

\* The checks of the list, or of the alpha itself when it has none.
Take(a) ==
  /\ at = "next" /\ a \in todo /\ ~Skips(a)
  /\ LET c == IF HasPlatformCheck(listed[a]) THEN listed[a] ELSE Shown(stored[a])
     IN  item' = [alpha |-> a, snapshot |-> c, tries |-> 1, throttled |-> FALSE]
  /\ todo' = todo \ {a} /\ at' = "decide"
  /\ UNCHANGED <<stored, flags, listed, checked, records, resultFiles, errors>>

\* record_for_item, save_report and the progress file.
Save(a, c) ==
  /\ records' = [records EXCEPT ![a] = c]
  /\ report' = records' /\ progress' = records'
  /\ at' = "next" /\ item' = NoItem

DetailFails(a) ==
  /\ at = "next" /\ a \in todo /\ ~Skips(a) /\ ~HasPlatformCheck(listed[a]) /\ Error
  /\ Save(a, listed[a]) /\ todo' = todo \ {a}
  /\ UNCHANGED <<stored, flags, listed, checked>>

ShouldCheck ==
  \/ "refresh" \in flags \/ ~HasPlatformCheck(item.snapshot)
  \/ "recheck" \in flags /\ "SELF_CORRELATION" \in Blockers(item.snapshot)

LimitReached == "limited" \in flags /\ checked >= MaxChecks

RecordStored ==
  /\ at = "decide" /\ ("dry" \in flags \/ ~ShouldCheck)
  /\ Save(item.alpha, item.snapshot)
  /\ UNCHANGED <<stored, flags, todo, listed, checked, errors>>

\* Recorded, and written only with the next record.
Defer ==
  /\ at = "decide" /\ "dry" \notin flags /\ ShouldCheck /\ LimitReached
  /\ records' = [records EXCEPT ![item.alpha] = item.snapshot]
  /\ at' = "next" /\ item' = NoItem
  /\ UNCHANGED <<stored, flags, todo, listed, checked, resultFiles, errors>>

AskForCheck ==
  /\ at = "decide" /\ "dry" \notin flags /\ ShouldCheck /\ ~LimitReached
  /\ at' = "check"
  /\ stored' = [stored EXCEPT ![item.alpha] = IF @ \in Unasked THEN "computing" ELSE @]
  /\ UNCHANGED <<flags, todo, listed, checked, item, records, resultFiles, errors>>

CheckAnswers ==
  /\ at = "check" /\ stored[item.alpha] # "computing"
  /\ Save(item.alpha, Shown(stored[item.alpha])) /\ checked' = checked + 1
  /\ UNCHANGED <<stored, flags, todo, listed, errors>>

\* An empty answer is asked again, Retries times in all.
CheckIsEmpty ==
  /\ at = "check" /\ stored[item.alpha] = "computing"
  /\ IF item.tries < Retries
     THEN item' = [item EXCEPT !.tries = @ + 1] /\ UNCHANGED <<at, records, resultFiles>>
     ELSE Save(item.alpha, item.snapshot)
  /\ UNCHANGED <<stored, flags, todo, listed, checked, errors>>

\* HTTP 429 is waited out once, with the attempts anew.
CheckFails ==
  /\ at = "check" /\ Error
  /\ \/ /\ ~item.throttled /\ item' = [item EXCEPT !.throttled = TRUE, !.tries = 1]
        /\ UNCHANGED <<at, records, resultFiles>>
     \/ Save(item.alpha, item.snapshot)
  /\ UNCHANGED <<stored, flags, todo, listed, checked>>

End ==
  /\ at = "next" /\ todo = {} /\ at' = "off" /\ report' = records
  /\ UNCHANGED <<stored, flags, todo, listed, checked, item, records, progress, errors>>

\* A death, a raising fetch of the list, or a torn progress file.
RunDies ==
  /\ at # "off" /\ Error /\ at' = "off" /\ item' = NoItem
  /\ progress' \in {progress, NoResults}
  /\ UNCHANGED <<stored, flags, todo, listed, checked, records, report>>

\* External: the platform computes the checks it was asked for.
PlatformComputes(a) ==
  /\ \/ stored[a] = "computing" /\ stored' = [stored EXCEPT ![a] = "working"]
     \/ stored[a] = "working" /\ \E c \in Final : stored' = [stored EXCEPT ![a] = c]
  /\ UNCHANGED <<runVars, records, resultFiles, errors>>

----------------------------------------------------------------------------
RunStep ==
  \/ \E a \in MetricReady : Skip(a) \/ Take(a) \/ DetailFails(a)
  \/ RecordStored \/ Defer \/ AskForCheck \/ CheckAnswers \/ CheckIsEmpty \/ CheckFails \/ End
LiveNext == Begin \/ RunStep \/ RunDies \/ \E a \in MetricReady : PlatformComputes(a)

LiveFairness == WF_liveVars(RunStep) /\ \A a \in MetricReady : WF_liveVars(PlatformComputes(a))
LiveSpec == LiveInit /\ [][LiveNext]_liveVars /\ LiveFairness

----------------------------------------------------------------------------
(* Properties                                                              *)

LiveTypeOK ==
  /\ at \in {"off", "next", "decide", "check"}
  /\ flags \in Options \cup {{}} /\ todo \subseteq MetricReady
  /\ checked \in 0..Cardinality(MetricReady) /\ errors \in 0..MaxErrors
  /\ item.alpha \in MetricReady \cup {"none"}

\* The script is run again and again, in the end with neither --resume nor
\* --dry-run nor --max-checks.
RunAgain == []<>(at = "off") /\ []<>(at = "next") /\ <>[](flags \cap {"resume", "dry", "limited"} = {})

\* Whatever errors, deferrals and deaths earlier runs have left in the files,
\* the report then shows the checks as the platform has them in the end, and
\* offers for review just the alphas that the submission worker would find ready
\* without a warning about units.
EveryoneIsReviewed ==
  RunAgain => \A a \in MetricReady :
    <>[](at = "off" =>
           /\ report[a] = stored[a]
           /\ AllPass(report[a]) <=>
                Readiness(stored[a]) = "ready" /\ Checks[stored[a]].UNITS # "WARNING")
=============================================================================
