-------------------------- MODULE DecisionsProofs ---------------------------
(*****************************************************************************)
(* Theorems about parts that MCDecisions checks side by side: the workers'   *)
(* lock, the memory of runs, the triage of failed rows and the memory of     *)
(* policies.  Those about listings and choices have modules of their own.    *)
(*****************************************************************************)
EXTENDS MCDecisions, FoldLemmas, AlphaListingProofs, CandidateChoiceProofs

-----------------------------------------------------------------------------
(***************************************************************************)
(* While acquisitions do not overlap, the lock is exclusive for any number *)
(* of processes.  The argument: the path always holds the file of the      *)
(* process that holds the lock, and the one process that acquires either   *)
(* has read that owner or knows that there is none.                        *)
(***************************************************************************)
\* Only one process acquires at a time.
OneAcquires ==
  \A p, q \in Processes : pc[p] \in Acquiring /\ pc[q] \in Acquiring => p = q

\* The path holds the file of whoever holds or is about to hold the lock.
PathIsHolders ==
  \A p \in Processes :
    /\ pc[p] = "write" => file = p
    /\ pc[p] \in Holding => file = p /\ written

\* What the acquiring process has read is still true of the holder.
HolderIsSeen ==
  \A p, q \in Processes :
    /\ pc[p] = "check" /\ pc[q] \in Holding => seen[p] = q
    /\ pc[p] = "unlink" => pc[q] \notin Holding

\* A process that will try to create the file has an attempt left.
AttemptLeft == \A p \in Processes : pc[p] \in {"new", "open"} => attempts[p] < MaxAttempts

IndInv == TypeOK /\ OneAcquires /\ PathIsHolders /\ HolderIsSeen /\ AttemptLeft

\* The invariant holds at the start: nobody acquires or holds the lock.
LEMMA InitInvariant == Init => IndInv
<1> SUFFICES ASSUME Init PROVE IndInv
  OBVIOUS
<1> USE DEF Init, Acquiring, Holding
<1>1. 0 \in 0..MaxAttempts /\ 0 < MaxAttempts
  BY ConstantsAssumption DEF ConstantsAssumption
<1>2. TypeOK
  BY <1>1 DEF TypeOK
<1>3. OneAcquires /\ PathIsHolders /\ HolderIsSeen
  BY DEF OneAcquires, PathIsHolders, HolderIsSeen
<1>4. AttemptLeft
  BY <1>1 DEF AttemptLeft
<1> QED
  BY <1>2, <1>3, <1>4 DEF IndInv

\* A process moves on within an acquisition: it stays the only one that acquires.
LEMMA StepInvariant ==
  ASSUME Overlap = FALSE, IndInv, [Next]_vars
  PROVE  IndInv'
<1> USE ConstantsAssumption DEF ConstantsAssumption, Goto, Acquiring, Holding
<1>1. CASE UNCHANGED vars
  BY <1>1 DEF vars, IndInv, TypeOK, OneAcquires, PathIsHolders, HolderIsSeen, AttemptLeft
<1>2. ASSUME NEW p \in Processes, Launch(p) PROVE IndInv'
  <2>2. pc' \in [Processes -> Acquiring \cup Holding \cup {"new", "refused", "ended"}]
    BY <1>2 DEF Launch, IndInv, TypeOK
  <2>3. TypeOK'
    BY <1>2, <2>2 DEF Launch, IndInv, TypeOK
  <2>4. OneAcquires' /\ PathIsHolders' /\ HolderIsSeen' /\ AttemptLeft'
    BY <1>2 DEF Launch, IndInv, TypeOK, OneAcquires, PathIsHolders, HolderIsSeen, AttemptLeft
  <2> QED
    BY <2>3, <2>4 DEF IndInv
<1>3. ASSUME NEW p \in Processes, CreateFile(p) PROVE IndInv'
  <2>1. attempts[p] + 1 \in 0..MaxAttempts
    BY <1>3 DEF CreateFile, IndInv, TypeOK, AttemptLeft
  <2>2. TypeOK'
    BY <1>3, <2>1 DEF CreateFile, IndInv, TypeOK
  <2>3. ASSUME NEW q \in Processes PROVE pc[q] \notin Holding
    BY <1>3, <2>3 DEF CreateFile, IndInv, TypeOK, PathIsHolders
  <2>4. OneAcquires' /\ AttemptLeft'
    BY <1>3 DEF CreateFile, IndInv, TypeOK, OneAcquires, AttemptLeft
  <2>5. PathIsHolders' /\ HolderIsSeen'
    BY <1>3, <2>3 DEF CreateFile, IndInv, TypeOK, OneAcquires, PathIsHolders, HolderIsSeen
  <2> QED
    BY <2>2, <2>4, <2>5 DEF IndInv
<1>4. ASSUME NEW p \in Processes, FileExists(p) PROVE IndInv'
  BY <1>4 DEF FileExists, IndInv, TypeOK, OneAcquires, PathIsHolders, HolderIsSeen, AttemptLeft
<1>5. ASSUME NEW p \in Processes, ReadOwner(p) PROVE IndInv'
  <2>1. seen' \in [Processes -> Processes \cup {NoProcess}]
    BY <1>5 DEF ReadOwner, IndInv, TypeOK
  <2>2. TypeOK'
    BY <1>5, <2>1 DEF ReadOwner, IndInv, TypeOK
  <2>3. HolderIsSeen'
    <3>1. ASSUME NEW q \in Processes, pc'[q] \in Holding PROVE pc[q] \in Holding
      BY <1>5, <3>1 DEF ReadOwner, IndInv, TypeOK
    <3>2. ASSUME NEW q \in Processes, pc[q] \in Holding PROVE seen'[p] = q
      BY <1>5, <3>2 DEF ReadOwner, IndInv, TypeOK, PathIsHolders
    <3>3. ASSUME NEW q \in Processes, pc'[q] \in {"check", "unlink"}
          PROVE  q = p /\ pc'[q] = "check"
      BY <1>5, <3>3 DEF ReadOwner, IndInv, TypeOK, OneAcquires
    <3> QED
      BY <3>1, <3>2, <3>3 DEF HolderIsSeen
  <2>4. OneAcquires' /\ PathIsHolders' /\ AttemptLeft'
    BY <1>5 DEF ReadOwner, IndInv, TypeOK, OneAcquires, PathIsHolders, AttemptLeft
  <2> QED
    BY <2>2, <2>3, <2>4 DEF IndInv
<1>6. ASSUME NEW p \in Processes, Refuse(p) PROVE IndInv'
  BY <1>6 DEF Refuse, IndInv, TypeOK, OneAcquires, PathIsHolders, HolderIsSeen, AttemptLeft
<1>7. ASSUME NEW p \in Processes, TakeForStale(p) PROVE IndInv'
  BY <1>7
  DEF TakeForStale, OwnerAlive, Alive, IndInv, TypeOK, OneAcquires, PathIsHolders, HolderIsSeen, AttemptLeft
<1>8. ASSUME NEW p \in Processes, Unlink(p) PROVE IndInv'
  BY <1>8 DEF Unlink, AttemptsLeft, IndInv, TypeOK, OneAcquires, PathIsHolders, HolderIsSeen, AttemptLeft
<1>9. ASSUME NEW p \in Processes, WriteOwner(p) PROVE IndInv'
  BY <1>9 DEF WriteOwner, IndInv, TypeOK, OneAcquires, PathIsHolders, HolderIsSeen, AttemptLeft
<1>10. ASSUME NEW p \in Processes, ExitReads(p) PROVE IndInv'
  BY <1>10 DEF ExitReads, IndInv, TypeOK, OneAcquires, PathIsHolders, HolderIsSeen, AttemptLeft
<1>11. ASSUME NEW p \in Processes, ExitUnlinks(p) PROVE IndInv'
  BY <1>11 DEF ExitUnlinks, IndInv, TypeOK, OneAcquires, PathIsHolders, HolderIsSeen, AttemptLeft
<1>12. ASSUME NEW p \in Processes, Die(p) PROVE IndInv'
  BY <1>12 DEF Die, Alive, IndInv, TypeOK, OneAcquires, PathIsHolders, HolderIsSeen, AttemptLeft
<1> QED
  BY <1>1, <1>2, <1>3, <1>4, <1>5, <1>6, <1>7, <1>8, <1>9, <1>10, <1>11, <1>12 DEF Next, Step

\* While acquisitions do not overlap, at most one worker holds the lock, however
\* many are launched and wherever they die.
THEOREM OneHolder == Overlap = FALSE /\ Spec => []MutualExclusion
<1> SUFFICES ASSUME Overlap = FALSE PROVE Spec => []MutualExclusion
  OBVIOUS
<1>1. Init => IndInv
  BY InitInvariant
<1>2. IndInv /\ [Next]_vars => IndInv'
  BY StepInvariant
<1>3. IndInv => MutualExclusion
  BY DEF IndInv, PathIsHolders, MutualExclusion
<1> QED
  BY <1>1, <1>2, <1>3, PTL DEF Spec

-----------------------------------------------------------------------------
(*****************************************************************************)
(* A memory stage that says completed has stored what it saw, however the    *)
(* engine's copy and the evaluation worker's interleave, fail or die.  The   *)
(* argument: the store forgets nothing, and where a writer stands tells which *)
(* of the two upserts of all that it has read are behind it.  The worker's   *)
(* steps only add to what the engine has stored.                             *)
(*****************************************************************************)
\* What a writer works on.
Work == [at : {"off", "run", "candidates", "edges", "reports"},
         spent : {0} \cup {Cardinality(rows) : rows \in SUBSET Rows},
         seen : SUBSET (Rows \X {"results", "diagnosis", "alpha"})]

\* What a writer saw is in the store as far as the writer has come, and the
\* store forgets nothing.
MemoryInv ==
  /\ sync \in [Writers -> Work]
  /\ \A w \in Writers :
       /\ sync[w].at \in {"edges", "reports"} => sync[w].seen \subseteq nodes
       /\ sync[w].at = "reports" => sync[w].seen \subseteq edges

\* A writer that is off has no work.
LEMMA OffIsWork == Off \in Work /\ Off.at = "off"
BY DEF Off, Work

\* At the start nobody writes.
LEMMA MemoryStarts == MemoryInit => MemoryInv
BY OffIsWork DEF MemoryInit, MemoryInv

\* The files name rows only.
LEMMA CandidatesAreNodes == Candidates \subseteq Rows \X {"results", "diagnosis", "alpha"}
BY DEF Candidates, CandidateId

\* A writer that goes on, begins or stops leaves the other one alone.
LEMMA WriterMoves ==
  ASSUME MemoryInv, NEW w \in Writers, nodes \subseteq nodes', edges \subseteq edges',
         NEW work \in Work, sync' = [sync EXCEPT ![w] = work],
         work.at \in {"edges", "reports"} => work.seen \subseteq nodes',
         work.at = "reports" => work.seen \subseteq edges'
  PROVE  MemoryInv'
BY DEF MemoryInv

\* It goes on when what it is about to have stored is stored.
LEMMA WriterGoes ==
  ASSUME MemoryInv, NEW w \in Writers, NEW place \in {"candidates", "edges", "reports"},
         Goes(w, place), nodes \subseteq nodes', edges \subseteq edges',
         place \in {"edges", "reports"} => sync[w].seen \subseteq nodes',
         place = "reports" => sync[w].seen \subseteq edges'
  PROVE  MemoryInv'
<1> DEFINE work == [sync[w] EXCEPT !.at = place]
<1>1. work \in Work /\ work.at = place /\ work.seen = sync[w].seen
  BY DEF MemoryInv, Work
<1>2. sync' = [sync EXCEPT ![w] = work]
  BY DEF Goes
<1> HIDE DEF work
<1> QED
  BY <1>1, <1>2, WriterMoves

\* It stops without a trace, at its end, by a failure or a death.
LEMMA WriterStops ==
  ASSUME MemoryInv, NEW w \in Writers, sync' = [sync EXCEPT ![w] = Off], UNCHANGED <<nodes, edges>>
  PROVE  MemoryInv'
BY WriterMoves, OffIsWork

\* Every step keeps the invariant.
LEMMA MemorySteps == MemoryInv /\ [MemoryNext]_memoryVars => MemoryInv'
<1> SUFFICES ASSUME MemoryInv, [MemoryNext]_memoryVars PROVE MemoryInv'
  OBVIOUS
<1> USE DEF store, memoryFiles
<1>1. CASE \/ UNCHANGED memoryVars \/ \E r \in Rows : RowIsWritten(r)
           \/ DiagnosisStage \/ TriageStage \/ EvaluationStage
  <2>1. UNCHANGED <<sync, nodes, edges>>
    BY <1>1 DEF memoryVars, RowIsWritten, DiagnosisStage, TriageStage, EvaluationStage
  <2> QED
    BY <2>1 DEF MemoryInv
<1>2. ASSUME NEW w \in Writers, SyncStep(w) PROVE MemoryInv'
  <2>1. CASE SyncBegins(w)
    <3> DEFINE work == [at |-> "run", spent |-> Spent, seen |-> Candidates]
    <3>1. Spent \in {Cardinality(rows) : rows \in SUBSET Rows}
      BY DEF Spent
    <3>2. work \in Work /\ work.at = "run"
      BY <3>1, CandidatesAreNodes DEF Work
    <3>3. sync' = [sync EXCEPT ![w] = work] /\ UNCHANGED <<nodes, edges>>
      BY <2>1 DEF SyncBegins
    <3> HIDE DEF work
    <3> QED
      BY <3>2, <3>3, WriterMoves
  <2>2. CASE UpsertsRun(w)
    BY <2>2, WriterGoes DEF UpsertsRun
  <2>3. CASE UpsertsCandidates(w)
    BY <2>3, WriterGoes DEF UpsertsCandidates, AfterNodes
  <2>4. CASE UpsertsEdges(w)
    BY <2>4, WriterGoes DEF UpsertsEdges, MemoryInv
  <2>5. CASE Reports(w)
    BY <2>5, WriterStops DEF Reports
  <2> QED
    BY <1>2, <2>1, <2>2, <2>3, <2>4, <2>5 DEF SyncStep
<1>3. CASE MemoryFails \/ EngineDies \/ WorkerEnds
  BY <1>3, WriterStops DEF MemoryFails, EngineDies, WorkerEnds, Writers
<1> QED
  BY <1>1, <1>2, <1>3 DEF MemoryNext, LoopStep, Writers

\* Only the engine's stage completes the checkpoint, once its edges are stored.
LEMMA CompletedIsWhole ==
  ASSUME MemoryInv, [MemoryNext]_memoryVars, checkpoint = "running", checkpoint' = "completed"
  PROVE  sync["engine"].seen \subseteq nodes' \cap edges'
<1> USE DEF store, memoryFiles
<1>1. sync["engine"].at = "reports" /\ UNCHANGED <<nodes, edges>>
  BY DEF MemoryNext, memoryVars, RowIsWritten, LoopStep, SyncStep, DiagnosisStage, TriageStage,
         EvaluationStage, SyncBegins, UpsertsRun, UpsertsCandidates, UpsertsEdges, Reports,
         MemoryFails, EngineDies, WorkerEnds
<1> QED
  BY <1>1 DEF MemoryInv, Writers

\* A memory stage that completes has stored every candidate that its files named,
\* with its edge, whatever an interrupted attempt or the worker has left half done.
THEOREM MemoryStoresAll == MemorySpec => MemoryIsWhole
<1>1. MemoryInv /\ [MemoryNext]_memoryVars =>
        [(checkpoint = "running" /\ checkpoint' = "completed")
           => sync["engine"].seen \subseteq nodes' \cap edges']_memoryVars
  BY CompletedIsWhole
<1> QED
  BY <1>1, MemoryStarts, MemorySteps, PTL DEF MemorySpec, MemoryIsWhole

-----------------------------------------------------------------------------
(*****************************************************************************)
(* The triage of a row agrees with its diagnosis, for any row: whatever      *)
(* checks failed, with whatever values, and whatever error text.  The        *)
(* argument: the thresholds have been written twice, but with the same       *)
(* values, so each route pins down the bucket of its defect's diagnosis; and *)
(* a repair is routed only where no diagnosis of a failed check forbids it.  *)
(*****************************************************************************)
TriageInv ==
  /\ known \in {"new", "submitted", "failed"}
  /\ "TERMINAL_ERROR" \notin DOMAIN row.checks
  /\ verdict \in {Undecided, route_diagnosed_row(row, known)}

\* The two copies of each bucket's thresholds.
LEMMA SameBuckets ==
  /\ \A v : DiagnosedSubUniverse(v) = RoutedSubUniverse(v)
  /\ \A v : DiagnosedConcentration(v) = RoutedConcentration(v)
  /\ \A r : DiagnosedWeakness(r) = RoutedWeakness(r)
BY DEF DiagnosedSubUniverse, RoutedSubUniverse, DiagnosedConcentration, RoutedConcentration,
       DiagnosedWeakness, RoutedWeakness

\* The buckets that there are.
LEMMA Buckets ==
  /\ \A v : self_corr_bucket(v) \in {"unknown", "extreme", "moderate", "mild"}
  /\ \A v : DiagnosedSubUniverse(v) \in {"unknown", "severe", "moderate", "mild"}
  /\ \A v : DiagnosedConcentration(v) \in {"unknown", "severe", "moderate", "mild"}
  /\ \A r : DiagnosedWeakness(r) \in {"near_pass", "deep_fail", "medium_gap"}
BY DEF self_corr_bucket, DiagnosedSubUniverse, DiagnosedConcentration, DiagnosedWeakness

\* What the diagnosis of each defect says, bucket by bucket: self-correlation,
LEMMA CrowdedDiagnosis ==
  ASSUME NEW r, NEW b, b = self_corr_bucket(Value(r, "SELF_CORRELATION"))
  PROVE  \A d \in Overcrowded(r) :
           /\ d.type = "overcrowded_skeleton" /\ d.bucket = b /\ d.checks = {"SELF_CORRELATION"}
           /\ b = "extreme" => d.action = "replace_overcrowded_signal"
           /\ b = "mild" => d.action = "light_self_corr_repair"
           /\ b \in {"moderate", "unknown"} => d.action \in
                {"structural_self_corr_escape", "self_corr_live_recheck_or_structural_escape"}
<1>1. b \in {"unknown", "extreme", "moderate", "mild"}
  BY Buckets
<1> QED
  BY <1>1 DEF Overcrowded, Diagnosis

\* a weak sub-universe,
LEMMA UniverseDiagnosis ==
  ASSUME NEW r, NEW b, b = DiagnosedSubUniverse(Value(r, "LOW_SUB_UNIVERSE_SHARPE"))
  PROVE  \A d \in Unstable(r) :
           /\ d.type = "sub_universe_instability" /\ d.bucket = b
           /\ d.checks = {"LOW_SUB_UNIVERSE_SHARPE"}
           /\ b = "severe" => d.action = "replace_unstable_universe_proxy"
           /\ b = "moderate" => d.action = "controlled_sub_universe_repair"
BY DEF Unstable, Diagnosis

\* concentrated weight,
LEMMA WeightDiagnosis ==
  ASSUME NEW r, NEW b, b = DiagnosedConcentration(Value(r, "CONCENTRATED_WEIGHT"))
  PROVE  \A d \in Concentrated(r) :
           /\ d.type = "weight_concentration" /\ d.bucket = b /\ d.checks = {"CONCENTRATED_WEIGHT"}
           /\ b = "severe" => d.action = "replace_concentrated_expression_structure"
           /\ b # "severe" => d.action \in
                {"smooth_or_truncate_weight_concentration", "light_weight_smoothing"}
BY DEF Concentrated, Diagnosis

\* weak Sharpe or fitness,
LEMMA WeakDiagnosis ==
  ASSUME NEW r, NEW b, b = DiagnosedWeakness(r)
  PROVE  \A d \in Weak(r) :
           /\ d.type = "weak_behavior_proxy" /\ d.bucket = b
           /\ d.checks = Failed(r) \cap {"LOW_SHARPE", "LOW_FITNESS"}
           /\ b = "deep_fail" => d.action = "replace_proxy_or_behavior_thesis"
           /\ b = "medium_gap" => d.action = "rewrite_signal_chassis"
<1>1. b \in {"near_pass", "deep_fail", "medium_gap"}
  BY Buckets
<1> QED
  BY <1>1 DEF Weak, Diagnosis

\* and the rest, among them the terminal errors.
LEMMA OtherDiagnosis ==
  ASSUME NEW r, NEW d \in Terminal(r) \cup Others(r)
  PROVE  /\ d.bucket = NoBucket
         /\ \/ d.type \in {"field_type_operator_mismatch", "invalid_simulation_request"}
               /\ d.checks = {"TERMINAL_ERROR"}
            \/ d.type = "turnover_instability" /\ d.checks = {"HIGH_TURNOVER"}
            \/ /\ d.type = "unit_normalization_mismatch" /\ d.checks = {"UNITS"}
               /\ "UNITS" \in Named(r, {"WARNING"})
<1>1. CASE d \in Terminal(r)
  BY <1>1 DEF Terminal, Diagnosis
<1>2. CASE d \in Others(r)
  BY <1>2 DEF Others, Diagnosis
<1> QED
  BY <1>1, <1>2

\* A failed check is diagnosed.
LEMMA FailedIsDiagnosed ==
  ASSUME NEW r
  PROVE  /\ "SELF_CORRELATION" \in Failed(r) => Overcrowded(r) # {}
         /\ "LOW_SUB_UNIVERSE_SHARPE" \in Failed(r) => Unstable(r) # {}
         /\ "CONCENTRATED_WEIGHT" \in Failed(r) => Concentrated(r) # {}
         /\ "LOW_SHARPE" \in Failed(r) \/ "LOW_FITNESS" \in Failed(r) => Weak(r) # {}
<1>1. Failed(r) \subseteq Named(r, {"FAIL", "ERROR", "PENDING"}) \cap Named(r, {"FAIL", "ERROR", "WARNING"})
  BY DEF Failed, Named
<1>2. "SELF_CORRELATION" \in Failed(r) => Overcrowded(r) # {}
  BY <1>1 DEF Overcrowded
<1>3. "LOW_SUB_UNIVERSE_SHARPE" \in Failed(r) => Unstable(r) # {}
  BY DEF Unstable
<1>4. "CONCENTRATED_WEIGHT" \in Failed(r) => Concentrated(r) # {}
  BY <1>1 DEF Concentrated
<1>5. "LOW_SHARPE" \in Failed(r) \/ "LOW_FITNESS" \in Failed(r) => Weak(r) # {}
  BY DEF Weak
<1> QED
  BY <1>2, <1>3, <1>4, <1>5

\* What a route says of the row.
LEMMA RouteTaken ==
  ASSUME NEW r, NEW alpha, NEW v, v = route_diagnosed_row(r, alpha),
         NEW corr, corr = self_corr_bucket(Value(r, "SELF_CORRELATION")),
         NEW universe, universe = RoutedSubUniverse(Value(r, "LOW_SUB_UNIVERSE_SHARPE")),
         NEW weight, weight = RoutedConcentration(Value(r, "CONCENTRATED_WEIGHT"))
  PROVE  /\ v.route \in {"replace_overcrowded_signal", "self_corr_light_repair", "self_corr_escape"} =>
              "SELF_CORRELATION" \in Failed(r)
         /\ v.route = "replace_overcrowded_signal" => corr = "extreme"
         /\ v.route = "self_corr_light_repair" => corr = "mild"
         /\ v.route = "self_corr_escape" => corr \notin {"extreme", "mild"}
         /\ v.route = "replace_concentrated_expression_structure" =>
              "CONCENTRATED_WEIGHT" \in Failed(r) /\ weight = "severe"
         /\ v.route = "smooth_or_truncate_weight_concentration" =>
              "CONCENTRATED_WEIGHT" \in Failed(r) /\ weight # "severe"
         /\ v.route = "replace_unstable_universe_proxy" =>
              "LOW_SUB_UNIVERSE_SHARPE" \in Failed(r) /\ universe = "severe"
         /\ v.route = "controlled_sub_universe_repair" =>
              "LOW_SUB_UNIVERSE_SHARPE" \in Failed(r) /\ universe = "moderate"
         /\ v.route \in {"replace_weak_behavior_proxy", "rewrite_weak_signal_chassis"} =>
              "LOW_SHARPE" \in Failed(r) \/ "LOW_FITNESS" \in Failed(r)
         /\ v.route = "replace_weak_behavior_proxy" => RoutedWeakness(r) = "deep_fail"
         /\ v.route = "rewrite_weak_signal_chassis" => RoutedWeakness(r) = "medium_gap"
         /\ v = Optimize("structural_repair_or_parameter_sweep") =>
              /\ row_near_pass(r)
              /\ "SELF_CORRELATION" \notin Failed(r) /\ "CONCENTRATED_WEIGHT" \notin Failed(r)
              /\ "LOW_SUB_UNIVERSE_SHARPE" \in Failed(r) => universe \notin {"severe", "moderate"}
         /\ v.bucket = "direct_submit" => Failed(r) = {} /\ alpha \notin {"submitted", "failed"}
         /\ v.bucket # "none"
BY DEF route_diagnosed_row, Low, Optimize, NextIfNear

\* Only buckets that must not be spent on are given a policy that says so.
LEMMA NoShareForNothing ==
  ASSUME NEW d, NEW p \in PoliciesOf(d),
         d.type \in {"weak_behavior_proxy", "overcrowded_skeleton", "sub_universe_instability",
                     "weight_concentration", "field_type_operator_mismatch",
                     "invalid_simulation_request", "turnover_instability",
                     "unit_normalization_mismatch"}
  PROVE  /\ p.budget \in NothingToSpend => MaxBudgetShare(p) = 0
         /\ d.type = "weak_behavior_proxy" /\ d.bucket = "deep_fail" => p.budget \in NothingToSpend
         /\ d.type = "sub_universe_instability" /\ d.bucket = "severe" => p.budget \in NothingToSpend
         /\ d.type = "weight_concentration" /\ d.bucket = "severe" => p.budget \in NothingToSpend
         /\ d.type = "weak_behavior_proxy" /\ d.bucket = "near_pass" => MaxBudgetShare(p) > 0
         /\ d.type = "sub_universe_instability" /\ d.bucket # "severe" => MaxBudgetShare(p) > 0
<1>1. PICK n, f : p = finalize_policy(d, n, f)
  BY DEF PoliciesOf
<1>2. p.type = d.type /\ p.bucket = d.bucket /\ p.budget = policy_template(d.type, d.bucket)
  BY <1>1 DEF finalize_policy
<1> QED
  BY <1>2 DEF policy_template, MaxBudgetShare, NothingToSpend, BudgetWords


\* The checks have the names of the platform's.
LEMMA CheckNames ==
  /\ \A s, f, t, sc, su, cw, un : "TERMINAL_ERROR" \notin DOMAIN ResultRow(s, f, t, sc, su, cw, un).checks
  /\ \A e : "TERMINAL_ERROR" \notin DOMAIN EmptyRow(e).checks
BY DEF EmptyRow, ResultRow

\* A row comes with the platform's checks and no verdict yet,
LEMMA TriageStarts == TriageInit => TriageInv
<1> SUFFICES ASSUME TriageInit PROVE TriageInv
  OBVIOUS
<1>1. \/ \E s, f, t, sc, su, cw, un : row = ResultRow(s, f, t, sc, su, cw, un)
      \/ \E e : row = EmptyRow(e)
  BY Zenon DEF TriageInit
<1>2. "TERMINAL_ERROR" \notin DOMAIN row.checks
  BY <1>1, CheckNames, Zenon
<1> QED
  BY <1>2 DEF TriageInit, TriageInv

\* and a verdict is what the router makes of the row.
LEMMA TriageSteps == TriageInv /\ [TriageNext]_triageVars => TriageInv'
BY DEF TriageInv, TriageNext, Route, triageVars

\* A row that is near a pass has no defect but those that repairs have a share for.
LEMMA TriageAgrees == TriageInv => RouteAgreesWithDiagnosis
<1> SUFFICES ASSUME TriageInv PROVE RouteAgreesWithDiagnosis
  OBVIOUS
<1> DEFINE diagnoses == diagnose_failure_objects(row)
           ofFailed == {d \in diagnoses : d.checks \cap Failed(row) # {}}
           corr == self_corr_bucket(Value(row, "SELF_CORRELATION"))
           universe == DiagnosedSubUniverse(Value(row, "LOW_SUB_UNIVERSE_SHARPE"))
           weight == DiagnosedConcentration(Value(row, "CONCENTRATED_WEIGHT"))
           weakness == DiagnosedWeakness(row)
<1>1. /\ universe = RoutedSubUniverse(Value(row, "LOW_SUB_UNIVERSE_SHARPE"))
      /\ weight = RoutedConcentration(Value(row, "CONCENTRATED_WEIGHT"))
      /\ weakness = RoutedWeakness(row)
      /\ corr \in {"unknown", "extreme", "moderate", "mild"}
      /\ universe \in {"unknown", "severe", "moderate", "mild"}
      /\ weight \in {"unknown", "severe", "moderate", "mild"}
      /\ weakness \in {"near_pass", "deep_fail", "medium_gap"}
  BY SameBuckets, Buckets
<1>2. diagnoses = Terminal(row) \cup Overcrowded(row) \cup Unstable(row) \cup Weak(row)
                    \cup Concentrated(row) \cup Others(row)
  BY DEF diagnose_failure_objects
<1> HIDE DEF diagnoses, corr, universe, weight, weakness
<1>3. verdict = Undecided \/ verdict = route_diagnosed_row(row, known)
  BY DEF TriageInv
<1>4. verdict.route \in DOMAIN Grounds =>
        \E d \in diagnoses :
          /\ d.type = Grounds[verdict.route][1] /\ d.action \in Grounds[verdict.route][2]
          /\ verdict.route \in ReplaceRoutes => \A p \in PoliciesOf(d) : p.budget \in NothingToSpend
  <2> SUFFICES ASSUME verdict.route \in DOMAIN Grounds
               PROVE  \E d \in diagnoses :
                        /\ d.type = Grounds[verdict.route][1] /\ d.action \in Grounds[verdict.route][2]
                        /\ verdict.route \in ReplaceRoutes =>
                             \A p \in PoliciesOf(d) : p.budget \in NothingToSpend
    OBVIOUS
  <2>1. verdict = route_diagnosed_row(row, known)
    BY <1>3 DEF Undecided, Grounds
  <2>2. CASE verdict.route \in {"replace_overcrowded_signal", "self_corr_light_repair", "self_corr_escape"}
    <3>1. PICK d \in Overcrowded(row) : TRUE
      BY <2>1, <2>2, RouteTaken, FailedIsDiagnosed
    <3>2. d \in diagnoses /\ d.type = "overcrowded_skeleton" /\ d.bucket = corr
      BY <1>2, CrowdedDiagnosis DEF corr
    <3>3. d.action \in Grounds[verdict.route][2]
      <4>1. CASE verdict.route = "replace_overcrowded_signal"
        BY <2>1, <4>1, RouteTaken, CrowdedDiagnosis DEF Grounds
      <4>2. CASE verdict.route = "self_corr_light_repair"
        BY <2>1, <4>2, RouteTaken, CrowdedDiagnosis DEF Grounds
      <4>3. CASE verdict.route = "self_corr_escape"
        <5>1. corr \in {"moderate", "unknown"}
          BY <1>1, <2>1, <4>3, RouteTaken DEF corr
        <5> QED
          BY <4>3, <5>1, CrowdedDiagnosis DEF Grounds, corr
      <4> QED
        BY <2>2, <4>1, <4>2, <4>3
    <3>4. verdict.route \notin ReplaceRoutes
      BY <2>2 DEF ReplaceRoutes
    <3> QED
      BY <2>2, <3>2, <3>3, <3>4 DEF Grounds
  <2>3. CASE verdict.route \in {"replace_concentrated_expression_structure",
                                "smooth_or_truncate_weight_concentration"}
    <3>1. PICK d \in Concentrated(row) : TRUE
      BY <2>1, <2>3, RouteTaken, FailedIsDiagnosed
    <3>2. d \in diagnoses /\ d.type = "weight_concentration" /\ d.bucket = weight
      BY <1>2, WeightDiagnosis DEF weight
    <3>3. (weight = "severe") <=> verdict.route = "replace_concentrated_expression_structure"
      BY <1>1, <2>1, <2>3, RouteTaken
    <3>4. d.action \in Grounds[verdict.route][2]
      BY <2>3, <3>3, WeightDiagnosis DEF Grounds, weight
    <3>5. weight = "severe" => \A p \in PoliciesOf(d) : p.budget \in NothingToSpend
      BY <3>2, NoShareForNothing
    <3> QED
      BY <2>3, <3>2, <3>3, <3>4, <3>5 DEF Grounds, ReplaceRoutes
  <2>4. CASE verdict.route \in {"replace_unstable_universe_proxy", "controlled_sub_universe_repair"}
    <3>1. PICK d \in Unstable(row) : TRUE
      BY <2>1, <2>4, RouteTaken, FailedIsDiagnosed
    <3>2. d \in diagnoses /\ d.type = "sub_universe_instability" /\ d.bucket = universe
      BY <1>2, UniverseDiagnosis DEF universe
    <3>3. /\ verdict.route = "replace_unstable_universe_proxy" => universe = "severe"
          /\ verdict.route = "controlled_sub_universe_repair" => universe = "moderate"
      BY <1>1, <2>1, RouteTaken
    <3>4. d.action \in Grounds[verdict.route][2]
      BY <2>4, <3>3, UniverseDiagnosis DEF Grounds, universe
    <3>5. universe = "severe" => \A p \in PoliciesOf(d) : p.budget \in NothingToSpend
      BY <3>2, NoShareForNothing
    <3> QED
      BY <2>4, <3>2, <3>3, <3>4, <3>5 DEF Grounds, ReplaceRoutes
  <2>5. CASE verdict.route \in {"replace_weak_behavior_proxy", "rewrite_weak_signal_chassis"}
    <3>1. PICK d \in Weak(row) : TRUE
      BY <2>1, <2>5, RouteTaken, FailedIsDiagnosed
    <3>2. d \in diagnoses /\ d.type = "weak_behavior_proxy" /\ d.bucket = weakness
      BY <1>2, WeakDiagnosis DEF weakness
    <3>3. /\ verdict.route = "replace_weak_behavior_proxy" => weakness = "deep_fail"
          /\ verdict.route = "rewrite_weak_signal_chassis" => weakness = "medium_gap"
      BY <1>1, <2>1, RouteTaken
    <3>4. d.action \in Grounds[verdict.route][2]
      BY <2>5, <3>3, WeakDiagnosis DEF Grounds, weakness
    <3>5. weakness = "deep_fail" => \A p \in PoliciesOf(d) : p.budget \in NothingToSpend
      BY <3>2, NoShareForNothing
    <3> QED
      BY <2>5, <3>2, <3>3, <3>4, <3>5 DEF Grounds, ReplaceRoutes
  <2> QED
    BY <2>2, <2>3, <2>4, <2>5 DEF Grounds
<1>5. ASSUME NEW d \in diagnoses, NEW p \in PoliciesOf(d), p.budget \in NothingToSpend
      PROVE  MaxBudgetShare(p) = 0
  BY <1>2, <1>5, NoShareForNothing, CrowdedDiagnosis, UniverseDiagnosis, WeightDiagnosis,
     WeakDiagnosis, OtherDiagnosis
<1>6. ASSUME verdict = Optimize("structural_repair_or_parameter_sweep"), NEW d \in ofFailed,
             NEW p \in PoliciesOf(d)
      PROVE  MaxBudgetShare(p) > 0
  <2>1. /\ row_near_pass(row) /\ weakness = "near_pass"
        /\ "SELF_CORRELATION" \notin Failed(row) /\ "CONCENTRATED_WEIGHT" \notin Failed(row)
        /\ "HIGH_TURNOVER" \notin Failed(row)
        /\ "LOW_SUB_UNIVERSE_SHARPE" \in Failed(row) => universe # "severe"
    <3>1. verdict = route_diagnosed_row(row, known)
      BY <1>3, <1>6 DEF Undecided, Optimize
    <3>2. row_near_pass(row)
      BY <1>6, <3>1, RouteTaken
    <3>3. weakness = "near_pass" /\ "HIGH_TURNOVER" \notin Failed(row)
      BY <3>2 DEF row_near_pass, weakness, DiagnosedWeakness, Failed, Named
    <3>4. /\ "SELF_CORRELATION" \notin Failed(row) /\ "CONCENTRATED_WEIGHT" \notin Failed(row)
          /\ "LOW_SUB_UNIVERSE_SHARPE" \in Failed(row) => universe # "severe"
      BY <1>1, <1>6, <3>1, RouteTaken
    <3> QED
      BY <3>2, <3>3, <3>4
  <2>2. d.checks \cap Failed(row) # {} /\ d \in diagnoses
    OBVIOUS
  <2>3. "TERMINAL_ERROR" \notin Failed(row) /\ ("UNITS" \in Named(row, {"WARNING"}) => "UNITS" \notin Failed(row))
    BY DEF TriageInv, Failed, Named
  <2>4. d \notin Terminal(row) \cup Others(row)
    BY <2>1, <2>2, <2>3, OtherDiagnosis
  <2>5. d \notin Overcrowded(row) \cup Concentrated(row)
    BY <2>1, <2>2, CrowdedDiagnosis, WeightDiagnosis
  <2>6. CASE d \in Unstable(row)
    BY <2>1, <2>2, <2>6, UniverseDiagnosis, NoShareForNothing DEF universe
  <2>7. CASE d \in Weak(row)
    BY <2>1, <2>7, WeakDiagnosis, NoShareForNothing DEF weakness
  <2> QED
    BY <1>2, <2>2, <2>4, <2>5, <2>6, <2>7
<1>7. verdict.bucket = "direct_submit" => ofFailed = {} /\ known = "new"
  BY <1>3, RouteTaken DEF TriageInv, Undecided
<1> QED
  BY <1>4, <1>5, <1>6, <1>7 DEF RouteAgreesWithDiagnosis, diagnoses

\* Whatever the row: its route has the diagnosis and the action that belong to it,
\* a forbidding policy gets no share, a repair has a share for each failed check,
\* and a submitted row has no diagnosis of a failed check.
THEOREM RoutesAgree == TriageSpec => []RouteAgreesWithDiagnosis
BY TriageStarts, TriageSteps, TriageAgrees, PTL DEF TriageSpec

-----------------------------------------------------------------------------
(***************************************************************************)
(* The verdicts on a policy agree and are earned, for any policies, slices *)
(* and rows.  The argument: a record's score is what its stage had filed   *)
(* at some time, so what a policy is credited with, stages have filed, and *)
(* with one slice to a stage no rows are credited twice; the levels of     *)
(* evidence never fall when simulations are added that are all good.       *)
(***************************************************************************)
CountKeys == {"decisions", "spent", "ready", "near", "low"}

LEMMA CountsAre == ASSUME NEW c PROVE c \in Counts <=> c \in [CountKeys -> Nat]
BY DEF Counts, CountKeys

LEMMA KeysOfCounts == DOMAIN NoCounts = CountKeys
BY DEF NoCounts, CountKeys

LEMMA SumIsCounts ==
  ASSUME NEW a \in Counts, NEW b \in Counts
  PROVE  Sum(a, b) \in Counts /\ \A k \in CountKeys : Sum(a, b)[k] = a[k] + b[k]
<1>1. a \in [CountKeys -> Nat] /\ b \in [CountKeys -> Nat]
  BY CountsAre
<1>2. Sum(a, b) = [k \in CountKeys |-> a[k] + b[k]]
  BY KeysOfCounts, Zenon DEF Sum
<1>3. Sum(a, b) \in [CountKeys -> Nat]
  BY <1>1, <1>2
<1> QED
  BY <1>2, <1>3, CountsAre

LEMMA NoCountsIsCounts == NoCounts \in Counts
BY DEF NoCounts, Counts

LEMMA CountsHave == ASSUME NEW c \in Counts PROVE \A k \in CountKeys : c[k] \in Nat
BY CountsAre

LEMMA CountsFields ==
  ASSUME NEW c \in Counts
  PROVE  c.decisions \in Nat /\ c.spent \in Nat /\ c.ready \in Nat /\ c.near \in Nat /\ c.low \in Nat
BY DEF Counts

\* Three of the levels, by their numbers.
LEMMA LevelsAre ==
  ASSUME NEW e \in Counts
  PROVE  /\ Assessed(e) \in 0..4
         /\ Assessed(e) >= 3 => e.ready >= 1 /\ e.spent >= 20 /\ e.low * 100 <= e.spent * 75
BY CountsFields DEF Assessed, LowWithin

LEMMA LevelsGrow ==
  ASSUME NEW e \in Counts, NEW b \in Counts, NEW k \in {1, 20}, e.decisions >= 1,
         b.decisions = e.decisions + 1, b.spent = e.spent + k, b.ready = e.ready + k,
         b.near = e.near + k, b.low = e.low
  PROVE  Assessed(b) >= Assessed(e)
<1> USE CountsFields DEF LowWithin
<1> DEFINE Four(c) == c.spent >= 40 /\ RepeatedRuns(c) >= 3 /\ c.ready >= 2
         /\ Skeletons(c) >= 4 /\ Fields(c) >= 3 /\ LowWithin(c, 50)
           Three(c) == c.spent >= 20 /\ c.ready >= 1 /\ Skeletons(c) >= 3 /\ Fields(c) >= 2 /\ LowWithin(c, 75)
           Two(c) == c.spent >= 20 /\ (c.near >= 2 \/ c.ready >= 1) /\ Skeletons(c) >= 3 /\ Fields(c) >= 2
         /\ LowWithin(c, 75)
           One(c) == c.spent >= 3 \/ c.near >= 1
<1>1. /\ Skeletons(b) >= Skeletons(e) /\ Fields(b) >= Fields(e) /\ RepeatedRuns(b) >= RepeatedRuns(e)
      /\ {Skeletons(b), Skeletons(e), Fields(b), Fields(e), RepeatedRuns(b), RepeatedRuns(e)} \subseteq Nat
  BY DEF Skeletons, Fields, RepeatedRuns, BiggerOf
<1>2. /\ Four(e) => Four(b)
      /\ Three(e) => Three(b)
      /\ Two(e) => Two(b)
      /\ One(e) => One(b)
  BY <1>1
<1>3. \A c \in {e, b} : Assessed(c) = IF Four(c) THEN 4 ELSE IF Three(c) THEN 3 ELSE IF Two(c) THEN 2
                          ELSE IF One(c) THEN 1 ELSE 0
  BY DEF Assessed
<1> HIDE DEF Four, Three, Two, One
<1> QED
  BY <1>2, <1>3

\* A record that attribution keeps.
Records == [stage : ScanStages, size : Nat, used : SUBSET Policies, outcome : Counts]

\* A slice has one record, and its score is what its stage had filed at some time.
AttributionIsTrue ==
  /\ attributed \subseteq Records /\ IsFiniteSet(attributed)
  /\ \A q, r \in attributed : q.stage = r.stage /\ q.size = r.size => q = r
  /\ \A r \in attributed, k \in CountKeys : r.outcome[k] <= scanned[r.stage][k]

Used(p) == {r \in attributed : p \in r.used}

\* The sum of k over the records R.
Outcomes(k, R) == Cardinality(Weights([r \in R |-> r.outcome[k]], R))

\* The reports of the evaluation say what their inputs give.
ReportsAreOfInputs ==
  /\ chain # "run" => \A p \in Policies, k \in CountKeys \ {"decisions"} :
                        effect[p][k] = Outcomes(k, Used(p))
  /\ chain \in {"guard", "done"} => 
       governed = [p \in Policies |-> IF effect[p].decisions = 0 THEN NoRow ELSE GovernedRow(effect[p])]
  /\ chain \in {"run", "govern"} => governed = [p \in Policies |-> NoRow]
  /\ chain # "done" => guardrail = {}
  /\ \A p \in Policies : chain = "done" /\ <<"low_quality_policy", p>> \in guardrail => LowQuality(effect[p])

PolicyInv == PolicyTypeOK /\ AttributionIsTrue /\ ReportsAreOfInputs

\* What Effectiveness adds up, as numbers of weights.
LEMMA TotalIsCount ==
  ASSUME NEW R, IsFiniteSet(R), NEW k, \A r \in R : r.outcome[k] \in Nat
  PROVE  MapThenSumSet(LAMBDA r : r.outcome[k], R)
           = Cardinality(Weights([r \in R |-> r.outcome[k]], R))
<1> DEFINE f == [r \in R |-> r.outcome[k]]
           Fold(g) == g = [s \in SUBSET R |-> IF s = {} THEN 0
                                              ELSE AnyOf(s).outcome[k] + g[s \ {AnyOf(s)}]]
           h == CHOOSE g : Fold(g)
<1>1. f \in [R -> Nat]
  OBVIOUS
<1>2. ASSUME NEW g PROVE Fold(g) <=> Partial(g, f, R)
  <2>1. \A s \in SUBSET R : s # {} => f[AnyOf(s)] = AnyOf(s).outcome[k]
    BY AnyIsOneOf
  <2>2. \A s \in SUBSET R :
          (IF s = {} THEN 0 ELSE AnyOf(s).outcome[k] + g[s \ {AnyOf(s)}])
            = (IF s = {} THEN 0 ELSE f[AnyOf(s)] + g[s \ {AnyOf(s)}])
    BY <2>1
  <2> QED
    BY <2>2 DEF Partial
<1>3. Fold(h)
  BY <1>1, <1>2, PartialSumsExist
<1>4. MapThenSumSet(LAMBDA r : r.outcome[k], R) = h[R]
  BY DEF MapThenSumSet, MapThenFoldSet, AnyOf
<1> HIDE DEF h, f
<1> QED
  BY <1>1, <1>2, <1>3, <1>4, PartialSumsCount DEF f

LEMMA EffectivenessIs ==
  ASSUME PolicyInv, NEW p \in Policies
  PROVE  /\ Effectiveness(p) \in Counts
         /\ \A k \in CountKeys \ {"decisions"} :
              Effectiveness(p)[k] = Outcomes(k, Used(p))
<1> DEFINE R == Used(p)
<1>1. IsFiniteSet(R) /\ R \subseteq Records
  <2>1. R \in SUBSET attributed
    BY DEF Used
  <2> QED
    BY <2>1, FS_Subset DEF PolicyInv, AttributionIsTrue
<1>2. \A r \in R : \A k \in CountKeys : r.outcome[k] \in Nat
  BY <1>1, CountsHave DEF Records
<1>3. Cardinality(R) \in Nat
  BY <1>1, FS_CardinalityType
<1>4. \A k \in CountKeys : [r \in R |-> r.outcome[k]] \in [R -> Nat]
  BY <1>2
<1>5. \A k \in CountKeys : MapThenSumSet(LAMBDA r : r.outcome[k], R)
                             = Cardinality(Weights([r \in R |-> r.outcome[k]], R))
  BY <1>1, <1>2, TotalIsCount
<1>6. \A k \in CountKeys : MapThenSumSet(LAMBDA r : r.outcome[k], R) \in Nat
  BY <1>1, <1>4, <1>5, WeightsFinite
<1>7. Effectiveness(p) = [k \in CountKeys |-> IF k = "decisions" THEN Cardinality(R)
                                              ELSE MapThenSumSet(LAMBDA r : r.outcome[k], R)]
  BY KeysOfCounts, Zenon DEF Effectiveness, Used
<1> DEFINE total == [k \in CountKeys |-> MapThenSumSet(LAMBDA r : r.outcome[k], R)]
<1>8. \A k \in CountKeys : total[k] \in Nat
  BY <1>6
<1>9. Effectiveness(p) = [k \in CountKeys |-> IF k = "decisions" THEN Cardinality(R) ELSE total[k]]
  BY <1>7
<1>10. \A k \in CountKeys : total[k] = Cardinality(Weights([r \in R |-> r.outcome[k]], R))
  BY <1>5
<1> HIDE DEF total, R
<1>11. Effectiveness(p) \in [CountKeys -> Nat]
  BY <1>3, <1>8, <1>9
<1> QED
  BY <1>9, <1>10, <1>11, CountsAre DEF R, Outcomes

LEMMA PolicyInitInvariant == PolicyInit => PolicyInv
<1> SUFFICES ASSUME PolicyInit PROVE PolicyInv
  OBVIOUS
<1> USE DEF PolicyInit
<1>1. PolicyTypeOK
  BY NoCountsIsCounts DEF PolicyTypeOK, NoRow
<1>2. AttributionIsTrue
  BY FS_EmptySet DEF AttributionIsTrue
<1>3. ReportsAreOfInputs
  BY DEF ReportsAreOfInputs
<1> QED
  BY <1>1, <1>2, <1>3 DEF PolicyInv

LEMMA ReportsStay ==
  ASSUME ReportsAreOfInputs, chain = "run", UNCHANGED <<effect, governed, guardrail, chain>>
  PROVE  ReportsAreOfInputs'
BY DEF ReportsAreOfInputs

LEMMA RowsAreCounts ==
  ASSUME NEW spent \in Nat, NEW ready \in Nat, NEW near \in Nat, NEW low \in Nat
  PROVE  [NoCounts EXCEPT !.spent = spent, !.ready = ready, !.near = near, !.low = low] \in Counts
<1>1. NoCounts \in [CountKeys -> Nat]
  BY NoCountsIsCounts, CountsAre
<1>2. [NoCounts EXCEPT !.spent = spent, !.ready = ready, !.near = near, !.low = low] \in [CountKeys -> Nat]
  BY <1>1
<1> QED
  BY <1>2, CountsAre

LEMMA RowsInvariant ==
  ASSUME PolicyInv, NEW s \in ScanStages, RowsArrive(s)
  PROVE  PolicyInv'
<1> USE PolicyMemoryConstants
<1>1. PICK b \in Batches : scanned' = [scanned EXCEPT ![s] = Sum(@,
         [NoCounts EXCEPT !.spent = b[1] + b[2] + b[3], !.ready = b[1],
                          !.near = b[1] + b[2], !.low = b[3]])]
  BY Zenon DEF RowsArrive
<1> DEFINE rows == [NoCounts EXCEPT !.spent = b[1] + b[2] + b[3], !.ready = b[1],
                                    !.near = b[1] + b[2], !.low = b[3]]
<1>2. rows \in Counts
  <2>1. b[1] \in Nat /\ b[2] \in Nat /\ b[3] \in Nat
    OBVIOUS
  <2>2. b[1] + b[2] + b[3] \in Nat /\ b[1] + b[2] \in Nat
    BY <2>1
  <2> QED
    BY <2>1, <2>2, RowsAreCounts
<1>3. scanned' = [scanned EXCEPT ![s] = Sum(scanned[s], rows)]
  BY <1>1
<1> HIDE DEF rows
<1>4. scanned \in [ScanStages -> Counts] /\ scanned[s] \in Counts
  BY DEF PolicyInv, PolicyTypeOK
<1>5. scanned' \in [ScanStages -> Counts]
  BY <1>2, <1>3, <1>4, SumIsCounts
<1>6. \A t \in ScanStages, k \in CountKeys : scanned[t][k] <= scanned'[t][k]
  <2> SUFFICES ASSUME NEW t \in ScanStages, NEW k \in CountKeys PROVE scanned[t][k] <= scanned'[t][k]
    OBVIOUS
  <2>1. scanned[t][k] \in Nat /\ rows[k] \in Nat
    BY <1>2, <1>4, CountsHave
  <2>2. CASE t = s
    <3>1. scanned'[t] = Sum(scanned[s], rows)
      BY <1>3, <1>4, <2>2
    <3>2. Sum(scanned[s], rows)[k] = scanned[s][k] + rows[k]
      BY <1>2, <1>4, SumIsCounts
    <3> QED
      BY <2>1, <2>2, <3>1, <3>2
  <2>3. CASE t # s
    BY <1>3, <1>4, <2>1, <2>3
  <2> QED
    BY <2>2, <2>3
<1>7. AttributionIsTrue'
  <2>1. attributed' = attributed
    BY DEF RowsArrive
  <2>2. \A r \in attributed, k \in CountKeys : r.outcome[k] <= scanned'[r.stage][k]
    <3> SUFFICES ASSUME NEW r \in attributed, NEW k \in CountKeys
                 PROVE  r.outcome[k] <= scanned'[r.stage][k]
      OBVIOUS
    <3>1. r.stage \in ScanStages /\ r.outcome[k] \in Nat /\ r.outcome[k] <= scanned[r.stage][k]
      BY CountsHave DEF PolicyInv, AttributionIsTrue, Records
    <3>2. scanned[r.stage][k] \in Nat /\ scanned'[r.stage][k] \in Nat
      BY <1>4, <1>5, <3>1, CountsHave
    <3> QED
      BY <1>6, <3>1, <3>2
  <2> QED
    BY <2>1, <2>2 DEF PolicyInv, AttributionIsTrue
<1>8. ReportsAreOfInputs'
  BY ReportsStay DEF PolicyInv, RowsArrive
<1> QED
  BY <1>5, <1>7, <1>8 DEF PolicyInv, PolicyTypeOK, RowsArrive

LEMMA DecideInvariant ==
  ASSUME PolicyInv, NEW slice \in Slices, NEW used \in SUBSET Policies, Decide(slice[1], slice[2], used)
  PROVE  PolicyInv'
<1> USE PolicyMemoryConstants
<1> DEFINE s == slice[1]
           n == slice[2]
           kept == {r \in attributed : <<r.stage, r.size>> # <<s, n>>}
           new == [stage |-> s, size |-> n, used |-> used, outcome |-> NoCounts]
<1>1. attributed' = kept \cup {new} /\ scanned' = scanned
  BY DEF Decide, WithDecision
<1>2. s \in ScanStages /\ n \in Nat /\ <<s, n>> \in Slices
  OBVIOUS
<1>3. new \in Records
  BY <1>2, NoCountsIsCounts DEF Records
<1>4. IsFiniteSet(attributed')
  <2>1. IsFiniteSet(kept)
    BY FS_Subset DEF PolicyInv, AttributionIsTrue
  <2> QED
    BY <1>1, <2>1, FS_AddElement
<1>5. \A r \in attributed', k \in CountKeys : r.outcome[k] <= scanned'[r.stage][k]
  <2> SUFFICES ASSUME NEW r \in attributed', NEW k \in CountKeys
               PROVE  r.outcome[k] <= scanned'[r.stage][k]
    OBVIOUS
  <2>1. CASE r \in kept
    BY <1>1, <2>1 DEF PolicyInv, AttributionIsTrue
  <2>2. CASE r = new
    <3>1. r.stage = s /\ r.outcome = NoCounts
      BY <2>2
    <3>2. NoCounts[k] = 0
      BY DEF NoCounts, CountKeys
    <3>3. scanned[s][k] \in Nat
      BY <1>2, CountsHave DEF PolicyInv, PolicyTypeOK
    <3> QED
      BY <1>1, <3>1, <3>2, <3>3
  <2> QED
    BY <1>1, <2>1, <2>2
<1>6. AttributionIsTrue'
  <2>1. attributed' \subseteq Records
    BY <1>1, <1>3 DEF PolicyInv, AttributionIsTrue
  <2>2. \A q, r \in attributed' : q.stage = r.stage /\ q.size = r.size => q = r
    BY <1>1 DEF PolicyInv, AttributionIsTrue
  <2> QED
    BY <1>4, <1>5, <2>1, <2>2 DEF AttributionIsTrue
<1>7. PolicyTypeOK'
  <2>1. new.stage = s /\ new.size = n /\ new.outcome \in Counts
    BY NoCountsIsCounts
  <2> HIDE DEF new
  <2>2. \A r \in attributed' : <<r.stage, r.size>> \in Slices /\ r.outcome \in Counts
    BY <1>1, <1>2, <2>1 DEF PolicyInv, PolicyTypeOK
  <2> QED
    BY <2>2 DEF PolicyInv, PolicyTypeOK, Decide
<1>8. ReportsAreOfInputs'
  BY ReportsStay DEF PolicyInv, Decide
<1> QED
  BY <1>6, <1>7, <1>8 DEF PolicyInv

LEMMA ScoreInvariant == ASSUME PolicyInv, Score PROVE PolicyInv'
<1>1. attributed' = {Scored(r) : r \in attributed} /\ scanned' = scanned
  BY DEF Score
<1>2. attributed \subseteq Records /\ IsFiniteSet(attributed)
  BY DEF PolicyInv, AttributionIsTrue
<1>3. ASSUME NEW r \in attributed
      PROVE  /\ Scored(r) \in Records
             /\ Scored(r).stage = r.stage /\ Scored(r).size = r.size
             /\ Scored(r).outcome = scanned[r.stage] /\ scanned[r.stage] \in Counts
  BY <1>2 DEF Records, Scored, PolicyInv, PolicyTypeOK
<1>4. IsFiniteSet(attributed')
  <2> DEFINE f == [r \in attributed |-> Scored(r)]
  <2>1. f \in Surjection(attributed, attributed')
    BY <1>1 DEF Surjection
  <2> QED
    BY <1>2, <2>1, FS_Surjection
<1>5. AttributionIsTrue'
  <2>1. attributed' \subseteq Records
    BY <1>1, <1>3
  <2>2. \A q, r \in attributed' : q.stage = r.stage /\ q.size = r.size => q = r
    <3> SUFFICES ASSUME NEW q \in attributed, NEW r \in attributed,
                        Scored(q).stage = Scored(r).stage, Scored(q).size = Scored(r).size
                 PROVE  Scored(q) = Scored(r)
      BY <1>1
    <3>1. q = r
      BY <1>3 DEF PolicyInv, AttributionIsTrue
    <3> QED
      BY <3>1
  <2>3. \A r \in attributed', k \in CountKeys : r.outcome[k] <= scanned'[r.stage][k]
    <3> SUFFICES ASSUME NEW r \in attributed, NEW k \in CountKeys
                 PROVE  Scored(r).outcome[k] <= scanned[Scored(r).stage][k]
      BY <1>1
    <3>1. Scored(r).outcome[k] = scanned[Scored(r).stage][k] /\ scanned[r.stage][k] \in Nat
      BY <1>3, CountsHave
    <3> QED
      BY <1>3, <3>1
  <2> QED
    BY <1>4, <2>1, <2>2, <2>3 DEF AttributionIsTrue
<1>6. PolicyTypeOK'
  <2>1. \A r \in attributed' : <<r.stage, r.size>> \in Slices /\ r.outcome \in Counts
    BY <1>1, <1>3 DEF PolicyInv, PolicyTypeOK
  <2> QED
    BY <2>1 DEF PolicyInv, PolicyTypeOK, Score
<1>7. ReportsAreOfInputs'
  BY ReportsStay DEF PolicyInv, Score
<1> QED
  BY <1>5, <1>6, <1>7 DEF PolicyInv

LEMMA RowOf ==
  ASSUME NEW e \in Counts
  PROVE  GovernedRow(e) \in [level : 0..4, promotes : BOOLEAN,
                             action : {"none", "observe", "promote", "quarantine"}]
<1>1. Assessed(e) \in 0..4 /\ CanPromote(Assessed(e)) \in BOOLEAN
  BY LevelsAre DEF CanPromote
<1>2. memory_action(e) \in {"none", "observe", "promote", "quarantine"}
  BY DEF memory_action
<1> QED
  BY <1>1, <1>2 DEF GovernedRow

LEMMA CompletesInvariant == ASSUME PolicyInv, RunCompletes PROVE PolicyInv'
<1>1. effect' = [p \in Policies |-> Effectiveness(p)] /\ UNCHANGED <<scanned, attributed, governed, guardrail>>
  BY DEF RunCompletes
<1>2. effect' \in [Policies -> Counts]
  BY <1>1, EffectivenessIs
<1>3. PolicyTypeOK'
  BY <1>1, <1>2 DEF PolicyInv, PolicyTypeOK, RunCompletes
<1>4. AttributionIsTrue'
  BY <1>1 DEF PolicyInv, AttributionIsTrue
<1>5. ReportsAreOfInputs'
  <2>1. \A p \in Policies, k \in CountKeys : Outcomes(k, Used(p))' = Outcomes(k, Used(p))
    BY <1>1 DEF Used, Outcomes
  <2>2. \A p \in Policies, k \in CountKeys \ {"decisions"} : effect'[p][k] = Outcomes(k, Used(p))
    BY <1>1, EffectivenessIs
  <2> QED
    BY <1>1, <2>1, <2>2 DEF PolicyInv, ReportsAreOfInputs, RunCompletes
<1> QED
  BY <1>3, <1>4, <1>5 DEF PolicyInv

LEMMA EvaluationStays ==
  ASSUME PolicyInv, chain # "run", UNCHANGED <<scanned, attributed, effect>>
  PROVE  /\ AttributionIsTrue'
         /\ \A p \in Policies, k \in CountKeys \ {"decisions"} : effect'[p][k] = Outcomes(k, Used(p))'
<1>1. \A p \in Policies, k \in CountKeys : Outcomes(k, Used(p))' = Outcomes(k, Used(p))
  BY DEF Used, Outcomes
<1>2. \A p \in Policies, k \in CountKeys \ {"decisions"} : effect'[p][k] = Outcomes(k, Used(p))'
  BY <1>1 DEF PolicyInv, ReportsAreOfInputs
<1> QED
  BY <1>2 DEF PolicyInv, AttributionIsTrue

LEMMA GovernInvariant == ASSUME PolicyInv, Govern PROVE PolicyInv'
<1>1. governed' = [p \in Policies |-> IF effect[p].decisions = 0 THEN NoRow ELSE GovernedRow(effect[p])]
      /\ UNCHANGED <<scanned, attributed, effect, guardrail>> /\ chain = "govern" /\ chain' = "guard"
  BY DEF Govern
<1>2. effect \in [Policies -> Counts]
  BY DEF PolicyInv, PolicyTypeOK
<1>3. governed' \in [Policies -> [level : 0..4, promotes : BOOLEAN,
                                  action : {"none", "observe", "promote", "quarantine"}]]
  <2>1. NoRow \in [level : 0..4, promotes : BOOLEAN,
                   action : {"none", "observe", "promote", "quarantine"}]
    BY DEF NoRow
  <2> QED
    BY <1>1, <1>2, <2>1, RowOf
<1>4. PolicyTypeOK'
  BY <1>1, <1>3 DEF PolicyInv, PolicyTypeOK
<1>5. ReportsAreOfInputs'
  BY <1>1, EvaluationStays DEF PolicyInv, ReportsAreOfInputs
<1> QED
  BY <1>1, <1>4, <1>5, EvaluationStays DEF PolicyInv

LEMMA GuardInvariant == ASSUME PolicyInv, Guard PROVE PolicyInv'
<1>1. UNCHANGED <<scanned, attributed, effect, governed>> /\ chain = "guard" /\ chain' = "done"
  BY DEF Guard
<1>2. \A p \in Policies : <<"low_quality_policy", p>> \in guardrail' => LowQuality(effect[p])
  BY DEF Guard
<1>3. PolicyTypeOK'
  BY <1>1 DEF PolicyInv, PolicyTypeOK
<1>4. ReportsAreOfInputs'
  <2>1. \A p \in Policies : LowQuality(effect[p])' <=> LowQuality(effect[p])
    BY <1>1 DEF LowQuality
  <2>2. governed' = [p \in Policies |-> IF effect'[p].decisions = 0 THEN NoRow ELSE GovernedRow(effect'[p])]
    BY <1>1 DEF PolicyInv, ReportsAreOfInputs
  <2> QED
    BY <1>1, <1>2, <2>1, <2>2, EvaluationStays DEF PolicyInv, ReportsAreOfInputs
<1> QED
  BY <1>1, <1>3, <1>4, EvaluationStays DEF PolicyInv

LEMMA PolicyStep == PolicyInv /\ [PolicyNext]_policyVars => PolicyInv'
<1> SUFFICES ASSUME PolicyInv, [PolicyNext]_policyVars PROVE PolicyInv'
  OBVIOUS
<1>1. CASE \E s \in ScanStages : RowsArrive(s)
  BY <1>1, RowsInvariant
<1>2. CASE \E slice \in Slices, used \in SUBSET Policies : Decide(slice[1], slice[2], used)
  BY <1>2, DecideInvariant
<1>3. CASE Score
  BY <1>3, ScoreInvariant
<1>4. CASE RunCompletes
  BY <1>4, CompletesInvariant
<1>5. CASE Govern
  BY <1>5, GovernInvariant
<1>6. CASE Guard
  BY <1>6, GuardInvariant
<1>7. CASE UNCHANGED policyVars
  <2>1. UNCHANGED <<scanned, attributed, effect, governed, guardrail, chain>>
    BY <1>7 DEF policyVars
  <2>2. PolicyTypeOK' /\ AttributionIsTrue'
    BY <2>1 DEF PolicyInv, PolicyTypeOK, AttributionIsTrue
  <2>3. \A p \in Policies, k \in CountKeys : Outcomes(k, Used(p))' = Outcomes(k, Used(p))
    BY <2>1 DEF Used, Outcomes
  <2>4. ReportsAreOfInputs'
    BY <2>1, <2>3 DEF PolicyInv, ReportsAreOfInputs
  <2> QED
    BY <2>2, <2>4 DEF PolicyInv
<1> QED
  BY <1>1, <1>2, <1>3, <1>4, <1>5, <1>6, <1>7 DEF PolicyNext

LEMMA ScannedIsCount ==
  ASSUME PolicyInv, NEW k \in CountKeys
  PROVE  Scanned(k) = Cardinality(Weights([s \in ScanStages |-> scanned[s][k]], ScanStages))
<1> DEFINE S == ScanStages
           f == [s \in S |-> scanned[s][k]]
           Fold(g) == g = [s \in SUBSET S |-> IF s = {} THEN 0
                                              ELSE scanned[AnyOf(s)][k] + g[s \ {AnyOf(s)}]]
           h == CHOOSE g : Fold(g)
<1>1. f \in [S -> Nat] /\ IsFiniteSet(S)
  BY PolicyMemoryConstants, CountsHave DEF PolicyInv, PolicyTypeOK
<1>2. ASSUME NEW g PROVE Fold(g) <=> Partial(g, f, S)
  <2>1. \A s \in SUBSET S : s # {} => f[AnyOf(s)] = scanned[AnyOf(s)][k]
    BY AnyIsOneOf
  <2>2. \A s \in SUBSET S :
          (IF s = {} THEN 0 ELSE scanned[AnyOf(s)][k] + g[s \ {AnyOf(s)}])
            = (IF s = {} THEN 0 ELSE f[AnyOf(s)] + g[s \ {AnyOf(s)}])
    BY <2>1
  <2> QED
    BY <2>2 DEF Partial
<1>3. Fold(h)
  BY <1>1, <1>2, PartialSumsExist
<1>4. Scanned(k) = h[S]
  BY DEF Scanned, MapThenSumSet, MapThenFoldSet, AnyOf
<1> HIDE DEF h, f
<1> QED
  BY <1>1, <1>2, <1>3, <1>4, PartialSumsCount DEF f

LEMMA UsedIsFinite ==
  ASSUME PolicyInv, NEW p \in Policies, NEW k \in CountKeys
  PROVE  /\ IsFiniteSet(Used(p)) /\ Used(p) \subseteq attributed /\ Used(p) \subseteq Records
         /\ [r \in Used(p) |-> r.outcome[k]] \in [Used(p) -> Nat]
         /\ [s \in ScanStages |-> scanned[s][k]] \in [ScanStages -> Nat]
         /\ IsFiniteSet(ScanStages)
<1>1. Used(p) \in SUBSET attributed
  BY DEF Used
<1>2. IsFiniteSet(Used(p)) /\ Used(p) \subseteq Records
  BY <1>1, FS_Subset DEF PolicyInv, AttributionIsTrue
<1>3. \A r \in Used(p) : r.outcome[k] \in Nat
  BY <1>2, CountsHave DEF Records
<1>4. \A s \in ScanStages : scanned[s][k] \in Nat
  BY CountsHave DEF PolicyInv, PolicyTypeOK
<1> QED
  BY <1>1, <1>2, <1>3, <1>4, PolicyMemoryConstants

\* What a policy is credited with, some stage has filed; all of it, if each stage was
\* scanned in one slice.
LEMMA CreditIsScanned ==
  ASSUME PolicyInv, NEW p \in Policies, NEW k \in CountKeys
  PROVE  /\ Outcomes(k, Used(p)) >= 1 => Scanned(k) >= 1
         /\ CountedOnce => Outcomes(k, Used(p)) <= Scanned(k)
         /\ Scanned(k) \in Nat
<1> DEFINE R == Used(p)
           f == [r \in R |-> r.outcome[k]]
           S == ScanStages
           g == [s \in S |-> scanned[s][k]]
<1>1. IsFiniteSet(R) /\ R \subseteq attributed /\ R \subseteq Records
      /\ f \in [R -> Nat] /\ g \in [S -> Nat] /\ IsFiniteSet(S)
  BY UsedIsFinite
<1>2. \A r \in R : r.stage \in S /\ f[r] <= g[r.stage]
  BY <1>1 DEF Records, PolicyInv, AttributionIsTrue
<1>3. Outcomes(k, R) = Cardinality(Weights(f, R)) /\ Scanned(k) = Cardinality(Weights(g, S))
  BY ScannedIsCount DEF Outcomes
<1>4. Cardinality(Weights(g, S)) \in Nat /\ IsFiniteSet(Weights(g, S))
  BY <1>1, WeightsFinite
<1>5. ASSUME Cardinality(Weights(f, R)) >= 1 PROVE Cardinality(Weights(g, S)) >= 1
  <2> HIDE DEF f, g, R, S
  <2>1. PICK r \in R : f[r] >= 1
    BY <1>1, <1>5, SomeWeight
  <2>2. r.stage \in S /\ g[r.stage] >= 1
    BY <1>1, <1>2, <2>1
  <2>3. <<r.stage, 1>> \in Weights(g, S)
    BY <1>1, <2>2 DEF Weights
  <2>4. Cardinality(Weights(g, S)) # 0
    BY <1>4, <2>3, FS_EmptySet
  <2> QED
    BY <1>4, <2>4
<1>6. ASSUME CountedOnce PROVE Cardinality(Weights(f, R)) <= Cardinality(Weights(g, S))
  <2> DEFINE h == [r \in R |-> r.stage]
  <2>1. h \in [R -> S] /\ \A r \in R : f[r] <= g[h[r]]
    BY <1>2
  <2>2. \A q, r \in R : h[q] = h[r] => q = r
    BY <1>1, <1>6 DEF CountedOnce, PolicyInv, AttributionIsTrue
  <2> HIDE DEF f, g, h, R, S
  <2> QED
    BY <1>1, <2>1, <2>2, PartnersWeigh
<1> HIDE DEF f, g, R, S
<1>7. (Outcomes(k, R) >= 1 => Scanned(k) >= 1) /\ (CountedOnce => Outcomes(k, R) <= Scanned(k))
  BY <1>3, <1>5, <1>6
<1> QED
  BY <1>3, <1>4, <1>7 DEF R

LEMMA PromotedIsGood ==
  ASSUME NEW e \in Counts, memory_action(e) = "promote"
  PROVE  e.ready >= 1 /\ e.spent >= 20 /\ e.low * 100 <= e.spent * 75 /\ ~Quarantined(e)
<1>1. ~Quarantined(e) /\ CanPromote(Assessed(e))
  BY DEF memory_action
<1>2. Assessed(e) >= 3
  BY <1>1, LevelsAre DEF CanPromote
<1> QED
  BY <1>1, <1>2, LevelsAre

LEMMA PolicyInvVerdicts == PolicyInv => VerdictsAreEarned
<1> SUFFICES ASSUME PolicyInv, NEW p \in Policies
             PROVE  /\ governed[p].action = "promote" =>
                         /\ <<"low_quality_policy", p>> \notin guardrail
                         /\ Scanned("ready") >= 1
                         /\ CountedOnce => Scanned("spent") >= 20
                    /\ chain = "done" /\ effect[p].decisions > 0 =>
                         \A k \in {1, 20} :
                           LET more == [decisions |-> 1, spent |-> k, ready |-> k, near |-> k, low |-> 0]
                               better == Sum(effect[p], more)
                           IN  /\ Assessed(better) >= Assessed(effect[p])
                               /\ governed[p].action = "promote" => memory_action(better) = "promote"
  BY DEF VerdictsAreEarned
<1> DEFINE e == effect[p]
<1>1. e \in Counts
  BY DEF PolicyInv, PolicyTypeOK
<1>2. ASSUME governed[p].action = "promote"
      PROVE  chain \in {"guard", "done"} /\ memory_action(e) = "promote" /\ chain # "run"
  <2>1. NoRow.action # "promote"
    BY DEF NoRow
  <2>2. chain \in {"guard", "done"}
    BY <1>2, <2>1 DEF PolicyInv, ReportsAreOfInputs, PolicyTypeOK
  <2>3. governed[p] = GovernedRow(e)
    BY <1>2, <2>1, <2>2 DEF PolicyInv, ReportsAreOfInputs
  <2> QED
    BY <1>2, <2>2, <2>3 DEF GovernedRow
<1>3. ASSUME governed[p].action = "promote"
      PROVE  /\ <<"low_quality_policy", p>> \notin guardrail
             /\ Scanned("ready") >= 1
             /\ CountedOnce => Scanned("spent") >= 20
  <2>1. e.ready >= 1 /\ e.spent >= 20 /\ e.low * 100 <= e.spent * 75
    BY <1>1, <1>2, <1>3, PromotedIsGood
  <2>2. ~LowQuality(e)
    BY <1>1, <2>1, CountsFields DEF LowQuality
  <2>3. <<"low_quality_policy", p>> \notin guardrail
    BY <2>2 DEF PolicyInv, ReportsAreOfInputs
  <2>4. {"ready", "spent"} \subseteq CountKeys \ {"decisions"}
    BY DEF CountKeys
  <2>5. e.ready = Outcomes("ready", Used(p)) /\ e.spent = Outcomes("spent", Used(p))
    BY <1>2, <1>3, <2>4 DEF PolicyInv, ReportsAreOfInputs
  <2>6. Scanned("ready") >= 1
    BY <2>1, <2>4, <2>5, CreditIsScanned
  <2>7. ASSUME CountedOnce PROVE Scanned("spent") >= 20
    <3>1. e.spent <= Scanned("spent") /\ Scanned("spent") \in Nat /\ e.spent \in Nat
      BY <1>1, <2>4, <2>5, <2>7, CreditIsScanned, CountsFields
    <3> QED
      BY <2>1, <3>1
  <2> QED
    BY <2>3, <2>6, <2>7
<1>4. ASSUME e.decisions > 0, NEW k \in {1, 20}
      PROVE  LET more == [decisions |-> 1, spent |-> k, ready |-> k, near |-> k, low |-> 0]
                 better == Sum(e, more)
             IN  /\ Assessed(better) >= Assessed(e)
                 /\ governed[p].action = "promote" => memory_action(better) = "promote"
  <2> DEFINE more == [decisions |-> 1, spent |-> k, ready |-> k, near |-> k, low |-> 0]
             better == Sum(e, more)
  <2>1. more \in Counts
    BY DEF Counts
  <2>2. better \in Counts /\ \A j \in CountKeys : better[j] = e[j] + more[j]
    BY <1>1, <2>1, SumIsCounts
  <2>3. /\ better.decisions = e.decisions + 1 /\ better.spent = e.spent + k /\ better.ready = e.ready + k
        /\ better.near = e.near + k /\ better.low = e.low + 0
    BY <2>2 DEF CountKeys
  <2> HIDE DEF better, e
  <2>4. Assessed(better) >= Assessed(e)
    BY <1>1, <1>4, <2>2, <2>3, LevelsGrow, CountsFields
  <2>5. ASSUME governed[p].action = "promote" PROVE memory_action(better) = "promote"
    <3>1. memory_action(e) = "promote"
      BY <1>2, <2>5
    <3>2. CanPromote(Assessed(e))
      BY <3>1 DEF memory_action
    <3>3. CanPromote(Assessed(better))
      BY <1>1, <2>2, <2>4, <3>2, LevelsAre DEF CanPromote
    <3>4. ~Quarantined(better)
      BY <1>1, <2>3, CountsFields DEF Quarantined
    <3> QED
      BY <3>3, <3>4 DEF memory_action
  <2> QED
    BY <2>4, <2>5 DEF better
<1> QED
  BY <1>3, <1>4

\* policy_effectiveness.py, report.py: the counts of what was scanned and what is
\* attributed, and the verdicts on them, keep their types.
THEOREM PolicyTypeCorrect == PolicySpec => []PolicyTypeOK
<1>1. PolicyInv => PolicyTypeOK
  BY DEF PolicyInv
<1> QED
  BY <1>1, PolicyInitInvariant, PolicyStep, PTL DEF PolicySpec

\* report.py, policy.py, daemon.py: a policy that memory promotes is not called low
\* in quality by the guardrail, has a submit-ready simulation, and twenty in all
\* if none counts twice; and submit-ready ones never make a verdict worse.
THEOREM VerdictsEarned == PolicySpec => []VerdictsAreEarned
BY PolicyInitInvariant, PolicyStep, PolicyInvVerdicts, PTL DEF PolicySpec
-----------------------------------------------------------------------------
(*****************************************************************************)
(* The types of all parts, as the run checks them side by side.  The lock's  *)
(* need no more than the attempts that are left, whoever acquires at the     *)
(* same time, and a run of live checks makes no more than there are alphas,  *)
(* because every check that is made takes one from those to come.            *)
(*****************************************************************************)
LockTypes == TypeOK /\ AttemptLeft

LEMMA LockTypesStart == Init => LockTypes
BY InitInvariant DEF IndInv, LockTypes

LEMMA LockTypesStay == LockTypes /\ [Next]_vars => LockTypes'
<1> SUFFICES ASSUME LockTypes, [Next]_vars PROVE LockTypes'
  OBVIOUS
<1> USE ConstantsAssumption DEF ConstantsAssumption, Goto, Acquiring, Holding, LockTypes
<1>1. CASE UNCHANGED vars
  BY <1>1 DEF vars, TypeOK, AttemptLeft
<1>2. ASSUME NEW p \in Processes, Launch(p) PROVE LockTypes'
  BY <1>2 DEF Launch, TypeOK, AttemptLeft
<1>3. ASSUME NEW p \in Processes, CreateFile(p) PROVE LockTypes'
  <2>1. attempts[p] + 1 \in 0..MaxAttempts
    BY <1>3 DEF CreateFile, TypeOK, AttemptLeft
  <2> QED
    BY <1>3, <2>1 DEF CreateFile, TypeOK, AttemptLeft
<1>4. ASSUME NEW p \in Processes, FileExists(p) PROVE LockTypes'
  <2>1. attempts[p] + 1 \in 0..MaxAttempts
    BY <1>4 DEF FileExists, TypeOK, AttemptLeft
  <2> QED
    BY <1>4, <2>1 DEF FileExists, TypeOK, AttemptLeft
<1>5. ASSUME NEW p \in Processes, ReadOwner(p) PROVE LockTypes'
  <2>1. seen' \in [Processes -> Processes \cup {NoProcess}]
    BY <1>5 DEF ReadOwner, TypeOK
  <2> QED
    BY <1>5, <2>1 DEF ReadOwner, TypeOK, AttemptLeft
<1>6. ASSUME NEW p \in Processes,
             Refuse(p) \/ TakeForStale(p) \/ WriteOwner(p) \/ ExitReads(p) \/ ExitUnlinks(p) \/ Die(p)
      PROVE  LockTypes'
  BY <1>6 DEF Refuse, TakeForStale, WriteOwner, ExitReads, ExitUnlinks, Die, TypeOK, AttemptLeft
<1>7. ASSUME NEW p \in Processes, Unlink(p) PROVE LockTypes'
  BY <1>7 DEF Unlink, AttemptsLeft, TypeOK, AttemptLeft
<1> QED
  BY <1>1, <1>2, <1>3, <1>4, <1>5, <1>6, <1>7 DEF Next, Step

\* The memory: its files name rows in states, and an edge has its node.
MemoryTypes == MemoryTypeOK /\ MemoryInv

LEMMA MemoryTypesStart == MemoryInit => MemoryTypes
<1> SUFFICES ASSUME MemoryInit PROVE MemoryTypes
  OBVIOUS
<1>1. 0 \in 0..CopyCap /\ 0 \in 0..MaxDeaths
  BY RunMemoryConstants
<1>2. MemoryTypeOK
  BY <1>1 DEF MemoryInit, MemoryTypeOK, Off, States
<1> QED
  BY <1>2, MemoryStarts DEF MemoryTypes

LEMMA MemoryTypesStay == MemoryTypes /\ [MemoryNext]_memoryVars => MemoryTypes'
<1> SUFFICES ASSUME MemoryTypes, [MemoryNext]_memoryVars PROVE MemoryTypes'
  OBVIOUS
<1>0. MemoryTypeOK /\ MemoryInv /\ MemoryInv'
  BY MemorySteps DEF MemoryTypes
<1> SUFFICES MemoryTypeOK'
  BY <1>0 DEF MemoryTypes
<1>1. \A w \in Writers : sync'[w].at \in {"off", "run", "candidates", "edges", "reports"}
  BY <1>0 DEF MemoryInv, Work
<1>12. Death => deaths' \in 0..MaxDeaths
  BY <1>0, RunMemoryConstants DEF MemoryTypeOK, Death
<1> USE DEF store, memoryFiles
<1>2. ASSUME NEW r \in Rows, RowIsWritten(r) PROVE MemoryTypeOK'
  BY <1>0, <1>1, <1>2 DEF RowIsWritten, MemoryTypeOK
<1>3. CASE DiagnosisStage
  <2>1. \A n \in Nat : Capped(n) \in 0..CopyCap
    BY RunMemoryConstants DEF Capped
  <2>2. LoadedRows \in [Rows \X States -> 0..CopyCap]
    <3> SUFFICES ASSUME NEW rs \in Rows \X States
                 PROVE  Capped(diagnosed[rs] + (IF results[rs[1]] = rs[2] THEN 1 ELSE 0)) \in 0..CopyCap
      BY DEF LoadedRows
    <3>1. diagnosed[rs] \in Nat
      BY <1>0 DEF MemoryTypeOK
    <3>2. diagnosed[rs] + (IF results[rs[1]] = rs[2] THEN 1 ELSE 0) \in Nat
      BY <3>1
    <3> QED
      BY <2>1, <3>2
  <2> QED
    BY <1>0, <1>1, <1>3, <2>2 DEF DiagnosisStage, MemoryTypeOK
<1>4. CASE TriageStage
  <2>1. Deduped \subseteq Rows \X States
    BY DEF Deduped
  <2> QED
    BY <1>0, <1>1, <1>4, <2>1 DEF TriageStage, MemoryTypeOK
<1>5. CASE EvaluationStage
  BY <1>0, <1>1, <1>5 DEF EvaluationStage, Evaluated, MemoryTypeOK
<1>6. ASSUME NEW w \in Writers, SyncStep(w) PROVE MemoryTypeOK'
  <2>1. CASE SyncBegins(w)
    BY <1>0, <1>1, <2>1 DEF SyncBegins, MemoryTypeOK
  <2>2. CASE UpsertsRun(w)
    BY <1>0, <1>1, <2>2 DEF UpsertsRun, MemoryTypeOK
  <2>3. CASE UpsertsCandidates(w)
    BY <1>0, <1>1, <2>3 DEF UpsertsCandidates, MemoryTypeOK
  <2>4. CASE UpsertsEdges(w)
    BY <1>0, <1>1, <1>6, <2>4 DEF UpsertsEdges, MemoryTypeOK, MemoryInv
  <2>5. CASE Reports(w)
    BY <1>0, <1>1, <2>5 DEF Reports, MemoryTypeOK
  <2> QED
    BY <1>6, <2>1, <2>2, <2>3, <2>4, <2>5 DEF SyncStep
<1>7. CASE MemoryFails
  BY <1>0, <1>1, <1>12, <1>7 DEF MemoryFails, MemoryTypeOK
<1>8. CASE EngineDies
  BY <1>0, <1>1, <1>12, <1>8 DEF EngineDies, MemoryTypeOK
<1>9. CASE WorkerEnds
  BY <1>0, <1>1, <1>12, <1>9 DEF WorkerEnds, MemoryTypeOK
<1>10. CASE UNCHANGED memoryVars
  BY <1>0, <1>1, <1>10 DEF memoryVars, MemoryTypeOK
<1> QED
  BY <1>2, <1>3, <1>4, <1>5, <1>6, <1>7, <1>8, <1>9, <1>10 DEF MemoryNext, LoopStep, Writers

\* The verdict's bucket is one of those that there are.
LEMMA TriageIsTyped == TriageInv => TriageTypeOK
<1>1. verdict = route_diagnosed_row(row, known) =>
        verdict.bucket \in {"already_submitted", "direct_submit", "optimize_next", "low_value"}
  BY DEF route_diagnosed_row, Low, Optimize, NextIfNear
<1> QED
  BY <1>1 DEF TriageInv, TriageTypeOK, Undecided

\* A run of live checks: each check that is made was of an alpha that is no more
\* to come.
AtHand == at \in {"decide", "check"}

LiveTypes ==
  /\ at \in {"off", "next", "decide", "check"}
  /\ flags \in Options \cup {{}} /\ todo \subseteq MetricReady
  /\ errors \in 0..MaxErrors /\ checked \in Nat
  /\ item = [field \in {"alpha", "snapshot", "tries", "throttled"} |-> item[field]]
  /\ item.alpha \in MetricReady \cup {"none"}
  /\ checked + Cardinality(todo) + (IF AtHand THEN 1 ELSE 0) <= Cardinality(MetricReady)

LEMMA AlphasAre ==
  /\ IsFiniteSet(MetricReady) /\ Cardinality(MetricReady) \in Nat
  /\ \A S \in SUBSET MetricReady : Cardinality(S) \in Nat
  /\ \A S \in SUBSET MetricReady : \A a \in S : Cardinality(S \ {a}) = Cardinality(S) - 1
<1>1. IsFiniteSet(MetricReady)
  BY LiveCheckConstants
<1>2. ASSUME NEW S \in SUBSET MetricReady PROVE IsFiniteSet(S) /\ Cardinality(S) \in Nat
  BY <1>1, FS_Subset, FS_CardinalityType
<1>3. ASSUME NEW S \in SUBSET MetricReady, NEW a \in S
      PROVE  Cardinality(S \ {a}) = Cardinality(S) - 1
  BY <1>2, FS_RemoveElement
<1> QED
  BY <1>1, <1>2, <1>3

LEMMA LiveTypesStart == LiveInit => LiveTypes
<1> SUFFICES ASSUME LiveInit PROVE LiveTypes
  OBVIOUS
<1>1. Cardinality(todo) = 0 /\ Cardinality(MetricReady) \in Nat /\ 0 \in 0..MaxErrors
  BY FS_EmptySet, AlphasAre, LiveCheckConstants DEF LiveInit
<1> QED
  BY <1>1 DEF LiveInit, LiveTypes, NoItem, AtHand

LEMMA LiveTypesStay == LiveTypes /\ [LiveNext]_liveVars => LiveTypes'
<1> SUFFICES ASSUME LiveTypes, [LiveNext]_liveVars PROVE LiveTypes'
  OBVIOUS
<1> USE DEF runVars, resultFiles
<1>1. Cardinality(todo) \in Nat /\ Cardinality(MetricReady) \in Nat
  BY AlphasAre DEF LiveTypes
<1>2. Error => errors' \in 0..MaxErrors
  BY LiveCheckConstants DEF LiveTypes, Error
<1>3. NoItem = [field \in {"alpha", "snapshot", "tries", "throttled"} |-> NoItem[field]] /\ NoItem.alpha = "none"
  BY DEF NoItem
<1>4. CASE Begin
  BY <1>1, <1>4 DEF Begin, LiveTypes, AtHand
<1>5. ASSUME NEW a \in MetricReady, Skip(a) \/ Take(a) \/ DetailFails(a) PROVE LiveTypes'
  <2>1. a \in todo /\ todo' = todo \ {a} /\ at = "next"
    BY <1>5 DEF Skip, Take, DetailFails
  <2>2. Cardinality(todo') = Cardinality(todo) - 1 /\ todo' \in SUBSET MetricReady
    BY <2>1, AlphasAre DEF LiveTypes
  <2>3. /\ item' = [field \in {"alpha", "snapshot", "tries", "throttled"} |-> item'[field]]
        /\ item'.alpha \in MetricReady \cup {"none"}
    BY <1>3, <1>5 DEF Skip, Take, DetailFails, Save, LiveTypes
  <2> QED
    BY <1>1, <1>2, <1>5, <2>1, <2>2, <2>3 DEF Skip, Take, DetailFails, Save, LiveTypes, AtHand
<1>6. CASE RecordStored \/ Defer
  BY <1>1, <1>3, <1>6 DEF RecordStored, Defer, Save, LiveTypes, AtHand
<1>7. CASE AskForCheck
  BY <1>1, <1>7 DEF AskForCheck, LiveTypes, AtHand
<1>8. CASE CheckAnswers
  BY <1>1, <1>3, <1>8 DEF CheckAnswers, Save, LiveTypes, AtHand
<1>9. CASE CheckIsEmpty
  BY <1>1, <1>3, <1>9 DEF CheckIsEmpty, Save, LiveTypes, AtHand
<1>10. CASE CheckFails
  <2>1. errors' \in 0..MaxErrors /\ at = "check" /\ UNCHANGED <<flags, todo, checked>>
    BY <1>2, <1>10 DEF CheckFails
  <2>2. CASE item' = [item EXCEPT !.throttled = TRUE, !.tries = 1] /\ UNCHANGED at
    <3>1. /\ item' = [field \in {"alpha", "snapshot", "tries", "throttled"} |-> item'[field]]
          /\ item'.alpha = item.alpha
      BY <2>2 DEF LiveTypes
    <3> QED
      BY <2>1, <2>2, <3>1 DEF LiveTypes, AtHand
  <2>3. CASE Save(item.alpha, item.snapshot)
    BY <1>1, <1>3, <2>1, <2>3 DEF Save, LiveTypes, AtHand
  <2> QED
    BY <1>10, <2>2, <2>3 DEF CheckFails
<1>11. CASE End
  BY <1>1, <1>11 DEF End, LiveTypes, AtHand
<1>12. CASE RunDies
  BY <1>1, <1>2, <1>3, <1>12 DEF RunDies, LiveTypes, AtHand
<1>13. ASSUME NEW a \in MetricReady, PlatformComputes(a) PROVE LiveTypes'
  BY <1>13 DEF PlatformComputes, LiveTypes, AtHand
<1>14. CASE UNCHANGED liveVars
  BY <1>14 DEF liveVars, LiveTypes, AtHand
<1> QED
  BY <1>4, <1>5, <1>6, <1>7, <1>8, <1>9, <1>10, <1>11, <1>12, <1>13, <1>14 DEF LiveNext, RunStep

LEMMA LiveIsTyped == LiveTypes => LiveTypeOK
<1> SUFFICES ASSUME LiveTypes PROVE LiveTypeOK
  OBVIOUS
<1>1. Cardinality(todo) \in Nat /\ Cardinality(MetricReady) \in Nat
  BY AlphasAre DEF LiveTypes
<1>2. checked \in 0..Cardinality(MetricReady)
  BY <1>1 DEF LiveTypes
<1> QED
  BY <1>2 DEF LiveTypes, LiveTypeOK

\* A step of the run is a step of each part, or leaves the part alone.
LEMMA PartsStep ==
  [MCNext]_MCVars =>
    /\ [Next]_vars /\ [MemoryNext]_memoryVars /\ [TriageNext]_triageVars /\ [LiveNext]_liveVars
    /\ [ListingNext]_listingVars /\ [PolicyNext]_policyVars /\ [ChoiceNext]_choiceVars
BY DEF MCNext, MCVars

\* The types that the run checks, for any number of workers, rows, alphas, pages,
\* candidates and faults.
THEOREM DecisionsTypesCorrect == MCSpec => []DecisionsTypeOK
<1> DEFINE PartsInv == /\ LockTypes /\ MemoryTypes /\ TriageInv /\ LiveTypes
                       /\ ListingInv /\ PolicyInv /\ ChoiceInv
<1>1. MCInit => PartsInv
  BY LockTypesStart, MemoryTypesStart, TriageStarts, LiveTypesStart, ListingInitInvariant,
     PolicyInitInvariant, ChoiceStarts DEF MCInit
<1>2. ASSUME PartsInv, [MCNext]_MCVars PROVE PartsInv'
  BY <1>2, PartsStep, LockTypesStay, MemoryTypesStay, TriageSteps, LiveTypesStay, ListingStep,
     PolicyStep, ChoiceSteps
<1>3. PartsInv => DecisionsTypeOK
  BY TriageIsTyped, LiveIsTyped, ChoiceIsTyped
  DEF DecisionsTypeOK, LockTypes, MemoryTypes, ListingInv, PolicyInv
<1>4. PartsInv /\ [MCNext]_MCVars => PartsInv'
  BY <1>2
<1>5. MCInit /\ [][MCNext]_MCVars => []DecisionsTypeOK
  BY <1>1, <1>3, <1>4, PTL
<1> QED
  BY <1>5 DEF MCSpec
=============================================================================
