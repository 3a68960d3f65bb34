-------------------------- MODULE SubmissionProofs --------------------------
(***************************************************************************)
(* Theorems about the submission worker and about the intake of its jobs,  *)
(* for every value of their constants.                                     *)
(***************************************************************************)
EXTENDS MCSubmission, FiniteSetTheorems, TLAPS

-----------------------------------------------------------------------------
(***************************************************************************)
(* Theorems about SubmissionWorker for every value of its constants.       *)
(*                                                                         *)
(* The invariant has four parts.  Control says what each control state of  *)
(* the worker knows about the operation at hand.  OneOpenOperation says    *)
(* that the journal never holds two live operations for one alpha, that    *)
(* every POST in flight or committed belongs to a live one, and that a job *)
(* names an operation only if it is live.  FilesAgree and Confirmed relate *)
(* the three copies of the jobs (file, engine, worker) to the journal and  *)
(* to the platform.                                                        *)
(***************************************************************************)
Refusals == {"throttled", "unauthorized", "rejected", "already_submitted"}

NoOpenPost(a) ==
  \A i \in DOMAIN journal : journal[i].alpha = a => journal[i].outcome \notin Ambiguous

\* What the worker's control state knows of the operation at hand.
Control ==
  /\ wpc \in InJob => cur \in Alphas /\ jobs[cur].status \notin FinalStatuses
  /\ wpc \in {"reconcile", "send", "await"} =>
       op \in DOMAIN journal /\ journal[op].alpha = cur
  /\ wpc = "reconcile" => journal[op].outcome \in Ambiguous
  /\ wpc \in {"send", "await"} => journal[op].outcome = "started"
  /\ wpc \in {"send", "await"} =>
       op \notin {stateFile[cur].op, engineJobs[cur].op, jobs[cur].op}
  /\ wpc = "send" => op \notin wire \cup committed
  /\ wpc \in {"live_check", "post"} => LiveOperations(cur) = {}
  /\ wpc = "confirm" => NoOpenPost(cur)
  /\ reply # "none" => wpc = "await"
  /\ reply \in Refusals => op \notin wire \cup committed

\* An open operation can be observed at least once more.
AttemptsLeft ==
  \A i \in DOMAIN journal :
    journal[i].outcome \in Ambiguous => journal[i].attempts < MaxReconcile

NamesLiveOperation(file) ==
  \A a \in Alphas : file[a].op # 0 => file[a].op \in LiveOperations(a)

OneOpenOperation ==
  /\ \A a \in Alphas : \A i, j \in LiveOperations(a) : i = j
  /\ \A i \in wire \cup committed : i \in LiveOperations(journal[i].alpha)
  /\ wire \cap committed = {}
  /\ NamesLiveOperation(stateFile)
  /\ NamesLiveOperation(engineJobs)
  /\ NamesLiveOperation(jobs)

\* A job rejected in one copy of the file is rejected in the copies made of it.
FilesAgree ==
  \A a \in Alphas :
    /\ engineJobs[a].status = "rejected" => stateFile[a].status = "rejected"
    /\ stateFile[a].status = "rejected" =>
         wpc \in {"down", "idle"} \/ jobs[a].status = "rejected"
    /\ "rejected" \in {stateFile[a].status, jobs[a].status} => NoOpenPost(a)

Confirmed ==
  /\ wpc = "credit" => platform[cur] = "submitted"
  /\ \A a \in Alphas :
       "submitted_confirmed" \in {stateFile[a].status, engineJobs[a].status, jobs[a].status}
         => platform[a] = "submitted" /\ a \in credited

IndInv ==
  /\ TypeOK
  /\ AttemptsLeft
  /\ Control
  /\ OneOpenOperation
  /\ FilesAgree
  /\ Confirmed

USE ConstantsAssumption DEF fileVars, engineVars, workerVars, platformVars, vars

------------------------------------------------------------------------------
(* Records and rows.                                                       *)

Outcomes == LiveOutcomes \cup DeadOutcomes

\* Updating a job's status, retry status or operation gives a job.
LEMMA JobUpdates ==
  ASSUME NEW job \in Job, NEW status \in JobStatus
  PROVE  /\ [job EXCEPT !.status = status] \in Job
         /\ \A retry \in {"queued", "accepted_but_unconfirmed"} :
              [job EXCEPT !.status = status, !.retry = retry] \in Job
         /\ \A i \in Nat : [job EXCEPT !.op = i, !.status = status] \in Job
BY DEF Job

\* A job may name any operation of the journal.
LEMMA JobNames ==
  ASSUME NEW job \in Job, NEW i \in Nat
  PROVE  [job EXCEPT !.op = i] \in Job
BY DEF Job

\* Counting a confirmation attempt changes nothing but the counter.
LEMMA AttemptedJob ==
  ASSUME NEW job \in Job
  PROVE  /\ Attempted(job) \in Job
         /\ Attempted(job).op = job.op
         /\ Attempted(job).status = job.status
<1>1. Min(job.confirms + 1, MaxConfirm) \in 0..MaxConfirm
  BY DEF Min, Job
<1>2. QED BY <1>1 DEF Job, Attempted

\* The two jobs that enqueueing writes are jobs.
LEMMA JobConstants == NoJob \in Job /\ QueuedJob \in Job
BY DEF NoJob, QueuedJob, Job, JobStatus

\* Enqueueing turns a state file into a state file.
LEMMA EnqueueType ==
  ASSUME NEW file \in [Alphas -> Job]
  PROVE  EnqueueSubmissionJobs(file) \in [Alphas -> Job]
BY JobConstants DEF EnqueueSubmissionJobs

\* Enqueueing gives no job an operation and closes none.
LEMMA EnqueueKeeps ==
  ASSUME NEW file \in [Alphas -> Job], NEW a \in Alphas
  PROVE  LET job == EnqueueSubmissionJobs(file)[a]
         IN  /\ job.op = file[a].op
             /\ job.status \in FinalStatuses <=> file[a].status \in FinalStatuses
             /\ job.status \in FinalStatuses => job.status = file[a].status
BY DEF EnqueueSubmissionJobs, NoJob, QueuedJob, FinalStatuses

\* The journal is a finite sequence of rows, numbered from one.
LEMMA JournalRows ==
  ASSUME TypeOK
  PROVE  /\ Len(journal) \in Nat
         /\ DOMAIN journal = 1..Len(journal)
         /\ \A i \in DOMAIN journal : journal[i] \in Operation /\ i \in Nat /\ i # 0
BY DEF TypeOK

\* Only row i changes, and not its alpha.
RowRewritten(i) ==
  /\ DOMAIN journal' = DOMAIN journal
  /\ \A k \in DOMAIN journal : journal'[k].alpha = journal[k].alpha
  /\ \A k \in DOMAIN journal : k # i => journal'[k] = journal[k]

\* Replacing a row by one for the same alpha rewrites that row and no other.
LEMMA RowUpdate ==
  ASSUME NEW i \in DOMAIN journal, NEW r \in Operation, TypeOK,
         r.alpha = journal[i].alpha, journal' = [journal EXCEPT ![i] = r]
  PROVE  journal' \in Seq(Operation) /\ RowRewritten(i) /\ journal'[i] = r
<1>1. journal' \in Seq(Operation) BY DEF TypeOK
<1>2. RowRewritten(i) /\ journal'[i] = r BY JournalRows DEF RowRewritten
<1>3. QED BY <1>1, <1>2

\* finish rewrites the outcome of its own row only.
LEMMA FinishRewrites ==
  ASSUME TypeOK, NEW i \in DOMAIN journal, NEW outcome \in Outcomes,
         FinishOperation(i, outcome)
  PROVE  /\ journal' \in Seq(Operation) /\ RowRewritten(i)
         /\ journal'[i].outcome = outcome
         /\ journal'[i].attempts = journal[i].attempts
<1> DEFINE r == [journal[i] EXCEPT !.outcome = outcome]
<1>1. journal[i] \in Operation BY JournalRows
<1>2. /\ r \in Operation /\ r.alpha = journal[i].alpha
      /\ r.outcome = outcome /\ r.attempts = journal[i].attempts
  BY <1>1 DEF Operation, Outcomes
<1>3. journal' = [journal EXCEPT ![i] = r] BY DEF FinishOperation
<1> HIDE DEF r
<1>4. QED BY <1>2, <1>3, RowUpdate

\* A reconciliation attempt rewrites its own row; an outcome left open has an attempt left.
LEMMA AttemptRewrites ==
  ASSUME TypeOK, AttemptsLeft, NEW i \in DOMAIN journal, journal[i].outcome \in Ambiguous,
         RecordReconciliationAttempt(i)
  PROVE  /\ journal' \in Seq(Operation) /\ RowRewritten(i)
         /\ journal'[i].outcome = ReconciliationOutcome(journal[i].attempts + 1)
         /\ journal'[i].outcome \in Ambiguous => journal'[i].attempts < MaxReconcile
<1> DEFINE n == journal[i].attempts + 1
           r == [journal[i] EXCEPT !.attempts = n, !.outcome = ReconciliationOutcome(n),
                                   !.due = FALSE]
<1>1. journal[i] \in Operation /\ journal[i].attempts < MaxReconcile
  BY JournalRows DEF AttemptsLeft
<1>2. n \in 0..MaxReconcile
  BY <1>1 DEF Operation
<1>3. /\ ReconciliationOutcome(n) \in {"manual_review", "reconciliation_pending"}
      /\ ReconciliationOutcome(n) \in Ambiguous => n < MaxReconcile
  BY <1>2 DEF ReconciliationOutcome, Ambiguous
<1>4. /\ r \in Operation /\ r.alpha = journal[i].alpha
      /\ r.outcome = ReconciliationOutcome(n) /\ r.attempts = n
  BY <1>1, <1>2, <1>3 DEF Operation, LiveOutcomes, Ambiguous
<1>5. journal' = [journal EXCEPT ![i] = r] BY DEF RecordReconciliationAttempt
<1> HIDE DEF r
<1>6. QED BY <1>3, <1>4, <1>5, RowUpdate

\* An elapsed delay changes neither outcome nor attempts.
LEMMA TimeRewrites ==
  ASSUME TypeOK, NEW i \in DOMAIN journal, TimePasses(i)
  PROVE  /\ journal' \in Seq(Operation) /\ RowRewritten(i)
         /\ journal'[i].outcome = journal[i].outcome
         /\ journal'[i].attempts = journal[i].attempts
<1> DEFINE r == [journal[i] EXCEPT !.due = TRUE]
<1>1. journal[i] \in Operation BY JournalRows
<1>2. /\ r \in Operation /\ r.alpha = journal[i].alpha
      /\ r.outcome = journal[i].outcome /\ r.attempts = journal[i].attempts
  BY <1>1 DEF Operation
<1>3. journal' = [journal EXCEPT ![i] = r] BY DEF TimePasses
<1> HIDE DEF r
<1>4. QED BY <1>2, <1>3, RowUpdate

\* begin appends a started row and changes no other.
LEMMA BeginAppends ==
  ASSUME TypeOK, NEW a \in Alphas, BeginOperation(a)
  PROVE  LET n == Len(journal) + 1
         IN  /\ journal' \in Seq(Operation)
             /\ DOMAIN journal' = DOMAIN journal \cup {n} /\ n \notin DOMAIN journal
             /\ n \in Nat /\ n # 0
             /\ \A k \in DOMAIN journal : journal'[k] = journal[k]
             /\ journal'[n].alpha = a /\ journal'[n].outcome = "started"
             /\ journal'[n].attempts = 0
<1> DEFINE r == [alpha |-> a, outcome |-> "started", attempts |-> 0, due |-> TRUE]
<1>1. r \in Operation BY DEF Operation, LiveOutcomes, Ambiguous
<1>2. r.alpha = a /\ r.outcome = "started" /\ r.attempts = 0 OBVIOUS
<1>3. journal' = Append(journal, r) BY DEF BeginOperation
<1> HIDE DEF r
<1>4. journal \in Seq(Operation) BY DEF TypeOK
<1>5. QED BY <1>1, <1>2, <1>3, <1>4

\* Ending a job keeps the worker's variables well typed.
LEMMA EndJobType ==
  ASSUME TypeOK, cur \in Alphas, NEW job \in Job, EndJob(job)
  PROVE  /\ wpc' \in WorkerPc /\ jobs' \in [Alphas -> Job] /\ visited' \subseteq Alphas
         /\ cur' \in Alphas \cup {NoAlpha} /\ op' \in Nat
         /\ enabled' \in BOOLEAN /\ crashes' \in Nat
BY DEF TypeOK, EndJob, WorkerPc

\* A death leaves the worker's variables well typed.
LEMMA DiesType ==
  ASSUME TypeOK, WorkerDies
  PROVE  /\ wpc' \in WorkerPc /\ jobs' \in [Alphas -> Job] /\ visited' \subseteq Alphas
         /\ cur' \in Alphas \cup {NoAlpha} /\ op' \in Nat
         /\ enabled' \in BOOLEAN /\ crashes' \in Nat /\ reply' \in Replies
<1>1. jobs' \in [Alphas -> Job]
  <2>1. jobs' = [a \in Alphas |-> NoJob] BY DEF WorkerDies
  <2>2. QED BY <2>1, JobConstants
<1>2. enabled' \in BOOLEAN BY Zenon DEF WorkerDies
<1>3. QED BY <1>1, <1>2 DEF TypeOK, WorkerDies, WorkerPc, Replies

------------------------------------------------------------------------------
(* Type correctness.                                                       *)

\* Every step keeps the types; that counters stay in range needs AttemptsLeft and Control.
LEMMA StepType ==
  ASSUME TypeOK, AttemptsLeft, Control, Next
  PROVE  TypeOK'
<1> USE DEF TypeOK
<1>a. /\ wpc \in InJob => cur \in Alphas /\ jobs[cur] \in Job
      /\ wpc \in {"reconcile", "send", "await"} => op \in DOMAIN journal
  BY DEF Control
<1>1. CASE StartWorker
  BY <1>1 DEF StartWorker, WorkerPc
<1>2. CASE ReadState
  BY <1>2, EnqueueType DEF ReadState, WorkerPc
<1>3. CASE WriteEnqueued
  BY <1>3 DEF WriteEnqueued, WorkerPc
<1>4. CASE WriteState
  BY <1>4, JobConstants DEF WriteState, WorkerPc
<1>5. ASSUME NEW a \in Alphas, NEW o \in 0..Len(journal), ProcessJob(a, o)
      PROVE  TypeOK'
  <2>1. o \in Nat /\ JobPath(o, jobs[a]) \in WorkerPc
    BY JournalRows DEF JobPath, WorkerPc
  <2>2. jobs' \in [Alphas -> Job]
    <3>1. jobs' = [jobs EXCEPT ![a] = [jobs[a] EXCEPT !.op = o]]
      BY <1>5 DEF ProcessJob
    <3>2. QED BY <2>1, <3>1, JobNames
  <2>3. QED BY <1>5, <2>1, <2>2 DEF ProcessJob
<1>6. ASSUME NEW a \in Alphas, NEW o \in 0..Len(journal), ProcessManualReview(a, o)
      PROVE  TypeOK'
  <2>1. o \in Nat BY JournalRows
  <2>2. "manual_review_or_platform_lag" \in JobStatus BY DEF JobStatus, FinalStatuses
  <2>3. jobs' \in [Alphas -> Job]
    BY <1>6, <2>1, <2>2, JobUpdates DEF ProcessManualReview
  <2>4. QED BY <1>6, <2>3 DEF ProcessManualReview
<1>7. CASE ReconcileNotDue
  <2>1. [jobs[cur] EXCEPT !.status = "submission_reconciliation_pending"] \in Job
    BY <1>7, <1>a, JobUpdates DEF ReconcileNotDue, InJob, JobStatus
  <2>2. QED BY <1>7, <1>a, <2>1, EndJobType DEF ReconcileNotDue, InJob
<1>8. CASE ReconcilePositive
  <2>1. journal' \in Seq(Operation) /\ DOMAIN journal' = DOMAIN journal
    BY <1>8, <1>a, FinishRewrites
    DEF ReconcilePositive, Outcomes, LiveOutcomes, RowRewritten
  <2>2. QED BY <1>8, <2>1 DEF ReconcilePositive, Continue, WorkerPc
<1>9. CASE ReconcileNoEvidence
  <2>1. journal' \in Seq(Operation) /\ DOMAIN journal' = DOMAIN journal
    BY <1>9, <1>a, AttemptRewrites DEF Control, ReconcileNoEvidence, RowRewritten
  <2>2. PICK status \in JobStatus : EndJob([jobs[cur] EXCEPT !.status = status])
    BY <1>9 DEF ReconcileNoEvidence, JobStatus, FinalStatuses
  <2>3. [jobs[cur] EXCEPT !.status = status] \in Job
    BY <1>9, <1>a, <2>2, JobUpdates DEF ReconcileNoEvidence, InJob
  <2>4. QED BY <1>9, <1>a, <2>1, <2>2, <2>3, EndJobType DEF ReconcileNoEvidence, InJob
<1>10. CASE LiveCheckReady
  BY <1>10 DEF LiveCheckReady, Continue, WorkerPc
<1>11. CASE LiveCheckAlreadySubmitted
  BY <1>11 DEF LiveCheckAlreadySubmitted, Continue, WorkerPc
<1>12. ASSUME NEW status \in {"rejected", "waiting_for_checks"}, LiveCheckNotReady(status)
       PROVE  TypeOK'
  <2>1. [jobs[cur] EXCEPT !.status = status] \in Job
    BY <1>12, <1>a, JobUpdates DEF LiveCheckNotReady, InJob, JobStatus, FinalStatuses
  <2>2. QED BY <1>12, <1>a, <2>1, EndJobType DEF LiveCheckNotReady, InJob
<1>13. CASE BeginPost
  <2>1. BeginOperation(cur) /\ cur \in Alphas
    BY <1>13, <1>a DEF BeginPost, InJob
  <2>2. QED BY <1>13, <2>1, BeginAppends DEF BeginPost, Continue, WorkerPc
<1>14. CASE SendPost
  BY <1>14, <1>a DEF SendPost, Continue, WorkerPc
<1>15. CASE PostUncertain
  <2>1. journal' \in Seq(Operation) /\ DOMAIN journal' = DOMAIN journal
    BY <1>15, <1>a, FinishRewrites
    DEF PostUncertain, Outcomes, LiveOutcomes, Ambiguous, RowRewritten
  <2>2. jobs' \in [Alphas -> Job]
    <3>1. jobs' = [jobs EXCEPT ![cur] = [jobs[cur] EXCEPT !.op = op]]
      BY <1>15 DEF PostUncertain
    <3>2. QED BY <1>15, <1>a, <3>1, JobNames DEF PostUncertain, InJob
  <2>3. QED BY <1>15, <2>1, <2>2 DEF PostUncertain, Continue, WorkerPc, Replies
<1>16. CASE PostAccepted
  <2>1. journal' \in Seq(Operation) /\ DOMAIN journal' = DOMAIN journal
    BY <1>16, <1>a, FinishRewrites DEF PostAccepted, Outcomes, LiveOutcomes, RowRewritten
  <2>2. jobs' \in [Alphas -> Job]
    <3>1. jobs' = [jobs EXCEPT ![cur] = [jobs[cur] EXCEPT !.op = op]]
      BY <1>16 DEF PostAccepted
    <3>2. QED BY <1>16, <1>a, <3>1, JobNames DEF PostAccepted, InJob
  <2>3. QED BY <1>16, <2>1, <2>2 DEF PostAccepted, Continue, WorkerPc, Replies
<1>17. CASE PostThrottled
  <2>1. journal' \in Seq(Operation) /\ DOMAIN journal' = DOMAIN journal
    BY <1>17, <1>a, FinishRewrites DEF PostThrottled, Outcomes, DeadOutcomes, RowRewritten
  <2>2. [jobs[cur] EXCEPT !.status = "throttled_retry_later", !.retry = "queued"] \in Job
    BY <1>17, <1>a, JobUpdates DEF PostThrottled, InJob, JobStatus
  <2>3. QED BY <1>17, <1>a, <2>1, <2>2, EndJobType DEF PostThrottled, InJob, Replies
<1>18. CASE PostRejected
  <2>1. journal' \in Seq(Operation) /\ DOMAIN journal' = DOMAIN journal
    BY <1>18, <1>a, FinishRewrites DEF PostRejected, Outcomes, DeadOutcomes, RowRewritten
  <2>2. [jobs[cur] EXCEPT !.status = "rejected"] \in Job
    BY <1>18, <1>a, JobUpdates DEF PostRejected, InJob, JobStatus, FinalStatuses
  <2>3. QED BY <1>18, <1>a, <2>1, <2>2, EndJobType DEF PostRejected, InJob, Replies
<1>19. CASE ConfirmSubmitted
  <2>1. Attempted(jobs[cur]) \in Job
    BY <1>19, <1>a, AttemptedJob, JobUpdates DEF ConfirmSubmitted, InJob
  <2>2. jobs' = [jobs EXCEPT ![cur] = Attempted(jobs[cur])]
    BY <1>19 DEF ConfirmSubmitted
  <2>3. QED BY <1>19, <2>1, <2>2 DEF ConfirmSubmitted, Continue, WorkerPc
<1>20. CASE ConfirmThrottled
  <2>1. [Attempted(jobs[cur]) EXCEPT !.status = "throttled_retry_later",
                                     !.retry = "accepted_but_unconfirmed"] \in Job
    BY <1>20, <1>a, AttemptedJob, JobUpdates DEF ConfirmThrottled, InJob, JobStatus
  <2>2. QED BY <1>20, <1>a, <2>1, EndJobType DEF ConfirmThrottled, InJob
<1>21. CASE ConfirmCheckFailed
  <2>1. [Attempted(jobs[cur]) EXCEPT !.status = "rejected"] \in Job
    BY <1>21, <1>a, AttemptedJob, JobUpdates DEF ConfirmCheckFailed, InJob, JobStatus, FinalStatuses
  <2>2. QED BY <1>21, <1>a, <2>1, EndJobType DEF ConfirmCheckFailed, InJob
<1>22. ASSUME NEW aged \in BOOLEAN, ConfirmNoEvidence(aged)
       PROVE  TypeOK'
  <2>1. PICK status \in JobStatus : EndJob([Attempted(jobs[cur]) EXCEPT !.status = status])
    BY <1>22 DEF ConfirmNoEvidence, JobStatus, FinalStatuses
  <2>2. [Attempted(jobs[cur]) EXCEPT !.status = status] \in Job
    BY <1>22, <1>a, <2>1, AttemptedJob, JobUpdates DEF ConfirmNoEvidence, InJob
  <2>3. QED BY <1>22, <1>a, <2>1, <2>2, EndJobType DEF ConfirmNoEvidence, InJob
<1>23. CASE MarkSubmittedConfirmed
  <2>1. [jobs[cur] EXCEPT !.status = "submitted_confirmed"] \in Job
    BY <1>23, <1>a, JobUpdates DEF MarkSubmittedConfirmed, InJob, JobStatus, FinalStatuses
  <2>2. QED BY <1>23, <1>a, <2>1, EndJobType DEF MarkSubmittedConfirmed, InJob
<1>24. CASE Crash
  BY <1>24, DiesType DEF Crash
<1>25. CASE PostNotSent
  <2>1. journal' \in Seq(Operation) /\ DOMAIN journal' = DOMAIN journal
    BY <1>25, <1>a, FinishRewrites DEF PostNotSent, Outcomes, DeadOutcomes, RowRewritten
  <2>2. QED BY <1>25, <2>1, DiesType DEF PostNotSent
<1>26. ASSUME NEW rows \in SUBSET Alphas, WriteBacklog(rows)
       PROVE  TypeOK'
  BY <1>26 DEF WriteBacklog
<1>27. CASE EngineReadState
  BY <1>27, EnqueueType DEF EngineReadState
<1>28. CASE EngineWriteState
  BY <1>28, JobConstants DEF EngineWriteState
<1>29. ASSUME NEW i \in wire, PlatformCommits(i)
       PROVE  TypeOK'
  <2>1. journal[i].alpha \in Alphas BY JournalRows DEF Operation
  <2>2. reply' \in Replies BY <1>29 DEF PlatformCommits, Respond, Replies
  <2>3. platform' \in [Alphas -> {"unsubmitted", "committed", "submitted"}]
    BY <1>29, <2>1 DEF PlatformCommits
  <2>4. QED BY <1>29, <2>2, <2>3 DEF PlatformCommits
<1>30. ASSUME NEW i \in wire, PlatformRefuses(i)
       PROVE  TypeOK'
  <2>1. reply' \in Replies BY <1>30 DEF PlatformRefuses, Respond
  <2>2. QED BY <1>30, <2>1 DEF PlatformRefuses
<1>31. ASSUME NEW a \in Alphas, NEW verdict \in {"submitted", "unsubmitted"},
              PlatformSettles(a, verdict)
       PROVE  TypeOK'
  BY <1>31 DEF PlatformSettles
<1>32. ASSUME NEW a \in Elsewhere, SubmittedElsewhere(a)
       PROVE  TypeOK'
  BY <1>32 DEF SubmittedElsewhere
<1>33. ASSUME NEW i \in DOMAIN journal, TimePasses(i)
       PROVE  TypeOK'
  <2>1. journal' \in Seq(Operation) /\ DOMAIN journal' = DOMAIN journal
    BY <1>33, TimeRewrites DEF RowRewritten
  <2>2. QED BY <1>33, <2>1 DEF TimePasses
<1>34. QED
  BY <1>1, <1>2, <1>3, <1>4, <1>5, <1>6, <1>7, <1>8, <1>9, <1>10, <1>11, <1>12, <1>13,
     <1>14, <1>15, <1>16, <1>17, <1>18, <1>19, <1>20, <1>21, <1>22, <1>23, <1>24, <1>25,
     <1>26, <1>27, <1>28, <1>29, <1>30, <1>31, <1>32, <1>33
  DEF Next, WorkerStep, RunningStep, JobStep, EngineStep, PlatformStep, ClockStep

------------------------------------------------------------------------------
(* How a step changes the live operations.                                 *)

\* A row that stays live changes no set of live operations.
LEMMA LiveRewrite ==
  ASSUME TypeOK, NEW i \in DOMAIN journal, RowRewritten(i),
         journal[i].outcome \in LiveOutcomes, journal'[i].outcome \in LiveOutcomes
  PROVE  \A a \in Alphas : LiveOperations(a)' = LiveOperations(a)
BY DEF LiveOperations, RowRewritten

\* A row that is proved without effect leaves the live operations.
LEMMA DeadRewrite ==
  ASSUME TypeOK, NEW i \in DOMAIN journal, RowRewritten(i),
         journal'[i].outcome \notin LiveOutcomes
  PROVE  \A a \in Alphas : LiveOperations(a)' = LiveOperations(a) \ {i}
BY DEF LiveOperations, RowRewritten

\* A rewrite that opens no outcome opens no alpha.
LEMMA OpenRewrite ==
  ASSUME TypeOK, NEW i \in DOMAIN journal, RowRewritten(i),
         journal'[i].outcome \in Ambiguous => journal[i].outcome \in Ambiguous
  PROVE  \A a \in Alphas : NoOpenPost(a) => NoOpenPost(a)'
BY DEF NoOpenPost, RowRewritten

\* A rewrite that leaves an attempt to an open outcome preserves AttemptsLeft.
LEMMA LeftRewrite ==
  ASSUME TypeOK, AttemptsLeft, NEW i \in DOMAIN journal, RowRewritten(i),
         journal'[i].outcome \in Ambiguous => journal'[i].attempts < MaxReconcile
  PROVE  AttemptsLeft'
BY DEF AttemptsLeft, RowRewritten

\* POSTs on the wire and committed ones belong to rows of the journal.
LEMMA EffectAlphas ==
  ASSUME TypeOK
  PROVE  \A i \in wire \cup committed : i \in DOMAIN journal /\ journal[i].alpha \in Alphas
<1>1. \A i \in DOMAIN journal : journal[i].alpha \in Alphas
  BY JournalRows DEF Operation
<1>2. QED BY <1>1 DEF TypeOK

\* No journal row changes.
LEMMA SameJournal ==
  ASSUME UNCHANGED journal
  PROVE  /\ AttemptsLeft => AttemptsLeft'
         /\ \A a \in Alphas : LiveOperations(a)' = LiveOperations(a)
         /\ \A a \in Alphas : NoOpenPost(a)' <=> NoOpenPost(a)
BY DEF AttemptsLeft, LiveOperations, NoOpenPost

Inv == AttemptsLeft /\ Control /\ OneOpenOperation /\ FilesAgree /\ Confirmed

------------------------------------------------------------------------------
(* Steps of the same shape.                                                *)

\* A job ends its tick and the journal does not change.
LEMMA QuietEndJob ==
  ASSUME IndInv, wpc \in InJob \ {"send", "await"}, NEW job \in Job,
         job.op = jobs[cur].op, EndJob(job),
         UNCHANGED <<fileVars, engineVars, journal, reply, platformVars>>,
         credited \subseteq credited',
         job.status = "rejected" => NoOpenPost(cur),
         job.status = "submitted_confirmed" => platform[cur] = "submitted" /\ cur \in credited'
  PROVE  Inv'
<1> USE SameJournal DEF IndInv, Inv
<1>1. cur \in Alphas /\ reply = "none" BY DEF Control
<1>2. /\ jobs'[cur] = job /\ jobs' \in [Alphas -> Job] /\ wpc' = "tick"
      /\ \A a \in Alphas \ {cur} : jobs'[a] = jobs[a]
  BY <1>1 DEF EndJob, TypeOK
<1>3. Control' BY <1>1, <1>2 DEF Control, InJob, Refusals
<1>4. OneOpenOperation'
  BY <1>1, <1>2, EffectAlphas DEF OneOpenOperation, NamesLiveOperation
<1>5. FilesAgree'
  BY <1>1, <1>2 DEF FilesAgree, Control, FinalStatuses, InJob
<1>6. Confirmed'
  BY <1>1, <1>2 DEF Confirmed
<1>7. QED BY <1>3, <1>4, <1>5, <1>6

\* The worker forgets everything; the journal has lost no live operation but op.
LEMMA Dies ==
  ASSUME IndInv, WorkerDies, AttemptsLeft',
         \A a \in Alphas : NoOpenPost(a) => NoOpenPost(a)',
         UNCHANGED <<fileVars, engineVars, platformVars, credited>>,
         DOMAIN journal' = DOMAIN journal,
         \A i \in DOMAIN journal : journal'[i].alpha = journal[i].alpha,
         \/ \A a \in Alphas : LiveOperations(a)' = LiveOperations(a)
         \/ wpc = "send" /\ \A a \in Alphas : LiveOperations(a)' = LiveOperations(a) \ {op}
  PROVE  Inv'
<1> USE DEF IndInv, Inv
<1>1. /\ wpc' = "down" /\ reply' = "none"
      /\ \A a \in Alphas : jobs'[a].op = 0 /\ jobs'[a].status = "absent"
  BY DEF WorkerDies, NoJob
<1>2. Control' BY <1>1 DEF Control, InJob, Refusals
<1>3. OneOpenOperation'
  <2>1. CASE \A a \in Alphas : LiveOperations(a)' = LiveOperations(a)
    BY <1>1, <2>1, EffectAlphas DEF OneOpenOperation, NamesLiveOperation
  <2>2. CASE wpc = "send" /\ \A a \in Alphas : LiveOperations(a)' = LiveOperations(a) \ {op}
    <3>1. /\ op \in LiveOperations(cur) /\ op \notin wire \cup committed /\ cur \in Alphas
          /\ op \notin {stateFile[cur].op, engineJobs[cur].op}
      BY <2>2 DEF Control, InJob, LiveOperations, LiveOutcomes, Ambiguous
    <3>2. \A a \in Alphas : op \in LiveOperations(a) => a = cur
      BY <3>1 DEF LiveOperations
    <3>3. QED
      BY <1>1, <2>2, <3>1, <3>2, EffectAlphas DEF OneOpenOperation, NamesLiveOperation
  <2>3. QED BY <2>1, <2>2
<1>4. FilesAgree' BY <1>1 DEF FilesAgree
<1>5. Confirmed' BY <1>1 DEF Confirmed
<1>6. QED BY <1>2, <1>3, <1>4, <1>5

------------------------------------------------------------------------------
(* The rest of the invariant.  Actions that take a job's path come first,  *)
(* then the POST, then the process, the engine, the platform, the clock.   *)

\* Choosing a path for a job preserves the invariant.
LEMMA StepPath ==
  ASSUME IndInv, TypeOK',
         NEW a \in Alphas, NEW o \in 0..Len(journal),
         ProcessJob(a, o) \/ ProcessManualReview(a, o)
  PROVE  Inv'
<1> USE SameJournal DEF IndInv, Inv
<1>1. /\ UNCHANGED <<fileVars, engineVars, journal, reply, platformVars, credited>>
      /\ wpc = "tick" /\ reply = "none"
      /\ jobs[a] \in Job /\ jobs[a].status \notin FinalStatuses
  BY DEF ProcessJob, ProcessManualReview, Control, Processable, TypeOK
<1>2. /\ jobs'[a].op = o
      /\ \A b \in Alphas \ {a} : jobs'[b] = jobs[b]
      /\ \/ ProcessJob(a, o) /\ jobs'[a].status = jobs[a].status
         \/ ProcessManualReview(a, o) /\ jobs'[a].status = "manual_review_or_platform_lag"
  <2>1. CASE ProcessJob(a, o)
    <3>1. jobs' = [jobs EXCEPT ![a] = [jobs[a] EXCEPT !.op = o]] BY <2>1 DEF ProcessJob
    <3>2. QED BY <1>1, <2>1, <3>1 DEF TypeOK, Job
  <2>2. CASE ProcessManualReview(a, o)
    <3>1. jobs' = [jobs EXCEPT ![a] =
            [jobs[a] EXCEPT !.op = o, !.status = "manual_review_or_platform_lag"]]
      BY <2>2 DEF ProcessManualReview
    <3>2. QED BY <1>1, <2>2, <3>1 DEF TypeOK, Job
  <2>3. QED BY <2>1, <2>2
<1>3. /\ o # 0 => o \in LiveOperations(a)
      /\ o = 0 => LiveOperations(a) = {}
  BY <1>1, JournalRows
  DEF ProcessJob, ProcessManualReview, IsSubmissionOperation, OneOpenOperation, NamesLiveOperation,
      LiveOperations
<1>4. OneOpenOperation'
  BY <1>1, <1>2, <1>3, EffectAlphas DEF OneOpenOperation, NamesLiveOperation
<1>5. FilesAgree'
  BY <1>1, <1>2 DEF FilesAgree, FinalStatuses
<1>6. Control' /\ (wpc' # "credit")
  <2>1. CASE ProcessJob(a, o)
    <3>1. cur' = a /\ op' = o /\ wpc' = JobPath(o, jobs[a])
      BY <2>1 DEF ProcessJob
    <3>2. o # 0 => journal[o].outcome \in LiveOutcomes /\ journal[o].alpha = a /\ o \in DOMAIN journal
      BY <1>3 DEF LiveOperations
    <3>3. wpc' \in {"reconcile", "confirm", "live_check"}
      BY <3>1 DEF JobPath
    <3>4. wpc' = "reconcile" => o # 0 /\ journal[o].outcome \in Ambiguous
      BY <3>1 DEF JobPath
    <3>5. wpc' = "live_check" => o = 0
      BY <2>1, <3>1, <3>2 DEF JobPath, ProcessJob, LiveOutcomes
    <3>6. LiveOperations(cur)' = LiveOperations(a)
      BY <1>1, <3>1 DEF LiveOperations
    <3>7. jobs'[a].status \notin FinalStatuses
      BY <1>1, <1>2, <2>1 DEF ProcessJob, ProcessManualReview, FinalStatuses
    <3>8. wpc' = "confirm" => NoOpenPost(a)
      <4>1. wpc' = "confirm" => o = 0 \/ journal[o].outcome \notin Ambiguous
        BY <3>1 DEF JobPath
      <4>2. QED
        BY <1>3, <4>1 DEF OneOpenOperation, LiveOperations, LiveOutcomes, NoOpenPost
    <3>9. NoOpenPost(cur)' <=> NoOpenPost(a)
      BY <1>1, <3>1 DEF NoOpenPost
    <3>10. QED
      BY <1>1, <1>3, <3>1, <3>2, <3>3, <3>4, <3>5, <3>6, <3>7, <3>8, <3>9 DEF Control, Refusals
  <2>2. CASE ProcessManualReview(a, o)
    BY <1>1, <2>2 DEF ProcessManualReview, Control, InJob, Refusals
  <2>3. QED BY <2>1, <2>2, <1>2
<1>7. Confirmed'
  BY <1>1, <1>2, <1>6 DEF Confirmed, FinalStatuses
<1>8. QED BY <1>1, <1>4, <1>5, <1>6, <1>7

\* Evidence for the operation at hand: its outcome changes to a live one.
LEMMA StepEvidence ==
  ASSUME IndInv, ReconcilePositive \/ PostUncertain \/ PostAccepted
  PROVE  Inv'
<1> USE DEF IndInv, Inv
<1>1. /\ cur \in Alphas /\ op \in DOMAIN journal /\ journal[op].alpha = cur
      /\ journal[op].outcome \in Ambiguous /\ op \in Nat
      /\ jobs[cur] \in Job /\ jobs[cur].status \notin FinalStatuses
  BY JournalRows
  DEF Control, InJob, ReconcilePositive, PostUncertain, PostAccepted, TypeOK, Ambiguous
<1>2. PICK outcome \in {"accepted", "unknown_commit"} :
        /\ FinishOperation(op, outcome)
        /\ outcome = "unknown_commit" <=> wpc' = "reconcile"
        /\ wpc' = "confirm" => outcome = "accepted"
  BY DEF ReconcilePositive, PostUncertain, PostAccepted, Continue
<1>3. /\ RowRewritten(op) /\ journal'[op].outcome = outcome
      /\ journal'[op].attempts = journal[op].attempts
  BY <1>1, <1>2, FinishRewrites DEF Outcomes, LiveOutcomes, Ambiguous
<1>4. \A a \in Alphas : LiveOperations(a)' = LiveOperations(a)
  BY <1>1, <1>3, LiveRewrite DEF LiveOutcomes, Ambiguous
<1>5. \A a \in Alphas : NoOpenPost(a) => NoOpenPost(a)'
  BY <1>1, <1>3, OpenRewrite
<1>6. AttemptsLeft'
  BY <1>1, <1>3, LeftRewrite DEF AttemptsLeft
<1>7. /\ UNCHANGED <<fileVars, engineVars, platformVars, credited, cur, op>>
      /\ reply' = "none" /\ wpc' \in {"reconcile", "confirm", "credit"}
      /\ wpc' = "credit" => platform[cur] = "submitted"
      /\ \A a \in Alphas : jobs'[a].status = jobs[a].status /\ jobs'[a].op \in {jobs[a].op, op}
      /\ \A a \in Alphas \ {cur} : jobs'[a] = jobs[a]
  <2>1. CASE ReconcilePositive
    BY <2>1 DEF ReconcilePositive, Continue, Control
  <2>2. CASE PostUncertain \/ PostAccepted
    <3>1. jobs' = [jobs EXCEPT ![cur] = [jobs[cur] EXCEPT !.op = op]]
      BY <2>2 DEF PostUncertain, PostAccepted
    <3>2. QED BY <1>1, <2>2, <3>1 DEF PostUncertain, PostAccepted, Continue, Job, TypeOK
  <2>3. QED BY <2>1, <2>2
<1>8. op \in LiveOperations(cur)
  BY <1>1 DEF LiveOperations, LiveOutcomes
<1>9. OneOpenOperation'
  BY <1>1, <1>3, <1>4, <1>7, <1>8, EffectAlphas DEF OneOpenOperation, NamesLiveOperation, RowRewritten
<1>10. Control'
  <2>1. wpc' = "confirm" => NoOpenPost(cur)'
    BY <1>1, <1>2, <1>3, <1>4, <1>7, <1>8
    DEF NoOpenPost, LiveOperations, OneOpenOperation, RowRewritten, LiveOutcomes, Ambiguous
  <2>2. QED
    BY <1>1, <1>2, <1>3, <1>7, <2>1 DEF Control, InJob, Refusals, RowRewritten, Ambiguous
<1>11. FilesAgree'
  BY <1>5, <1>7 DEF FilesAgree, InJob, ReconcilePositive, PostUncertain, PostAccepted
<1>12. Confirmed'
  BY <1>7 DEF Confirmed
<1>13. QED BY <1>6, <1>9, <1>10, <1>11, <1>12

\* An observation without evidence preserves the invariant.
LEMMA StepNoEvidence ==
  ASSUME IndInv, ReconcileNoEvidence
  PROVE  Inv'
<1> USE DEF IndInv, Inv
<1>1. /\ cur \in Alphas /\ op \in DOMAIN journal /\ journal[op].alpha = cur
      /\ journal[op].outcome \in Ambiguous /\ reply = "none" /\ wpc = "reconcile"
      /\ jobs[cur] \in Job /\ jobs[cur].status \notin FinalStatuses
  BY DEF Control, InJob, ReconcileNoEvidence, TypeOK
<1>2. /\ RowRewritten(op) /\ journal'[op].outcome \in LiveOutcomes
      /\ journal'[op].outcome \in Ambiguous => journal'[op].attempts < MaxReconcile
  BY <1>1, AttemptRewrites
  DEF ReconcileNoEvidence, LiveOutcomes, Ambiguous, ReconciliationOutcome
<1>3. \A a \in Alphas : LiveOperations(a)' = LiveOperations(a)
  BY <1>1, <1>2, LiveRewrite DEF LiveOutcomes
<1>4. \A a \in Alphas : NoOpenPost(a) => NoOpenPost(a)'
  BY <1>1, <1>2, OpenRewrite
<1>5. AttemptsLeft'
  BY <1>1, <1>2, LeftRewrite
<1>6. PICK status \in {"manual_review_or_platform_lag", "submission_reconciliation_pending"} :
        EndJob([jobs[cur] EXCEPT !.status = status])
  BY DEF ReconcileNoEvidence
<1>7. /\ UNCHANGED <<fileVars, engineVars, reply, platformVars, credited>> /\ wpc' = "tick"
      /\ jobs'[cur].status = status /\ jobs'[cur].op = jobs[cur].op
      /\ \A a \in Alphas \ {cur} : jobs'[a] = jobs[a]
  BY <1>1, <1>6 DEF ReconcileNoEvidence, EndJob, Job, TypeOK
<1>8. OneOpenOperation'
  BY <1>1, <1>2, <1>3, <1>7, EffectAlphas DEF OneOpenOperation, NamesLiveOperation, RowRewritten
<1>9. Control'
  BY <1>1, <1>7 DEF Control, InJob, Refusals
<1>10. FilesAgree'
  BY <1>1, <1>4, <1>7 DEF FilesAgree, FinalStatuses
<1>11. Confirmed'
  BY <1>7 DEF Confirmed
<1>12. QED BY <1>5, <1>8, <1>9, <1>10, <1>11

\* Beginning a POST preserves the invariant: the alpha had no live operation.
LEMMA StepBegin ==
  ASSUME IndInv, BeginPost
  PROVE  Inv'
<1> USE DEF IndInv, Inv
<1> DEFINE n == Len(journal) + 1
<1>1. PICK c \in Alphas :
        /\ cur = c /\ wpc = "post" /\ reply = "none" /\ LiveOperations(c) = {}
        /\ jobs[c].status \notin FinalStatuses /\ BeginOperation(c)
        /\ wpc' = "send" /\ op' = n
        /\ UNCHANGED <<fileVars, engineVars, jobs, cur, reply, platformVars, credited>>
  BY DEF Control, InJob, BeginPost, Continue
<1>2. /\ DOMAIN journal' = DOMAIN journal \cup {n} /\ n \notin DOMAIN journal
      /\ n \in Nat /\ n # 0
      /\ \A k \in DOMAIN journal : journal'[k] = journal[k]
      /\ journal'[n].alpha = c /\ journal'[n].outcome = "started"
      /\ journal'[n].attempts = 0
  BY <1>1, BeginAppends
<1> HIDE DEF n
<1>3. /\ LiveOperations(c)' = {n}
      /\ \A a \in Alphas \ {c} : LiveOperations(a)' = LiveOperations(a)
  BY <1>1, <1>2 DEF LiveOperations, LiveOutcomes, Ambiguous
<1>4. n \notin wire \cup committed
  BY <1>2 DEF TypeOK
<1>5. \A a \in Alphas : n \notin {stateFile[a].op, engineJobs[a].op, jobs[a].op}
  BY <1>2 DEF OneOpenOperation, NamesLiveOperation, LiveOperations
<1>6. \A a \in Alphas : a # c /\ NoOpenPost(a) => NoOpenPost(a)'
  BY <1>1, <1>2 DEF NoOpenPost
<1>7. AttemptsLeft'
  BY <1>2 DEF AttemptsLeft
<1>8. Control'
  BY <1>1, <1>2, <1>4, <1>5 DEF Control, InJob, Refusals
<1>9. OneOpenOperation'
  <2>1. \A a \in Alphas : \A i, j \in LiveOperations(a)' : i = j
    <3>1. TAKE a \in Alphas
    <3>2. CASE a = c BY <1>3, <3>2
    <3>3. CASE a # c BY <1>3, <3>3 DEF OneOpenOperation
    <3>4. QED BY <3>2, <3>3
  <2>2. \A i \in wire \cup committed : i \in DOMAIN journal /\ journal[i].alpha \in Alphas \ {c}
    BY <1>1, EffectAlphas DEF OneOpenOperation
  <2>3. \A i \in wire' \cup committed' : (i \in LiveOperations(journal[i].alpha))'
    BY <1>1, <1>2, <2>2 DEF OneOpenOperation, LiveOperations
  <2>4. \A a \in Alphas : {stateFile[a].op, engineJobs[a].op, jobs[a].op} \ {0}
                             \subseteq LiveOperations(a)'
    BY <1>1, <1>3 DEF OneOpenOperation, NamesLiveOperation
  <2>5. QED BY <1>1, <2>1, <2>3, <2>4 DEF OneOpenOperation, NamesLiveOperation
<1>10. FilesAgree'
  BY <1>1, <1>6 DEF FilesAgree, FinalStatuses
<1>11. Confirmed'
  BY <1>1 DEF Confirmed
<1>12. QED BY <1>7, <1>8, <1>9, <1>10, <1>11

\* Sending the POST preserves the invariant: it is sent once.
LEMMA StepSend ==
  ASSUME IndInv, SendPost
  PROVE  Inv'
<1> USE SameJournal DEF IndInv, Inv
<1>1. /\ cur \in Alphas /\ op \in LiveOperations(cur) /\ op \notin wire \cup committed
      /\ journal[op].alpha = cur /\ op \in DOMAIN journal
      /\ wire' = wire \cup {op} /\ wpc = "send" /\ wpc' = "await" /\ reply = "none"
      /\ UNCHANGED <<fileVars, engineVars, jobs, cur, op, journal, reply, platform, committed,
                     credited>>
  BY DEF SendPost, Control, InJob, Continue, LiveOperations, LiveOutcomes, Ambiguous
<1>2. Control' BY <1>1 DEF Control, InJob, Refusals
<1>3. OneOpenOperation'
  BY <1>1, EffectAlphas DEF OneOpenOperation, NamesLiveOperation
<1>4. FilesAgree' BY <1>1 DEF FilesAgree
<1>5. Confirmed' BY <1>1 DEF Confirmed
<1>6. QED BY <1>1, <1>2, <1>3, <1>4, <1>5

\* A refusal: the operation at hand was the only live one of its alpha, so the
\* alpha has no open POST any more.
LEMMA StepRefused ==
  ASSUME IndInv, PostThrottled \/ PostRejected
  PROVE  Inv'
<1> USE DEF IndInv, Inv
<1>1. PICK c \in Alphas :
        /\ cur = c /\ op \in LiveOperations(c) /\ op \notin wire \cup committed
        /\ op \in DOMAIN journal /\ journal[op].alpha = c /\ wpc = "await"
        /\ op \notin {stateFile[c].op, engineJobs[c].op, jobs[c].op}
        /\ jobs[c] \in Job /\ jobs[c].status \notin FinalStatuses
  BY DEF PostThrottled, PostRejected, Control, InJob, LiveOperations, LiveOutcomes, Ambiguous,
         Refusals, TypeOK
<1>2. PICK outcome \in DeadOutcomes : FinishOperation(op, outcome)
  BY DEF PostThrottled, PostRejected, DeadOutcomes
<1>3. /\ RowRewritten(op) /\ journal'[op].outcome \in DeadOutcomes
  BY <1>1, <1>2, FinishRewrites DEF Outcomes
<1>4. \A a \in Alphas : LiveOperations(a)' = LiveOperations(a) \ {op}
  BY <1>1, <1>3, DeadRewrite DEF DeadOutcomes, LiveOutcomes, Ambiguous
<1>5. \A a \in Alphas : NoOpenPost(a) => NoOpenPost(a)'
  BY <1>1, <1>3, OpenRewrite DEF DeadOutcomes, Ambiguous
<1>6. LiveOperations(c)' = {} /\ \A a \in Alphas : op \in LiveOperations(a) => a = c
  BY <1>1, <1>4 DEF OneOpenOperation, LiveOperations
<1>7. NoOpenPost(c)'
  BY <1>6 DEF NoOpenPost, LiveOperations, LiveOutcomes
<1>8. AttemptsLeft'
  BY <1>1, <1>3, LeftRewrite DEF DeadOutcomes, Ambiguous
<1>9. /\ UNCHANGED <<fileVars, engineVars, platformVars, credited>>
      /\ wpc' = "tick" /\ reply' = "none"
      /\ jobs'[c].op = jobs[c].op /\ jobs'[c].status \in {"throttled_retry_later", "rejected"}
      /\ \A a \in Alphas \ {c} : jobs'[a] = jobs[a]
  <2>1. CASE PostThrottled
    BY <1>1, <2>1 DEF PostThrottled, EndJob, TypeOK, Job
  <2>2. CASE PostRejected
    BY <1>1, <2>2 DEF PostRejected, EndJob, TypeOK, Job
  <2>3. QED BY <2>1, <2>2
<1>10. OneOpenOperation'
  <2>1. \A i \in wire' \cup committed' : (i \in LiveOperations(journal[i].alpha))'
    <3>1. TAKE i \in wire' \cup committed'
    <3>2. i \in DOMAIN journal /\ i # op /\ i \in LiveOperations(journal[i].alpha)
      BY <1>1, <1>9, EffectAlphas DEF OneOpenOperation
    <3>3. QED BY <1>3, <3>2 DEF LiveOperations, RowRewritten
  <2>2. \A a \in Alphas : {stateFile'[a].op, engineJobs'[a].op, jobs'[a].op} \ {0}
                             \subseteq LiveOperations(a)'
    BY <1>1, <1>4, <1>6, <1>9 DEF OneOpenOperation, NamesLiveOperation
  <2>3. QED BY <1>4, <1>9, <2>1, <2>2 DEF OneOpenOperation, NamesLiveOperation
<1>11. Control'
  BY <1>9 DEF Control, InJob, Refusals
<1>12. FilesAgree'
  BY <1>1, <1>5, <1>7, <1>9 DEF FilesAgree, FinalStatuses
<1>13. Confirmed'
  BY <1>1, <1>9 DEF Confirmed
<1>14. QED BY <1>8, <1>10, <1>11, <1>12, <1>13

\* Steps of the worker that end a job without touching the journal, and those
\* that only move it on.
LEMMA StepQuiet ==
  ASSUME IndInv,
         \/ ReconcileNotDue \/ ConfirmThrottled \/ ConfirmCheckFailed \/ MarkSubmittedConfirmed
         \/ \E status \in {"rejected", "waiting_for_checks"} : LiveCheckNotReady(status)
         \/ \E aged \in BOOLEAN : ConfirmNoEvidence(aged)
  PROVE  Inv'
<1> USE DEF IndInv
<1>1. /\ cur \in Alphas /\ jobs[cur] \in Job /\ wpc \in InJob \ {"send", "await"}
      /\ Attempted(jobs[cur]) \in Job /\ Attempted(jobs[cur]).op = jobs[cur].op
  <2>1. wpc \in InJob \ {"send", "await"}
    BY DEF ReconcileNotDue, ConfirmThrottled, ConfirmCheckFailed, MarkSubmittedConfirmed,
           LiveCheckNotReady, ConfirmNoEvidence, InJob
  <2>2. cur \in Alphas /\ jobs[cur] \in Job BY <2>1 DEF Control, TypeOK
  <2>3. QED BY <2>1, <2>2, AttemptedJob
<1>2. CASE ReconcileNotDue
  <2> DEFINE job == [jobs[cur] EXCEPT !.status = "submission_reconciliation_pending"]
  <2>1. job \in Job /\ job.op = jobs[cur].op /\ job.status = "submission_reconciliation_pending"
    BY <1>1 DEF Job, JobStatus
  <2>2. EndJob(job) /\ UNCHANGED <<fileVars, engineVars, journal, reply, platformVars, credited>>
    BY <1>2 DEF ReconcileNotDue
  <2> HIDE DEF job
  <2>3. QED BY <1>1, <2>1, <2>2, QuietEndJob
<1>3. CASE ConfirmThrottled
  <2> DEFINE job == [Attempted(jobs[cur]) EXCEPT !.status = "throttled_retry_later",
                                                 !.retry = "accepted_but_unconfirmed"]
  <2>1. job \in Job /\ job.op = jobs[cur].op /\ job.status = "throttled_retry_later"
    BY <1>1 DEF Job, JobStatus
  <2>2. EndJob(job) /\ UNCHANGED <<fileVars, engineVars, journal, reply, platformVars, credited>>
    BY <1>3 DEF ConfirmThrottled
  <2> HIDE DEF job
  <2>3. QED BY <1>1, <2>1, <2>2, QuietEndJob
<1>4. CASE ConfirmCheckFailed
  <2> DEFINE job == [Attempted(jobs[cur]) EXCEPT !.status = "rejected"]
  <2>1. job \in Job /\ job.op = jobs[cur].op
    BY <1>1 DEF Job, JobStatus, FinalStatuses
  <2>2. /\ EndJob(job) /\ wpc = "confirm"
        /\ UNCHANGED <<fileVars, engineVars, journal, reply, platformVars, credited>>
    BY <1>4 DEF ConfirmCheckFailed
  <2>3. NoOpenPost(cur)
    BY <2>2 DEF Control
  <2>4. job.status = "rejected" BY <1>1 DEF Job
  <2> HIDE DEF job
  <2>5. QED BY <1>1, <2>1, <2>2, <2>3, <2>4, QuietEndJob
<1>5. CASE MarkSubmittedConfirmed
  <2> DEFINE job == [jobs[cur] EXCEPT !.status = "submitted_confirmed"]
  <2>1. job \in Job /\ job.op = jobs[cur].op /\ job.status = "submitted_confirmed"
    BY <1>1 DEF Job, JobStatus, FinalStatuses
  <2>2. /\ EndJob(job) /\ wpc = "credit" /\ credited' = credited \cup {cur}
        /\ UNCHANGED <<fileVars, engineVars, journal, reply, platformVars>>
    BY <1>5 DEF MarkSubmittedConfirmed
  <2>3. platform[cur] = "submitted" BY <2>2 DEF Confirmed
  <2> HIDE DEF job
  <2>4. QED BY <1>1, <2>1, <2>2, <2>3, QuietEndJob
<1>6. ASSUME NEW status \in {"rejected", "waiting_for_checks"}, LiveCheckNotReady(status)
      PROVE  Inv'
  <2> DEFINE job == [jobs[cur] EXCEPT !.status = status]
  <2>1. job \in Job /\ job.op = jobs[cur].op /\ job.status = status
    BY <1>1 DEF Job, JobStatus, FinalStatuses
  <2>2. /\ EndJob(job) /\ wpc = "live_check"
        /\ UNCHANGED <<fileVars, engineVars, journal, reply, platformVars, credited>>
    BY <1>6 DEF LiveCheckNotReady
  <2>3. NoOpenPost(cur)
    BY <2>2 DEF Control, NoOpenPost, LiveOperations, LiveOutcomes
  <2> HIDE DEF job
  <2>4. QED BY <1>1, <2>1, <2>2, <2>3, QuietEndJob
<1>7. ASSUME NEW aged \in BOOLEAN, ConfirmNoEvidence(aged)
      PROVE  Inv'
  <2>1. PICK status \in {"manual_review_or_platform_lag", "accepted_but_unconfirmed"} :
          EndJob([Attempted(jobs[cur]) EXCEPT !.status = status])
    BY <1>7 DEF ConfirmNoEvidence
  <2> DEFINE job == [Attempted(jobs[cur]) EXCEPT !.status = status]
  <2>2. job \in Job /\ job.op = jobs[cur].op /\ job.status = status
    BY <1>1 DEF Job, JobStatus, FinalStatuses
  <2>3. EndJob(job) /\ UNCHANGED <<fileVars, engineVars, journal, reply, platformVars, credited>>
    BY <1>7, <2>1 DEF ConfirmNoEvidence
  <2> HIDE DEF job
  <2>4. QED BY <1>1, <2>2, <2>3, QuietEndJob
<1>8. QED BY <1>2, <1>3, <1>4, <1>5, <1>6, <1>7

\* Steps of the worker that go on with the same job, and those of its process.
LEMMA StepProcess ==
  ASSUME IndInv,
         \/ StartWorker \/ ReadState \/ WriteEnqueued \/ WriteState
         \/ LiveCheckReady \/ LiveCheckAlreadySubmitted \/ ConfirmSubmitted
  PROVE  Inv'
<1> USE SameJournal DEF IndInv, Inv
<1>1. reply = "none" /\ UNCHANGED <<journal, reply, wire, platform, committed, credited, engineJobs>>
  BY DEF StartWorker, ReadState, WriteEnqueued, WriteState, LiveCheckReady,
         LiveCheckAlreadySubmitted, ConfirmSubmitted, Control
<1>2. CASE StartWorker
  <2>1. UNCHANGED <<jobs, stateFile>> /\ wpc = "down" /\ wpc' = "idle" BY <1>2 DEF StartWorker
  <2>2. Control' BY <1>1, <2>1 DEF Control, InJob, Refusals
  <2>3. OneOpenOperation' BY <1>1, <2>1, EffectAlphas DEF OneOpenOperation, NamesLiveOperation
  <2>4. FilesAgree' BY <1>1, <2>1 DEF FilesAgree
  <2>5. QED BY <1>1, <2>1, <2>2, <2>3, <2>4 DEF Confirmed
<1>3. CASE ReadState
  <2>1. /\ wpc = "idle" /\ wpc' = "enqueued" /\ stateFile' = stateFile
        /\ jobs' = EnqueueSubmissionJobs(stateFile)
    BY <1>3 DEF ReadState
  <2>2. \A a \in Alphas :
          /\ jobs'[a].op = stateFile[a].op
          /\ jobs'[a].status \in FinalStatuses <=> stateFile[a].status \in FinalStatuses
          /\ jobs'[a].status \in FinalStatuses => jobs'[a].status = stateFile[a].status
    BY <2>1, EnqueueKeeps DEF TypeOK
  <2>3. Control' BY <1>1, <2>1 DEF Control, InJob, Refusals
  <2>4. OneOpenOperation'
    BY <1>1, <2>1, <2>2, EffectAlphas DEF OneOpenOperation, NamesLiveOperation
  <2>5. FilesAgree' BY <1>1, <2>1, <2>2 DEF FilesAgree, FinalStatuses
  <2>6. Confirmed' BY <1>1, <2>1, <2>2 DEF Confirmed, FinalStatuses
  <2>7. QED BY <1>1, <2>3, <2>4, <2>5, <2>6
<1>4. CASE WriteEnqueued
  <2>1. wpc = "enqueued" /\ wpc' \in {"tick", "flush"} /\ jobs' = jobs /\ stateFile' = jobs
    BY <1>4 DEF WriteEnqueued
  <2>2. Control' BY <1>1, <2>1 DEF Control, InJob, Refusals
  <2>3. OneOpenOperation' BY <1>1, <2>1, EffectAlphas DEF OneOpenOperation, NamesLiveOperation
  <2>4. FilesAgree' BY <1>1, <2>1 DEF FilesAgree
  <2>5. Confirmed' BY <1>1, <2>1 DEF Confirmed
  <2>6. QED BY <1>1, <2>2, <2>3, <2>4, <2>5
<1>5. CASE WriteState
  <2>1. /\ wpc \in {"flush", "tick"} /\ wpc' = "idle" /\ stateFile' = jobs
        /\ \A a \in Alphas : jobs'[a].op = 0 /\ jobs'[a].status = "absent"
    BY <1>5 DEF WriteState, NoJob
  <2>2. Control' BY <1>1, <2>1 DEF Control, InJob, Refusals
  <2>3. OneOpenOperation' BY <1>1, <2>1, EffectAlphas DEF OneOpenOperation, NamesLiveOperation
  <2>4. FilesAgree' BY <1>1, <2>1 DEF FilesAgree
  <2>5. Confirmed' BY <1>1, <2>1 DEF Confirmed
  <2>6. QED BY <1>1, <2>2, <2>3, <2>4, <2>5
<1>6. CASE LiveCheckReady \/ LiveCheckAlreadySubmitted
  <2>1. /\ UNCHANGED <<stateFile, jobs, cur, op>> /\ wpc = "live_check"
        /\ wpc' \in {"post", "credit"} /\ (wpc' = "credit" => platform[cur] = "submitted")
    BY <1>6 DEF LiveCheckReady, LiveCheckAlreadySubmitted, Continue
  <2>2. LiveOperations(cur)' = LiveOperations(cur)
    BY <1>1, <2>1 DEF LiveOperations
  <2>3. Control' BY <1>1, <2>1, <2>2 DEF Control, InJob, Refusals
  <2>4. OneOpenOperation' BY <1>1, <2>1, EffectAlphas DEF OneOpenOperation, NamesLiveOperation
  <2>5. FilesAgree' BY <1>1, <2>1 DEF FilesAgree
  <2>6. Confirmed' BY <1>1, <2>1 DEF Confirmed
  <2>7. QED BY <1>1, <2>3, <2>4, <2>5, <2>6
<1>7. CASE ConfirmSubmitted
  <2>1. /\ UNCHANGED <<stateFile, cur, op>> /\ wpc = "confirm" /\ wpc' = "credit"
        /\ platform[cur] = "submitted" /\ cur \in Alphas /\ jobs[cur] \in Job
        /\ jobs' = [jobs EXCEPT ![cur] = Attempted(jobs[cur])]
    BY <1>7 DEF ConfirmSubmitted, Continue, Control, InJob, TypeOK
  <2>2. \A a \in Alphas : jobs'[a].op = jobs[a].op /\ jobs'[a].status = jobs[a].status
    BY <2>1, AttemptedJob DEF TypeOK
  <2>3. Control' BY <1>1, <2>1, <2>2 DEF Control, InJob, Refusals
  <2>4. OneOpenOperation'
    BY <1>1, <2>1, <2>2, EffectAlphas DEF OneOpenOperation, NamesLiveOperation
  <2>5. FilesAgree' BY <1>1, <2>1, <2>2 DEF FilesAgree
  <2>6. Confirmed' BY <1>1, <2>1, <2>2 DEF Confirmed
  <2>7. QED BY <1>1, <2>3, <2>4, <2>5, <2>6
<1>8. QED BY <1>2, <1>3, <1>4, <1>5, <1>6, <1>7

\* A death preserves the invariant: what the worker knew is in the journal.
LEMMA StepDies ==
  ASSUME IndInv, Crash \/ PostNotSent
  PROVE  Inv'
<1> USE DEF IndInv
<1>1. CASE Crash
  <2>1. /\ WorkerDies
        /\ UNCHANGED <<fileVars, engineVars, journal, platformVars, credited>>
    BY <1>1 DEF Crash
  <2>2. QED BY <2>1, SameJournal, Dies
<1>2. CASE PostNotSent
  <2>1. /\ WorkerDies /\ FinishOperation(op, "not_sent_retryable") /\ wpc = "send"
        /\ op \in DOMAIN journal
        /\ UNCHANGED <<fileVars, engineVars, platformVars, credited>>
    BY <1>2 DEF PostNotSent, Control
  <2>2. RowRewritten(op) /\ journal'[op].outcome = "not_sent_retryable"
    BY <2>1, FinishRewrites DEF Outcomes, DeadOutcomes
  <2>3. \A a \in Alphas : LiveOperations(a)' = LiveOperations(a) \ {op}
    BY <2>1, <2>2, DeadRewrite DEF LiveOutcomes, Ambiguous
  <2>4. \A a \in Alphas : NoOpenPost(a) => NoOpenPost(a)'
    BY <2>1, <2>2, OpenRewrite DEF Ambiguous
  <2>5. AttemptsLeft'
    BY <2>1, <2>2, LeftRewrite DEF Ambiguous
  <2>6. QED BY <2>1, <2>2, <2>3, <2>4, <2>5, Dies DEF RowRewritten
<1>3. QED BY <1>1, <1>2

\* The engine's unlocked enqueue preserves the invariant.
LEMMA StepEngine ==
  ASSUME IndInv, TypeOK', EngineStep
  PROVE  Inv'
<1> USE SameJournal DEF IndInv, Inv
<1>1. UNCHANGED <<workerVars, journal, reply, platformVars, credited>>
  BY DEF EngineStep, WriteBacklog, EngineReadState, EngineWriteState
<1>2. \A a \in Alphas :
        /\ stateFile'[a].op \in {stateFile[a].op, engineJobs[a].op}
        /\ engineJobs'[a].op \in {0, stateFile[a].op, engineJobs[a].op}
        /\ \/ stateFile'[a].status = stateFile[a].status
              /\ \/ engineJobs'[a].status = engineJobs[a].status
                 \/ engineJobs'[a].status \notin FinalStatuses
                 \/ engineJobs'[a].status = stateFile[a].status
           \/ stateFile'[a].status = engineJobs[a].status /\ engineJobs'[a].status \notin FinalStatuses
  <2>1. CASE \E rows \in SUBSET Alphas : WriteBacklog(rows)
    BY <2>1 DEF WriteBacklog
  <2>2. CASE EngineReadState
    BY <2>2, EnqueueKeeps DEF EngineReadState, TypeOK
  <2>3. CASE EngineWriteState
    BY <2>3 DEF EngineWriteState, NoJob, FinalStatuses
  <2>4. QED BY <2>1, <2>2, <2>3 DEF EngineStep
<1>3. OneOpenOperation'
  BY <1>1, <1>2, EffectAlphas DEF OneOpenOperation, NamesLiveOperation
<1>4. Control'
  <2>1. wpc \in {"send", "await"} => op # 0
    BY JournalRows DEF Control
  <2>2. wpc \in {"send", "await"} => op \notin {stateFile'[cur].op, engineJobs'[cur].op}
    BY <1>2, <2>1 DEF Control, InJob
  <2>3. LiveOperations(cur)' = LiveOperations(cur) /\ (NoOpenPost(cur)' <=> NoOpenPost(cur))
    BY <1>1 DEF LiveOperations, NoOpenPost
  <2>4. QED BY <1>1, <2>2, <2>3 DEF Control, InJob
<1>5. FilesAgree'
  BY <1>1, <1>2 DEF FilesAgree, FinalStatuses
<1>6. Confirmed'
  BY <1>1, <1>2 DEF Confirmed, FinalStatuses
<1>7. QED BY <1>1, <1>3, <1>4, <1>5, <1>6

\* The platform's steps preserve the invariant.
LEMMA StepPlatform ==
  ASSUME IndInv, TypeOK', PlatformStep
  PROVE  Inv'
<1> USE SameJournal DEF IndInv, Inv
<1>1. /\ UNCHANGED <<fileVars, engineVars, workerVars, journal, credited>>
      /\ \A a \in Alphas : platform[a] = "submitted" => platform'[a] = "submitted"
  BY DEF PlatformStep, PlatformCommits, PlatformRefuses, PlatformSettles, SubmittedElsewhere, TypeOK
<1>2. /\ LiveOperations(cur)' = LiveOperations(cur) /\ (NoOpenPost(cur)' <=> NoOpenPost(cur))
      /\ wire' \cup committed' \subseteq wire \cup committed /\ wire' \cap committed' = {}
      /\ reply' # "none" => wpc = "await"
      /\ reply' \in Refusals => op \notin wire' \cup committed'
  <2>1. LiveOperations(cur)' = LiveOperations(cur) /\ (NoOpenPost(cur)' <=> NoOpenPost(cur))
    BY <1>1 DEF LiveOperations, NoOpenPost
  <2>2. ASSUME NEW i \in wire, PlatformCommits(i)
        PROVE  /\ wire' \cup committed' \subseteq wire \cup committed /\ wire' \cap committed' = {}
               /\ reply' # "none" => wpc = "await"
               /\ reply' \in Refusals => op \notin wire' \cup committed'
    BY <2>2 DEF PlatformCommits, Respond, OneOpenOperation, Control, Refusals
  <2>3. ASSUME NEW i \in wire, PlatformRefuses(i)
        PROVE  /\ wire' \cup committed' \subseteq wire \cup committed /\ wire' \cap committed' = {}
               /\ reply' # "none" => wpc = "await"
               /\ reply' \in Refusals => op \notin wire' \cup committed'
    BY <2>3 DEF PlatformRefuses, Respond, OneOpenOperation, Control, Refusals
  <2>4. CASE \/ \E a \in Alphas : \E v \in {"submitted", "unsubmitted"} : PlatformSettles(a, v)
             \/ \E a \in Elsewhere : SubmittedElsewhere(a)
    BY <2>1, <2>4 DEF PlatformSettles, SubmittedElsewhere, OneOpenOperation, Control
  <2>5. QED BY <2>1, <2>2, <2>3, <2>4 DEF PlatformStep
<1>3. Control' BY <1>1, <1>2 DEF Control, InJob
<1>4. OneOpenOperation'
  BY <1>1, <1>2, EffectAlphas DEF OneOpenOperation, NamesLiveOperation
<1>5. FilesAgree' BY <1>1 DEF FilesAgree
<1>6. Confirmed'
  <2>1. wpc = "credit" => cur \in Alphas BY DEF Control, InJob
  <2>2. QED BY <1>1, <2>1 DEF Confirmed
<1>7. QED BY <1>1, <1>3, <1>4, <1>5, <1>6

\* Elapsed delays preserve the invariant.
LEMMA StepClock ==
  ASSUME IndInv, ClockStep
  PROVE  Inv'
<1> USE DEF IndInv, Inv
<1>1. PICK i \in DOMAIN journal : TimePasses(i)
  BY DEF ClockStep
<1>2. /\ RowRewritten(i) /\ journal'[i].outcome = journal[i].outcome
      /\ journal'[i].attempts = journal[i].attempts
      /\ journal[i].outcome = "reconciliation_pending"
  BY <1>1, TimeRewrites DEF TimePasses
<1>3. \A a \in Alphas : LiveOperations(a)' = LiveOperations(a)
  BY <1>2, LiveRewrite DEF LiveOutcomes, Ambiguous
<1>4. \A a \in Alphas : NoOpenPost(a) => NoOpenPost(a)'
  BY <1>2, OpenRewrite
<1>5. AttemptsLeft'
  BY <1>2, LeftRewrite DEF AttemptsLeft
<1>6. UNCHANGED <<fileVars, engineVars, workerVars, reply, platformVars, credited>>
  BY <1>1 DEF TimePasses
<1>7. Control'
  <2>1. op \in DOMAIN journal => journal'[op].outcome = journal[op].outcome
                                 /\ journal'[op].alpha = journal[op].alpha
    BY <1>2 DEF RowRewritten
  <2>2. /\ wpc \in {"live_check", "post"} => LiveOperations(cur)' = {}
        /\ wpc = "confirm" => NoOpenPost(cur)'
    BY <1>2, <1>6 DEF Control, InJob, LiveOperations, NoOpenPost, RowRewritten
  <2>3. DOMAIN journal' = DOMAIN journal BY <1>2 DEF RowRewritten
  <2>4. QED BY <1>6, <2>1, <2>2, <2>3 DEF Control, InJob
<1>8. OneOpenOperation'
  BY <1>2, <1>3, <1>6, EffectAlphas DEF OneOpenOperation, NamesLiveOperation, RowRewritten
<1>9. FilesAgree' BY <1>4, <1>6 DEF FilesAgree
<1>10. Confirmed' BY <1>6 DEF Confirmed
<1>11. QED BY <1>5, <1>7, <1>8, <1>9, <1>10

------------------------------------------------------------------------------
\* The invariant holds at the start: journal and files are empty.
LEMMA InitInvariant == Init => IndInv
<1> SUFFICES ASSUME Init PROVE IndInv OBVIOUS
<1>1. NoJob.op = 0 /\ NoJob.status = "absent" BY DEF NoJob
<1>2. TypeOK
  <2>1. enabled \in BOOLEAN BY Zenon DEF Init
  <2>2. stateFile \in [Alphas -> Job] /\ engineJobs \in [Alphas -> Job] /\ jobs \in [Alphas -> Job]
    <3>1. [a \in Alphas |-> NoJob] \in [Alphas -> Job] BY JobConstants
    <3>2. QED BY <3>1 DEF Init
  <2>3. journal \in Seq(Operation) /\ DOMAIN journal = {} BY DEF Init
  <2>4. QED BY <2>1, <2>2, <2>3 DEF Init, TypeOK, WorkerPc, Replies
<1>3. \A a \in Alphas : LiveOperations(a) = {} /\ NoOpenPost(a)
  BY DEF Init, LiveOperations, NoOpenPost
<1>4. AttemptsLeft BY DEF Init, AttemptsLeft
<1>5. Control BY DEF Init, Control, InJob, Refusals
<1>6. OneOpenOperation BY <1>1, <1>3 DEF Init, OneOpenOperation, NamesLiveOperation
<1>7. FilesAgree BY <1>1, <1>3 DEF Init, FilesAgree
<1>8. Confirmed BY <1>1 DEF Init, Confirmed
<1>9. QED BY <1>2, <1>4, <1>5, <1>6, <1>7, <1>8 DEF IndInv

\* Every step preserves the invariant.
LEMMA StepInvariant == IndInv /\ [Next]_vars => IndInv'
<1> SUFFICES ASSUME IndInv, [Next]_vars PROVE IndInv' OBVIOUS
<1>1. CASE UNCHANGED vars
  <2>1. TypeOK' BY <1>1 DEF IndInv, TypeOK
  <2>2. AttemptsLeft' BY <1>1 DEF IndInv, AttemptsLeft
  <2>3. Control' BY <1>1 DEF IndInv, Control, LiveOperations, NoOpenPost
  <2>4. OneOpenOperation'
    BY <1>1 DEF IndInv, OneOpenOperation, NamesLiveOperation, LiveOperations
  <2>5. FilesAgree' BY <1>1 DEF IndInv, FilesAgree, NoOpenPost
  <2>6. Confirmed' BY <1>1 DEF IndInv, Confirmed
  <2>7. QED BY <2>1, <2>2, <2>3, <2>4, <2>5, <2>6 DEF IndInv
<1>2. CASE Next
  <2>1. TypeOK' BY <1>2, StepType DEF IndInv
  <2>2. Inv'
    BY <1>2, <2>1, StepPath, StepEvidence, StepNoEvidence, StepBegin, StepSend, StepRefused,
       StepQuiet, StepProcess, StepDies, StepEngine, StepPlatform, StepClock
    DEF Next, WorkerStep, RunningStep, JobStep
  <2>3. QED BY <2>1, <2>2 DEF Inv, IndInv
<1>3. QED BY <1>1, <1>2

\* The invariant holds in every reachable state.
LEMMA Invariance == Spec => []IndInv
BY InitInvariant, StepInvariant, PTL DEF Spec

\* Type correctness of the journaled submission path, its retry and
\* confirmation counters included.
THEOREM TypeCorrect == Spec => []TypeOK
<1>1. IndInv => TypeOK BY DEF IndInv
<1>2. QED BY <1>1, Invariance, PTL

\* The platform commits at most one submission POST per alpha, for any number of
\* alphas, retries, crashes and overwritten state files: two committed POSTs of
\* one alpha would both be live operations, and the journal holds at most one.
THEOREM OneEffectiveSubmission == Spec => []AtMostOneEffectiveSubmission
<1>1. IndInv => AtMostOneEffectiveSubmission
  <2> SUFFICES ASSUME IndInv, NEW i \in committed, NEW j \in committed,
                      journal[i].alpha = journal[j].alpha
               PROVE  i = j
    BY DEF AtMostOneEffectiveSubmission
  <2>1. journal[i].alpha \in Alphas BY EffectAlphas DEF IndInv
  <2>2. i \in LiveOperations(journal[i].alpha) /\ j \in LiveOperations(journal[i].alpha)
    BY DEF IndInv, OneOpenOperation
  <2>3. QED BY <2>1, <2>2 DEF IndInv, OneOpenOperation
<1>2. QED BY <1>1, Invariance, PTL

\* A job recorded as confirmed is submitted and credited, whoever wrote the file.
THEOREM ConfirmedJobsAreSubmitted == Spec => []ConfirmedIsSubmitted
<1>1. IndInv => ConfirmedIsSubmitted BY DEF IndInv, Confirmed, ConfirmedIsSubmitted
<1>2. QED BY <1>1, Invariance, PTL

\* A job recorded as rejected has no POST that is still open, whoever wrote the file.
THEOREM RejectedJobsHaveNoOpenPost == Spec => []RejectedHasNoOpenPost
<1>1. IndInv => RejectedHasNoOpenPost
  BY DEF IndInv, FilesAgree, NoOpenPost, RejectedHasNoOpenPost
<1>2. QED BY <1>1, Invariance, PTL

------------------------------------------------------------------------------
(* What a step does to the journal.                                        *)

\* What JournalSettles says of one step.
Settles ==
  /\ Len(journal) <= Len(journal')
  /\ \A i \in DOMAIN journal :
       /\ journal'[i].alpha = journal[i].alpha
       /\ journal[i].outcome \notin Ambiguous => journal'[i].outcome = journal[i].outcome

\* The row of an open operation is rewritten, never to a refusal once the
\* platform has committed the POST.
Rewrites(i) ==
  /\ RowRewritten(i)
  /\ journal' \in Seq(Operation)
  /\ journal[i].outcome \in Ambiguous
  /\ journal'[i].outcome \in Outcomes
  /\ journal'[i].outcome \in DeadOutcomes => i \notin committed
  /\ UNCHANGED committed

\* A step leaves the journal alone, begins an operation, or rewrites the row of
\* one that is still open.
LEMMA JournalStep ==
  ASSUME IndInv, Next
  PROVE  \/ UNCHANGED journal /\ (UNCHANGED committed \/ \E i \in wire : PlatformCommits(i))
         \/ BeginPost
         \/ \E i \in DOMAIN journal : Rewrites(i)
<1> USE DEF IndInv
<1>1. /\ wpc \in {"reconcile", "send", "await"} =>
           op \in DOMAIN journal /\ journal[op].outcome \in Ambiguous
      /\ wpc = "send" \/ reply \in Refusals => op \notin committed
  BY DEF Control, Ambiguous
<1>2. ASSUME NEW outcome \in Outcomes, FinishOperation(op, outcome), UNCHANGED committed,
             wpc \in {"reconcile", "send", "await"}, outcome \in DeadOutcomes => op \notin committed
      PROVE  \E i \in DOMAIN journal : Rewrites(i)
  BY <1>1, <1>2, FinishRewrites DEF Rewrites
<1>3. CASE ReconcileNoEvidence
  <2>1. op \in DOMAIN journal /\ journal[op].outcome \in Ambiguous /\ UNCHANGED committed
        /\ RecordReconciliationAttempt(op)
    BY <1>1, <1>3 DEF ReconcileNoEvidence
  <2>2. /\ journal' \in Seq(Operation) /\ RowRewritten(op)
        /\ journal'[op].outcome \in {"manual_review", "reconciliation_pending"}
    BY <2>1, AttemptRewrites DEF ReconciliationOutcome
  <2>3. QED BY <2>1, <2>2 DEF Rewrites, Outcomes, LiveOutcomes, DeadOutcomes, Ambiguous
<1>4. ASSUME NEW i \in DOMAIN journal, TimePasses(i)
      PROVE  Rewrites(i)
  BY <1>4, TimeRewrites
  DEF TimePasses, Rewrites, Outcomes, LiveOutcomes, DeadOutcomes, Ambiguous
<1>5. CASE ReconcilePositive \/ PostUncertain \/ PostAccepted
  <2>1. \E outcome \in {"accepted", "unknown_commit"} : FinishOperation(op, outcome)
    BY <1>5 DEF ReconcilePositive, PostUncertain, PostAccepted
  <2>2. wpc \in {"reconcile", "await"} /\ UNCHANGED committed
    BY <1>5 DEF ReconcilePositive, PostUncertain, PostAccepted
  <2>3. QED BY <1>2, <2>1, <2>2 DEF Outcomes, LiveOutcomes, DeadOutcomes, Ambiguous
<1>6. CASE PostThrottled \/ PostRejected \/ PostNotSent
  <2>1. \E outcome \in DeadOutcomes : FinishOperation(op, outcome)
    BY <1>6 DEF PostThrottled, PostRejected, PostNotSent, DeadOutcomes
  <2>2. wpc \in {"send", "await"} /\ UNCHANGED committed /\ op \notin committed
    BY <1>1, <1>6 DEF PostThrottled, PostRejected, PostNotSent, Refusals
  <2>3. QED BY <1>2, <2>1, <2>2 DEF Outcomes
<1>7. CASE \/ StartWorker \/ ReadState \/ WriteEnqueued \/ WriteState \/ Crash \/ EngineStep
           \/ ReconcileNotDue \/ LiveCheckReady \/ LiveCheckAlreadySubmitted
           \/ SendPost \/ ConfirmSubmitted \/ ConfirmThrottled \/ ConfirmCheckFailed
           \/ MarkSubmittedConfirmed
           \/ \E a \in Alphas, o \in 0..Len(journal) : ProcessJob(a, o) \/ ProcessManualReview(a, o)
           \/ \E status \in {"rejected", "waiting_for_checks"} : LiveCheckNotReady(status)
           \/ \E aged \in BOOLEAN : ConfirmNoEvidence(aged)
  BY <1>7
  DEF StartWorker, ReadState, WriteEnqueued, WriteState, Crash, EngineStep, WriteBacklog,
      EngineReadState, EngineWriteState, ReconcileNotDue, LiveCheckReady,
      LiveCheckAlreadySubmitted, SendPost, ConfirmSubmitted, ConfirmThrottled, ConfirmCheckFailed,
      MarkSubmittedConfirmed, ProcessJob, ProcessManualReview, LiveCheckNotReady, ConfirmNoEvidence
<1>8. CASE PlatformStep
  BY <1>8
  DEF PlatformStep, PlatformCommits, PlatformRefuses, PlatformSettles, SubmittedElsewhere
<1>9. QED
  BY <1>3, <1>4, <1>5, <1>6, <1>7, <1>8 DEF Next, WorkerStep, RunningStep, JobStep, ClockStep

\* No step of the specification rewrites a settled outcome.
LEMMA StepSettles == IndInv /\ [Next]_vars => [Settles]_vars
<1> SUFFICES ASSUME IndInv, Next PROVE Settles BY DEF Settles
<1> USE JournalRows DEF IndInv
<1>1. CASE UNCHANGED journal BY <1>1 DEF Settles
<1>2. CASE BeginPost
  <2>1. BeginOperation(cur) /\ cur \in Alphas BY <1>2 DEF BeginPost, Control, InJob
  <2>2. Len(journal') = Len(journal) + 1 BY <2>1 DEF BeginOperation, TypeOK
  <2>3. QED BY <2>1, <2>2, BeginAppends DEF Settles
<1>3. ASSUME NEW i \in DOMAIN journal, Rewrites(i)
      PROVE  Settles
  <2>1. Len(journal') = Len(journal) BY <1>3 DEF Rewrites, RowRewritten, TypeOK
  <2>2. QED BY <1>3, <2>1 DEF Settles, Rewrites, RowRewritten
<1>4. QED BY <1>1, <1>2, <1>3, JournalStep

\* The journal never loses a row and never rewrites a settled outcome.
THEOREM JournalIsSettled == Spec => JournalSettles
<1>1. [][Settles]_vars <=> JournalSettles BY DEF Settles, JournalSettles
<1>2. QED BY <1>1, Invariance, StepSettles, PTL DEF Spec

-----------------------------------------------------------------------------
(***************************************************************************)
(* The journaled submission path implements SubmissionOnce.  With at most  *)
(* one live operation per alpha, the outcome of that operation is all the  *)
(* run knows of the alpha, so every step of the path is a step of the      *)
(* abstract specification for one alpha, or a stutter.                     *)
(***************************************************************************)
\* The refinement mapping, by name.
K(a) == DurableKnowledge(a)
Effects(a) == {i \in committed : journal[i].alpha = a}

\* What one outcome tells of the alpha.
Tells(outcome) ==
  IF outcome = "accepted" THEN "accepted"
  ELSE IF outcome = "manual_review" THEN "review"
  ELSE "in_doubt"

\* With one live operation, its outcome is what is known of the alpha.
LEMMA KnowledgeOfOne ==
  ASSUME NEW a \in Alphas, NEW i, LiveOperations(a) = {i}
  PROVE  K(a) = Tells(journal[i].outcome)
<1>1. journal[i].outcome \in LiveOutcomes BY DEF LiveOperations
<1>2. QED BY <1>1 DEF K, DurableKnowledge, Tells, LiveOutcomes, Ambiguous

\* Without a live operation, the alpha is open.
LEMMA KnowledgeOfNone ==
  ASSUME NEW a \in Alphas, LiveOperations(a) = {}
  PROVE  K(a) = "open"
BY DEF K, DurableKnowledge

\* An alpha whose journal rows do not change keeps what is known of it.
LEMMA KnowledgeKept ==
  ASSUME NEW a \in Alphas, LiveOperations(a)' = LiveOperations(a),
         \A i \in LiveOperations(a) : journal'[i].outcome = journal[i].outcome
  PROVE  K(a)' = K(a)
<1>1. \A outcomes : (\E i \in LiveOperations(a)' : journal'[i].outcome \in outcomes)
                    <=> (\E i \in LiveOperations(a) : journal[i].outcome \in outcomes)
  OBVIOUS
<1>2. QED BY <1>1 DEF K, DurableKnowledge

\* A live operation is the only one of its alpha.
LEMMA OneLive ==
  ASSUME IndInv, NEW i \in DOMAIN journal, journal[i].outcome \in LiveOutcomes
  PROVE  journal[i].alpha \in Alphas /\ LiveOperations(journal[i].alpha) = {i}
<1>1. journal[i].alpha \in Alphas BY JournalRows DEF IndInv, Operation
<1>2. i \in LiveOperations(journal[i].alpha) BY DEF LiveOperations
<1>3. QED BY <1>1, <1>2 DEF IndInv, OneOpenOperation

KnowledgeMap == [a \in Alphas |-> DurableKnowledge(a)]
EffectsMap == [a \in Alphas |-> Cardinality({i \in committed : journal[i].alpha = a})]

AbstractStep == Once!OnceNext \/ UNCHANGED <<KnowledgeMap, EffectsMap>>

\* A step that changes what is known of one alpha, and no effect.
LEMMA LearnStep ==
  ASSUME NEW c \in Alphas, \A a \in Alphas \ {c} : K(a)' = K(a), UNCHANGED EffectsMap,
         \/ K(c)' = K(c)
         \/ K(c) = "open" /\ K(c)' = "in_doubt"
         \/ K(c) = "in_doubt" /\ K(c)' \in {"accepted", "review"}
         \/ K(c) = "in_doubt" /\ K(c)' = "open" /\ Effects(c) = {}
  PROVE  AbstractStep
<1>1. KnowledgeMap' = [KnowledgeMap EXCEPT ![c] = K(c)'] BY DEF KnowledgeMap, K
<1>2. KnowledgeMap[c] = K(c) BY DEF KnowledgeMap, K
<1>3. CASE K(c)' = K(c)
  <2>1. KnowledgeMap' = KnowledgeMap BY <1>1, <1>2, <1>3 DEF KnowledgeMap
  <2>2. QED BY <2>1 DEF AbstractStep
<1>4. CASE K(c) = "open" /\ K(c)' = "in_doubt"
  <2>1. Once!Attempt(c)
    BY <1>1, <1>2, <1>4 DEF Once!Attempt, Once!Learn, KnowledgeMap, EffectsMap
  <2>2. QED BY <2>1 DEF AbstractStep, Once!OnceNext
<1>5. CASE K(c) = "in_doubt" /\ K(c)' \in {"accepted", "review"}
  <2>1. Once!Prove(c) \/ Once!GiveUp(c)
    BY <1>1, <1>2, <1>5 DEF Once!Prove, Once!GiveUp, Once!Learn, KnowledgeMap, EffectsMap
  <2>2. QED BY <2>1 DEF AbstractStep, Once!OnceNext
<1>6. CASE K(c) = "in_doubt" /\ K(c)' = "open" /\ Effects(c) = {}
  <2>1. EffectsMap[c] = 0
    BY <1>6, FS_EmptySet DEF EffectsMap, Effects
  <2>2. Once!Disprove(c)
    BY <1>1, <1>2, <1>6, <2>1 DEF Once!Disprove, Once!Learn, KnowledgeMap, EffectsMap
  <2>3. QED BY <2>2 DEF AbstractStep, Once!OnceNext
<1>7. QED BY <1>3, <1>4, <1>5, <1>6

\* A step that rewrites the row of an open operation proves it, disproves it,
\* gives it up or leaves it in doubt.
LEMMA RewriteLearns ==
  ASSUME IndInv, NEW i \in DOMAIN journal, Rewrites(i)
  PROVE  AbstractStep
<1> USE DEF Rewrites
<1>1. PICK c \in Alphas : c = journal[i].alpha
  BY OneLive DEF LiveOutcomes
<1>2. LiveOperations(c) = {i} /\ K(c) = "in_doubt"
  BY <1>1, OneLive, KnowledgeOfOne DEF LiveOutcomes, Tells, Ambiguous
<1>3. \A a \in Alphas \ {c} : K(a)' = K(a)
  <2>1. TAKE a \in Alphas \ {c}
  <2>2. i \notin LiveOperations(a) BY <1>1 DEF LiveOperations
  <2>3. LiveOperations(a)' = LiveOperations(a)
    BY <1>1, <2>2 DEF LiveOperations, RowRewritten
  <2>4. \A k \in LiveOperations(a) : journal'[k].outcome = journal[k].outcome
    BY <2>2 DEF LiveOperations, RowRewritten
  <2>5. QED BY <2>3, <2>4, KnowledgeKept
<1>4. UNCHANGED EffectsMap
  <2>1. \A k \in committed : journal'[k].alpha = journal[k].alpha
    BY DEF IndInv, TypeOK, RowRewritten
  <2>2. \A a \in Alphas : {k \in committed' : journal'[k].alpha = a}
                          = {k \in committed : journal[k].alpha = a}
    BY <2>1
  <2>3. QED BY <2>2 DEF EffectsMap
<1>5. CASE journal'[i].outcome \in DeadOutcomes
  <2>1. LiveOperations(c)' = {}
    BY <1>2, <1>5, DeadRewrite DEF IndInv, DeadOutcomes, LiveOutcomes, Ambiguous
  <2>2. K(c)' = "open" BY <2>1 DEF K, DurableKnowledge
  <2>3. \A k \in committed : journal[k].alpha = c => k = i
    BY <1>1, <1>2 DEF IndInv, OneOpenOperation
  <2>4. Effects(c) = {} BY <1>5, <2>3 DEF Effects
  <2>5. QED BY <1>2, <1>3, <1>4, <2>2, <2>4, LearnStep
<1>6. CASE journal'[i].outcome \in LiveOutcomes
  <2>1. K(c)' \in {"open", "accepted", "review", "in_doubt"}
    BY DEF K, DurableKnowledge
  <2>2. LiveOperations(c)' = {i}
    BY <1>2, <1>6, LiveRewrite DEF IndInv, LiveOutcomes
  <2>3. K(c)' # "open"
    BY <1>6, <2>2 DEF K, DurableKnowledge, LiveOutcomes, Ambiguous
  <2>4. QED BY <1>2, <1>3, <1>4, <2>1, <2>3, LearnStep
<1>7. QED BY <1>5, <1>6 DEF Outcomes

\* An operation is begun only for an alpha that is open.
LEMMA BeginLearns ==
  ASSUME IndInv, BeginPost
  PROVE  AbstractStep
<1> USE DEF IndInv
<1> DEFINE n == Len(journal) + 1
<1>1. PICK c \in Alphas : LiveOperations(c) = {} /\ BeginOperation(c) /\ UNCHANGED committed
  BY DEF Control, InJob, BeginPost, platformVars
<1>2. /\ DOMAIN journal' = DOMAIN journal \cup {n} /\ n \notin DOMAIN journal
      /\ \A k \in DOMAIN journal : journal'[k] = journal[k]
      /\ journal'[n].alpha = c /\ journal'[n].outcome = "started"
  BY <1>1, BeginAppends
<1> HIDE DEF n
<1>3. LiveOperations(c)' = {n}
  BY <1>1, <1>2 DEF LiveOperations, LiveOutcomes, Ambiguous
<1>4. K(c) = "open" /\ K(c)' = "in_doubt"
  BY <1>1, <1>2, <1>3 DEF K, DurableKnowledge, Ambiguous
<1>5. \A a \in Alphas \ {c} : K(a)' = K(a)
  <2>1. TAKE a \in Alphas \ {c}
  <2>2. LiveOperations(a)' = LiveOperations(a) BY <1>2 DEF LiveOperations
  <2>3. \A k \in LiveOperations(a) : journal'[k].outcome = journal[k].outcome
    BY <1>2 DEF LiveOperations
  <2>4. QED BY <2>2, <2>3, KnowledgeKept
<1>6. UNCHANGED EffectsMap
  <2>1. \A k \in committed : journal'[k].alpha = journal[k].alpha
    BY <1>2 DEF TypeOK
  <2>2. \A a \in Alphas : {k \in committed' : journal'[k].alpha = a}
                          = {k \in committed : journal[k].alpha = a}
    BY <1>1, <2>1
  <2>3. QED BY <2>2 DEF EffectsMap
<1>7. QED BY <1>4, <1>5, <1>6, LearnStep

\* The first commit of an alpha, while its operation is live.
LEMMA CommitTakesEffect ==
  ASSUME IndInv, NEW i \in wire, PlatformCommits(i)
  PROVE  AbstractStep
<1> USE DEF IndInv
<1>1. PICK c \in Alphas : c = journal[i].alpha
  BY EffectAlphas
<1>2. LiveOperations(c) = {i} /\ i \notin committed
  BY <1>1 DEF OneOpenOperation
<1>3. UNCHANGED journal /\ committed' = committed \cup {i}
  BY DEF PlatformCommits
<1>4. \A k \in committed : journal[k].alpha # c
  BY <1>1, <1>2 DEF OneOpenOperation
<1>5. Effects(c) = {} /\ Effects(c)' = {i}
  BY <1>1, <1>3, <1>4 DEF Effects
<1>6. \A a \in Alphas \ {c} : Effects(a)' = Effects(a)
  BY <1>1, <1>3 DEF Effects
<1>7. EffectsMap[c] = 0 /\ EffectsMap' = [EffectsMap EXCEPT ![c] = 1]
  <2>1. Cardinality(Effects(c)) = 0 /\ Cardinality(Effects(c)') = 1
    BY <1>5, FS_EmptySet, FS_Singleton
  <2>2. /\ EffectsMap = [a \in Alphas |-> Cardinality(Effects(a))]
        /\ EffectsMap' = [a \in Alphas |-> Cardinality(Effects(a)')]
    BY DEF EffectsMap, Effects
  <2>3. QED BY <1>6, <2>1, <2>2
<1>8. \A a \in Alphas : K(a)' = K(a)
  BY <1>3, SameJournal, KnowledgeKept
<1>9. KnowledgeMap' = KnowledgeMap BY <1>8 DEF KnowledgeMap, K
<1>10. K(c) # "open"
  BY <1>2 DEF K, DurableKnowledge, LiveOperations, LiveOutcomes
<1>11. Once!TakeEffect(c)
  BY <1>7, <1>9, <1>10 DEF Once!TakeEffect, KnowledgeMap, EffectsMap, K
<1>12. QED BY <1>11 DEF AbstractStep, Once!OnceNext

\* Every step of the worker, the engine and the platform is an abstract step or a stutter.
LEMMA StepImplements == IndInv /\ [Next]_vars => [Once!OnceNext]_(Once!onceVars)
<1> SUFFICES ASSUME IndInv, [Next]_vars PROVE AbstractStep
  BY DEF AbstractStep, Once!onceVars, KnowledgeMap, EffectsMap
<1>1. CASE UNCHANGED <<journal, committed>>
  <2>1. \A a \in Alphas : K(a)' = K(a) BY <1>1, SameJournal, KnowledgeKept
  <2>2. UNCHANGED KnowledgeMap BY <2>1 DEF KnowledgeMap, K
  <2>3. UNCHANGED EffectsMap BY <1>1 DEF EffectsMap
  <2>4. QED BY <2>2, <2>3 DEF AbstractStep
<1>2. CASE UNCHANGED vars
  <2>1. UNCHANGED <<journal, committed>> BY <1>2 DEF vars, platformVars
  <2>2. QED BY <1>1, <2>1
<1>3. CASE Next
  BY <1>1, <1>3, JournalStep, BeginLearns, RewriteLearns, CommitTakesEffect
<1>4. QED BY <1>2, <1>3

\* Initially every alpha is open and nothing has taken effect.
LEMMA InitImplements == Init => Once!OnceInit
<1> SUFFICES ASSUME Init PROVE Once!OnceInit OBVIOUS
<1>1. \A a \in Alphas : K(a) = "open"
  BY KnowledgeOfNone DEF Init, LiveOperations
<1>2. \A a \in Alphas : Cardinality({i \in committed : journal[i].alpha = a}) = 0
  <2>1. \A a \in Alphas : {i \in committed : journal[i].alpha = a} = {} BY DEF Init
  <2>2. QED BY <2>1, FS_EmptySet
<1>3. QED BY <1>1, <1>2 DEF Once!OnceInit, K

\* The journal, the worker's ticks, the engine's overwrites, the crashes and the
\* platform together implement SubmissionOnce: after a POST, only a proof that it
\* had no effect opens the way to another one, and at most one ever takes effect.
THEOREM SubmissionImplementsOnce == Spec => ImplementsSubmissionOnce
BY InitImplements, StepImplements, Invariance, PTL DEF Spec, ImplementsSubmissionOnce, Once!OnceSpec

-----------------------------------------------------------------------------
(***************************************************************************)
(* Jobs that ticks make from the backlog they wrote never double, for any  *)
(* number of runs, alphas, decisions, deaths and failing fetches.  The     *)
(* argument: what a tick's snapshot leaves has no job of a tick that is    *)
(* not failed, a failed job stays failed, and until an intent is appended  *)
(* the backlog of the tick's run holds nothing but the snapshot.           *)
(***************************************************************************)
BacklogRows == [alpha : ReadyAlphas, decision : Decisions \cup {NoDecision}]
Statuses == {"none", "active", "submitted", "failed"}

\* What IntakeTypeOK leaves out of the executor, the tick and the history.
PartsTypeOK ==
  /\ readRows \subseteq BacklogRows
  /\ intent.at # "off" =>
       /\ intent.alpha \in ReadyAlphas /\ intent.decision \in Decisions /\ intent.run \in Runs
  /\ engineTick.at # "idle" => engineTick.run \in Runs
  /\ ready \in [Runs -> SUBSET ReadyAlphas]
  /\ rewritten \in BOOLEAN /\ byTick \subseteq Runs \X ReadyAlphas

\* A tick's job is a job, and jobs never go away.
TickJobsExist == \A r \in Runs, a \in ReadyAlphas : <<r, a>> \in byTick => jobsOf[r][a] # "none"

\* An alpha that the tick has found ready has no other tick's job but failed ones.
SnapshotIsFree ==
  engineTick.at # "idle" =>
    \A r \in Runs, a \in snapshot : <<r, a>> \in byTick => jobsOf[r][a] = "failed"

\* The tick's backlog holds what its triage wrote until an intent comes in.
BacklogIsSnapshot ==
  engineTick.at = "submission" /\ ~rewritten =>
    \A row \in backlogOf[engineTick.run] : row.alpha \in snapshot

IntakeInv ==
  /\ IntakeTypeOK /\ PartsTypeOK
  /\ TickJobsExist /\ SnapshotIsFree /\ BacklogIsSnapshot /\ OneTickOwner

-----------------------------------------------------------------------------
\* The jobs that WithJobs makes are new, those that were there stay as they are.
LEMMA WithJobsAdds ==
  ASSUME IntakeTypeOK, NEW r \in Runs
  PROVE  /\ WithJobs(r) \in [Runs -> [ReadyAlphas -> Statuses]]
         /\ \A s \in Runs, a \in ReadyAlphas :
              \/ WithJobs(r)[s][a] = jobsOf[s][a]
              \/ /\ s = r /\ a \in GetsJob(r)
                 /\ jobsOf[s][a] = "none" /\ WithJobs(r)[s][a] = "active"
                 /\ \E row \in backlogOf[r] : row.alpha = a
         /\ GetsJob(r) \subseteq ReadyAlphas
         /\ \A a \in GetsJob(r) :
              /\ jobsOf[r][a] = "none" /\ WithJobs(r)[r][a] = "active"
              /\ \E row \in backlogOf[r] : row.alpha = a
<1> DEFINE Column == [a \in ReadyAlphas |->
             IF jobsOf[r][a] = "none" /\ \E row \in backlogOf[r] : row.alpha = a
               THEN "active" ELSE jobsOf[r][a]]
<1>1. jobsOf \in [Runs -> [ReadyAlphas -> Statuses]]
  BY DEF IntakeTypeOK, Statuses
<1>2. Column \in [ReadyAlphas -> Statuses]
  BY <1>1 DEF Statuses
<1>3. WithJobs(r) = [jobsOf EXCEPT ![r] = Column]
  BY <1>1 DEF WithJobs
<1>4. WithJobs(r) \in [Runs -> [ReadyAlphas -> Statuses]]
  BY <1>1, <1>2, <1>3
<1>5. \A s \in Runs : WithJobs(r)[s] = IF s = r THEN Column ELSE jobsOf[s]
  BY <1>1, <1>3
<1>6. \A a \in ReadyAlphas :
        Column[a] = IF jobsOf[r][a] = "none" /\ \E row \in backlogOf[r] : row.alpha = a
                      THEN "active" ELSE jobsOf[r][a]
  OBVIOUS
<1> HIDE DEF Column
<1>7. \A a \in GetsJob(r) :
        /\ a \in ReadyAlphas /\ jobsOf[r][a] = "none" /\ WithJobs(r)[r][a] = "active"
        /\ \E row \in backlogOf[r] : row.alpha = a
  BY <1>5, <1>6 DEF GetsJob
<1>8. \A s \in Runs, a \in ReadyAlphas :
        \/ WithJobs(r)[s][a] = jobsOf[s][a]
        \/ /\ s = r /\ a \in GetsJob(r)
           /\ jobsOf[s][a] = "none" /\ WithJobs(r)[s][a] = "active"
           /\ \E row \in backlogOf[r] : row.alpha = a
  BY <1>5, <1>6 DEF GetsJob
<1> QED
  BY <1>4, <1>7, <1>8

\* At the start there are no jobs and no tick.
LEMMA IntakeInitInv == IntakeInit => IntakeInv
<1> SUFFICES ASSUME IntakeInit PROVE IntakeInv
  OBVIOUS
<1> USE DEF IntakeInit
<1>1. IntakeTypeOK
  BY IntakeConstants DEF IntakeConstants, IntakeTypeOK, NoIntent
<1>2. PartsTypeOK
  BY DEF PartsTypeOK, NoIntent
<1>3. TickJobsExist /\ SnapshotIsFree /\ BacklogIsSnapshot /\ OneTickOwner
  BY DEF TickJobsExist, SnapshotIsFree, BacklogIsSnapshot, OneTickOwner
<1> QED
  BY <1>1, <1>2, <1>3 DEF IntakeInv

-----------------------------------------------------------------------------
\* Steps that leave tick, backlogs, jobs and history alone.
LEMMA ElsewhereKeepsInv ==
  ASSUME IntakeInv, IntakeTypeOK', PartsTypeOK',
         UNCHANGED <<backlogOf, jobsOf, engineTick, snapshot, rewritten, byTick>>
  PROVE  IntakeInv'
BY DEF IntakeInv, TickJobsExist, SnapshotIsFree, BacklogIsSnapshot, OneTickOwner

\* The registry worker, its state file, and faults of the fetch.
LEMMA RegistryKeepsInv ==
  ASSUME IntakeInv, RefreshStep \/ FetchesNothing \/ FetchFails \/ FetchDies \/ StateAges
  PROVE  IntakeInv'
<1> USE IntakeConstants DEF IntakeConstants, files, worker, engine, executor, history, Fault,
        IntakeInv, IntakeTypeOK, PartsTypeOK
<1>1. CASE Fetches
  BY <1>1, ElsewhereKeepsInv DEF Fetches
<1>2. CASE Tears
  BY <1>2, ElsewhereKeepsInv DEF Tears
<1>3. CASE Refreshes
  BY <1>3, ElsewhereKeepsInv DEF Refreshes
<1>4. CASE FetchesNothing
  BY <1>4, ElsewhereKeepsInv DEF FetchesNothing
<1>5. CASE FetchFails
  BY <1>5, ElsewhereKeepsInv DEF FetchFails
<1>6. CASE FetchDies
  BY <1>6, ElsewhereKeepsInv DEF FetchDies
<1>7. CASE StateAges
  BY <1>7, ElsewhereKeepsInv DEF StateAges
<1> QED
  BY <1>1, <1>2, <1>3, <1>4, <1>5, <1>6, <1>7 DEF RefreshStep

\* The executor writes a backlog only when it appends, and then says so.
LEMMA IntentKeepsInv ==
  ASSUME IntakeInv,
         IntentStep \/ ExecutorDies
           \/ \E r \in Runs, d \in Decisions, a \in ReadyAlphas : Decide(r, d, a)
  PROVE  IntakeInv'
<1> USE IntakeConstants DEF IntakeConstants, files, worker, engine, executor, history, Fault
<1>1. ASSUME NEW r \in Runs, NEW d \in Decisions, NEW a \in ReadyAlphas, Decide(r, d, a)
      PROVE  IntakeInv'
  BY <1>1, ElsewhereKeepsInv DEF Decide, IntakeInv, IntakeTypeOK, PartsTypeOK
<1>2. CASE ReadsBacklog
  BY <1>2, ElsewhereKeepsInv DEF ReadsBacklog, IntakeInv, IntakeTypeOK, PartsTypeOK, BacklogRows
<1>3. CASE Blocks
  BY <1>3, ElsewhereKeepsInv DEF Blocks, NoIntent, IntakeInv, IntakeTypeOK, PartsTypeOK
<1>4. CASE ExecutorDies
  BY <1>4, ElsewhereKeepsInv DEF ExecutorDies, NoIntent, IntakeInv, IntakeTypeOK, PartsTypeOK
<1>5. CASE Appends
  <2> USE DEF Appends, IntakeInv
  <2>1. readRows \cup {Row(intent.alpha, intent.decision)} \subseteq BacklogRows
    BY <1>5 DEF PartsTypeOK, BacklogRows, Row
  <2>2. IntakeTypeOK' /\ PartsTypeOK'
    BY <1>5, <2>1 DEF IntakeTypeOK, PartsTypeOK, BacklogRows, NoIntent
  <2>3. BacklogIsSnapshot'
    BY <1>5 DEF BacklogIsSnapshot, PartsTypeOK, IntakeTypeOK
  <2>4. TickJobsExist' /\ SnapshotIsFree' /\ OneTickOwner'
    BY <1>5 DEF TickJobsExist, SnapshotIsFree, OneTickOwner
  <2> QED
    BY <2>2, <2>3, <2>4
<1> QED
  BY <1>1, <1>2, <1>3, <1>4, <1>5 DEF IntentStep

-----------------------------------------------------------------------------
\* The tick, the jobs it makes, and its death.
LEMMA TickKeepsInv ==
  ASSUME IntakeInv, TickStep \/ EngineDies
  PROVE  IntakeInv'
<1> USE IntakeConstants
    DEF IntakeConstants, files, worker, engine, executor, history, Fault, IntakeInv
<1>1. ASSUME NEW r \in Runs, RegistryStage(r) PROVE IntakeInv'
  <2>1. IntakeTypeOK' /\ PartsTypeOK'
    BY <1>1 DEF RegistryStage, SubmitReady, IntakeTypeOK, PartsTypeOK
  <2>2. ASSUME NEW s \in Runs, NEW a \in snapshot', <<s, a>> \in byTick'
        PROVE  jobsOf'[s][a] = "failed"
    <3>1. a \in ReadyAlphas /\ jobsOf[s][a] \notin {"active", "submitted"}
      BY <1>1, <2>2 DEF RegistryStage, SubmitReady, Registered, OwnedBy, PartsTypeOK
    <3> QED
      BY <1>1, <2>2, <3>1 DEF RegistryStage, TickJobsExist, IntakeTypeOK
  <2>3. SnapshotIsFree'
    BY <2>2 DEF SnapshotIsFree
  <2>4. TickJobsExist' /\ BacklogIsSnapshot' /\ OneTickOwner'
    BY <1>1 DEF RegistryStage, TickJobsExist, BacklogIsSnapshot, OneTickOwner
  <2> QED
    BY <2>1, <2>3, <2>4
<1>2. CASE Triage
  <2>1. {Row(a, NoDecision) : a \in snapshot} \subseteq BacklogRows
    BY DEF Row, BacklogRows, IntakeTypeOK
  <2>2. engineTick.run \in Runs
    BY <1>2 DEF Triage, PartsTypeOK
  <2>3. IntakeTypeOK' /\ PartsTypeOK'
    BY <1>2, <2>1, <2>2 DEF Triage, IntakeTypeOK, PartsTypeOK, BacklogRows
  <2>4. backlogOf'[engineTick'.run] = {Row(a, NoDecision) : a \in snapshot'}
    BY <1>2, <2>2 DEF Triage, IntakeTypeOK
  <2>5. BacklogIsSnapshot'
    BY <2>4 DEF BacklogIsSnapshot, Row
  <2>6. TickJobsExist' /\ SnapshotIsFree' /\ OneTickOwner'
    BY <1>2 DEF Triage, TickJobsExist, SnapshotIsFree, OneTickOwner
  <2> QED
    BY <2>3, <2>5, <2>6
<1>3. CASE SubmissionStage
  <2> DEFINE run == engineTick.run
  <2>1. run \in Runs /\ engineTick.at = "submission"
    BY <1>3 DEF SubmissionStage, PartsTypeOK
  <2>2. CASE UNCHANGED <<jobsOf, byTick>>
    <3>1. IntakeTypeOK' /\ PartsTypeOK'
      BY <1>3, <2>2 DEF SubmissionStage, IntakeTypeOK, PartsTypeOK
    <3> QED
      BY <1>3, <2>2, <3>1
      DEF SubmissionStage, TickJobsExist, SnapshotIsFree, BacklogIsSnapshot, OneTickOwner
  <2>3. CASE /\ jobsOf' = WithJobs(run)
             /\ byTick' = byTick \cup (IF rewritten THEN {} ELSE {run} \X GetsJob(run))
    <3>1. /\ jobsOf' \in [Runs -> [ReadyAlphas -> Statuses]]
          /\ \A s \in Runs, a \in ReadyAlphas :
               jobsOf'[s][a] = jobsOf[s][a] \/ (jobsOf[s][a] = "none" /\ jobsOf'[s][a] = "active")
          /\ GetsJob(run) \subseteq ReadyAlphas
      BY <2>1, <2>3, WithJobsAdds
    <3>2. IntakeTypeOK' /\ PartsTypeOK'
      BY <1>3, <2>1, <2>3, <3>1 DEF SubmissionStage, IntakeTypeOK, PartsTypeOK, Statuses
    <3>3. \A a \in GetsJob(run) : jobsOf[run][a] = "none" /\ jobsOf'[run][a] = "active"
      BY <2>1, <2>3, WithJobsAdds
    <3>4. TickJobsExist'
      BY <2>3, <3>1, <3>3 DEF TickJobsExist
    <3>5. ASSUME ~rewritten, NEW a \in GetsJob(run), NEW s \in Runs, <<s, a>> \in byTick
          PROVE  jobsOf'[s][a] = "failed"
      <4>1. a \in ReadyAlphas /\ \E row \in backlogOf[run] : row.alpha = a
        BY <2>1, <3>5, WithJobsAdds
      <4>2. a \in snapshot
        BY <2>1, <3>5, <4>1 DEF BacklogIsSnapshot
      <4> QED
        BY <2>1, <3>1, <3>5, <4>1, <4>2 DEF SnapshotIsFree
    <3>6. OneTickOwner'
      <4> SUFFICES ASSUME NEW r \in Runs, NEW s \in Runs, NEW a \in ReadyAlphas, r # s,
                          <<r, a>> \in byTick', <<s, a>> \in byTick', jobsOf'[r][a] = "active"
                   PROVE  jobsOf'[s][a] # "active"
        BY DEF OneTickOwner
      <4>1. CASE <<r, a>> \in byTick /\ <<s, a>> \in byTick
        BY <4>1, <3>1 DEF OneTickOwner, TickJobsExist
      <4>2. CASE <<r, a>> \notin byTick
        BY <2>3, <3>5, <4>2
      <4>3. CASE <<s, a>> \notin byTick
        BY <2>3, <3>5, <4>3
      <4> QED
        BY <4>1, <4>2, <4>3
    <3>7. SnapshotIsFree' /\ BacklogIsSnapshot'
      BY <1>3 DEF SubmissionStage, SnapshotIsFree, BacklogIsSnapshot
    <3> QED
      BY <3>2, <3>4, <3>6, <3>7
  <2> QED
    BY <1>3, <2>2, <2>3 DEF SubmissionStage
<1>4. CASE EngineDies
  <2>1. IntakeTypeOK' /\ PartsTypeOK'
    BY <1>4 DEF EngineDies, IntakeTypeOK, PartsTypeOK
  <2> QED
    BY <1>4, <2>1
    DEF EngineDies, TickJobsExist, SnapshotIsFree, BacklogIsSnapshot, OneTickOwner
<1> QED
  BY <1>1, <1>2, <1>3, <1>4 DEF TickStep

\* Jobs that a worker makes are no tick's, and what a tick has ended stays ended.
LEMMA JobsKeepInv ==
  ASSUME IntakeInv,
         \E r \in Runs : WorkerEnqueues(r) \/ \E a \in ReadyAlphas : JobEnds(r, a)
  PROVE  IntakeInv'
<1> USE DEF worker, engine, executor, history, IntakeInv
<1>1. ASSUME NEW r \in Runs, WorkerEnqueues(r) PROVE IntakeInv'
  <2>1. /\ jobsOf' \in [Runs -> [ReadyAlphas -> Statuses]]
        /\ \A s \in Runs, a \in ReadyAlphas :
             jobsOf'[s][a] = jobsOf[s][a] \/ (jobsOf[s][a] = "none" /\ jobsOf'[s][a] = "active")
    BY <1>1, WithJobsAdds DEF WorkerEnqueues
  <2>2. IntakeTypeOK' /\ PartsTypeOK'
    BY <1>1, <2>1 DEF WorkerEnqueues, IntakeTypeOK, PartsTypeOK, Statuses
  <2>3. \A s \in Runs, a \in ReadyAlphas : <<s, a>> \in byTick' => jobsOf'[s][a] = jobsOf[s][a]
    BY <1>1, <2>1 DEF WorkerEnqueues, TickJobsExist
  <2>4. TickJobsExist' /\ OneTickOwner'
    BY <1>1, <2>3 DEF WorkerEnqueues, TickJobsExist, OneTickOwner
  <2>5. SnapshotIsFree'
    BY <1>1, <2>3 DEF WorkerEnqueues, SnapshotIsFree, IntakeTypeOK
  <2>6. BacklogIsSnapshot'
    BY <1>1 DEF WorkerEnqueues, BacklogIsSnapshot
  <2> QED
    BY <2>2, <2>4, <2>5, <2>6
<1>2. ASSUME NEW r \in Runs, NEW a \in ReadyAlphas, JobEnds(r, a) PROVE IntakeInv'
  <2>1. /\ jobsOf' \in [Runs -> [ReadyAlphas -> Statuses]]
        /\ \A s \in Runs, b \in ReadyAlphas :
             \/ jobsOf'[s][b] = jobsOf[s][b]
             \/ jobsOf[s][b] = "active" /\ jobsOf'[s][b] \in {"submitted", "failed"}
    <3>1. PICK end \in {"submitted", "failed"} : jobsOf' = [jobsOf EXCEPT ![r][a] = end]
      BY <1>2 DEF JobEnds
    <3>2. jobsOf \in [Runs -> [ReadyAlphas -> Statuses]] /\ jobsOf[r][a] = "active"
      BY <1>2 DEF JobEnds, IntakeTypeOK, Statuses
    <3> QED
      BY <3>1, <3>2 DEF Statuses
  <2>2. IntakeTypeOK' /\ PartsTypeOK'
    BY <1>2, <2>1 DEF JobEnds, IntakeTypeOK, PartsTypeOK, Statuses
  <2>3. \A s \in Runs, b \in ReadyAlphas :
          /\ jobsOf'[s][b] = "active" => jobsOf[s][b] = "active"
          /\ jobsOf[s][b] = "failed" => jobsOf'[s][b] = "failed"
          /\ jobsOf[s][b] # "none" => jobsOf'[s][b] # "none"
    BY <2>1
  <2>4. TickJobsExist' /\ OneTickOwner'
    BY <1>2, <2>3 DEF JobEnds, TickJobsExist, OneTickOwner
  <2>5. SnapshotIsFree'
    BY <1>2, <2>3 DEF JobEnds, SnapshotIsFree, IntakeTypeOK
  <2>6. BacklogIsSnapshot'
    BY <1>2 DEF JobEnds, BacklogIsSnapshot
  <2> QED
    BY <2>2, <2>4, <2>5, <2>6
<1> QED
  BY <1>1, <1>2

\* Every step keeps the invariant.
LEMMA IntakeStepInv == IntakeInv /\ [IntakeNext]_intakeVars => IntakeInv'
<1> SUFFICES ASSUME IntakeInv, [IntakeNext]_intakeVars PROVE IntakeInv'
  OBVIOUS
<1>1. CASE UNCHANGED intakeVars
  <2>1. IntakeTypeOK' /\ PartsTypeOK'
    BY <1>1 DEF intakeVars, files, worker, engine, executor, history,
                IntakeInv, IntakeTypeOK, PartsTypeOK
  <2> QED
    BY <1>1, <2>1, ElsewhereKeepsInv DEF intakeVars, files, engine, history
<1>2. CASE IntakeNext
  BY <1>2, TickKeepsInv, RegistryKeepsInv, JobsKeepInv, IntentKeepsInv DEF IntakeNext
<1> QED
  BY <1>1, <1>2

-----------------------------------------------------------------------------
\* Registry, backlogs, jobs, tick and executor keep their types.
THEOREM IntakeTypeCorrect == IntakeSpec => []IntakeTypeOK
<1>1. IntakeInv => IntakeTypeOK
  BY DEF IntakeInv
<1> QED
  BY <1>1, IntakeInitInv, IntakeStepInv, PTL DEF IntakeSpec

\* Jobs that ticks make from the backlog they wrote never double: an alpha that a
\* job of one run's tick owns is not taken up by the tick of another.
THEOREM OneTickOwnerHolds == IntakeSpec => []OneTickOwner
<1>1. IntakeInv => OneTickOwner
  BY DEF IntakeInv
<1> QED
  BY <1>1, IntakeInitInv, IntakeStepInv, PTL DEF IntakeSpec
=============================================================================
