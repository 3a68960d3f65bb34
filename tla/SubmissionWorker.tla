--------------------------- MODULE SubmissionWorker ---------------------------
(***************************************************************************)
(* The journaled submission path of one run directory:                     *)
(*   - scripts/submit/submission_worker.py, the worker that owns the ticks;*)
(*   - WQBSession.submit_alpha and WQBClient.submit_alpha, the POST;       *)
(*   - OperationJournal, the SQLite record of every POST;                  *)
(*   - the workflow engine, which enqueues jobs from the backlog without   *)
(*     holding the worker's lock;                                          *)
(*   - the BRAIN platform and the network, external.                       *)
(*                                                                         *)
(* The worker keeps its jobs in memory for a whole tick and writes         *)
(* submission_state.json only at the tick's end; the journal is written    *)
(* before and after each POST.  An exception that leaves run_once ends the *)
(* process (main), so it is the same step as a crash: memory is lost, the  *)
(* files, the journal and the messages on the wire stay.                   *)
(*                                                                         *)
(* Statuses that a tick always overwrites before it ends (live_checking,   *)
(* live_check_passed, post_accepted, submission_unknown_commit) are the    *)
(* worker's control state here.  The composition is the one main() builds: *)
(* BrainSubmissionClient.check always reports status_code 200, so the      *)
(* branches for a throttled or failed check request are not reachable.     *)
(***************************************************************************)
EXTENDS Naturals, Sequences, FiniteSets

CONSTANTS
  Alphas,            \* alpha identifiers
  NoAlpha,           \* the worker is at no job
  MaxOps,            \* bound: submission POSTs that the journal can hold
  MaxJobsPerTick,    \* SubmissionWorker.max_jobs_per_tick
  MaxReconcile,      \* SubmissionWorker.reconciliation_max_attempts
  MaxConfirm,        \* SubmissionWorker.max_confirmation_attempts
  Capability,        \* values the submission capability can have at a start
  MaxCrashes,        \* bound: times the worker process dies
  MaxEnqueues,       \* bound: times the engine enqueues jobs
  Elsewhere          \* alphas that may be submitted outside this run

ASSUME ConstantsAssumption ==
  /\ NoAlpha \notin Alphas
  /\ MaxOps \in Nat
  /\ MaxJobsPerTick \in Nat \ {0}
  /\ MaxReconcile \in Nat \ {0}
  /\ MaxConfirm \in Nat \ {0}
  /\ Capability \subseteq BOOLEAN
  /\ MaxCrashes \in Nat
  /\ MaxEnqueues \in Nat
  /\ Elsewhere \subseteq Alphas

VARIABLES
  backlog,      \* submission_backlog.json: alphas with a submission intent
  stateFile,    \* submission_state.json: alpha -> job
  epc,          \* the engine inside enqueue_submission_jobs: "idle" or "write"
  engineJobs,   \* the jobs the engine has read and extended
  enqueues,     \* how often the engine has enqueued
  wpc,          \* the worker's control state
  jobs,         \* the worker's jobs, in memory
  visited,      \* jobs the current tick has processed
  cur,          \* the job being processed
  op,           \* index of the operation of that job, 0 for none
  enabled,      \* evaluate_side_effect_capability("submission").enabled
  crashes,      \* how often the worker process died
  journal,      \* operations.db: the submission.create rows in creation order
  wire,         \* POSTs on their way to the platform
  reply,        \* the response to the worker's open POST, "none" before it
  platform,     \* alpha -> what the platform holds
  committed,    \* history: POSTs whose write the platform committed
  credited      \* alphas for which record_submission ran

fileVars     == <<backlog, stateFile>>
engineVars   == <<epc, engineJobs, enqueues>>
workerVars   == <<wpc, jobs, visited, cur, op, enabled, crashes>>
platformVars == <<wire, platform, committed>>
vars == <<fileVars, engineVars, workerVars, journal, reply, platformVars, credited>>

------------------------------------------------------------------------------
(* Data *)

FinalStatuses == {"submitted_confirmed", "rejected", "manual_review_or_platform_lag"}

JobStatus == FinalStatuses \cup
  {"absent", "queued", "waiting_for_checks", "throttled_retry_later",
   "accepted_but_unconfirmed", "submission_reconciliation_pending"}

\* Outcomes that leave open whether the platform committed the POST.
Ambiguous == {"started", "unknown_commit", "reconciliation_pending"}

\* Faulty variant of LiveOutcomes: forgets manual review, as unresolved() does.
LiveOutcomesUnresolved == Ambiguous \cup {"accepted"}

\* Outcomes that _submission_operation looks for.
LiveOutcomes == Ambiguous \cup {"accepted", "manual_review"}

\* Outcomes that prove the POST was not accepted.
DeadOutcomes == {"rejected", "not_accepted_retryable", "not_sent_retryable"}

Job == [status : JobStatus, retry : {"queued", "accepted_but_unconfirmed"},
        op : Nat, confirms : 0..MaxConfirm]

NoJob     == [status |-> "absent", retry |-> "queued", op |-> 0, confirms |-> 0]
QueuedJob == [NoJob EXCEPT !.status = "queued"]

Operation == [alpha : Alphas, outcome : LiveOutcomes \cup DeadOutcomes,
              attempts : 0..MaxReconcile, due : BOOLEAN]

WorkerPc == {"down", "idle", "enqueued", "flush", "tick", "reconcile", "live_check",
             "post", "send", "await", "confirm", "credit"}

Replies == {"none", "accepted", "throttled", "unauthorized", "rejected", "already_submitted"}

InJob == {"reconcile", "live_check", "post", "send", "await", "confirm", "credit"}

Min(m, n) == IF m <= n THEN m ELSE n

Init ==
  /\ backlog = {}
  /\ stateFile = [a \in Alphas |-> NoJob]
  /\ epc = "idle"
  /\ engineJobs = [a \in Alphas |-> NoJob]
  /\ enqueues = 0
  /\ wpc = "down"
  /\ jobs = [a \in Alphas |-> NoJob]
  /\ visited = {}
  /\ cur = NoAlpha
  /\ op = 0
  /\ enabled = FALSE
  /\ crashes = 0
  /\ journal = <<>>
  /\ wire = {}
  /\ reply = "none"
  /\ platform = [a \in Alphas |-> "unsubmitted"]
  /\ committed = {}
  /\ credited = {}

------------------------------------------------------------------------------
(* The journal: begin, finish, record_reconciliation_attempt, records.     *)

BeginOperation(a) ==
  journal' = Append(journal, [alpha |-> a, outcome |-> "started",
                              attempts |-> 0, due |-> TRUE])

\* Faulty variant: the update selects rows by alpha instead of by operation id.
FinishOperationByAlpha(i, outcome) ==
  journal' = [k \in DOMAIN journal |->
    IF journal[k].alpha = journal[i].alpha THEN [journal[k] EXCEPT !.outcome = outcome]
    ELSE journal[k]]

FinishOperation(i, outcome) ==
  journal' = [journal EXCEPT ![i].outcome = outcome]

\* Faulty variant: one attempt too many.
ReconciliationOutcomeLate(attempts) ==
  IF attempts > MaxReconcile THEN "manual_review" ELSE "reconciliation_pending"

ReconciliationOutcome(attempts) ==
  IF attempts >= MaxReconcile THEN "manual_review" ELSE "reconciliation_pending"

\* Faulty variant: the attempt is not counted.
RecordReconciliationAttemptUncounted(i) ==
  journal' = [journal EXCEPT ![i].outcome = ReconciliationOutcome(journal[i].attempts + 1),
                             ![i].due = FALSE]

RecordReconciliationAttempt(i) ==
  LET attempts == journal[i].attempts + 1
  IN  journal' = [journal EXCEPT
        ![i] = [@ EXCEPT !.attempts = attempts,
                         !.outcome = ReconciliationOutcome(attempts),
                         !.due = FALSE]]

\* next_reconcile_at has passed.
TimePasses(i) ==
  /\ journal[i].outcome = "reconciliation_pending"
  /\ ~journal[i].due
  /\ journal' = [journal EXCEPT ![i].due = TRUE]
  /\ UNCHANGED <<fileVars, engineVars, workerVars, reply, platformVars, credited>>

LiveOperations(a) ==
  {i \in DOMAIN journal : journal[i].alpha = a /\ journal[i].outcome \in LiveOutcomes}

\* Faulty variant: trusts the job's own record and does not search the journal.
IsSubmissionOperationByJob(o, a, job) == o = job.op

\* o is what _submission_operation(job) returns for alpha a, 0 for None: the
\* operation the job names, else the newest live one for the same alpha.
IsSubmissionOperation(o, a, job) ==
  IF job.op # 0 THEN o = job.op
  ELSE IF LiveOperations(a) = {} THEN o = 0
  ELSE /\ o \in LiveOperations(a)
       /\ \A k \in LiveOperations(a) : k <= o

------------------------------------------------------------------------------
(* Enqueueing: the engine and the worker read and write the same file.     *)

EnqueueSubmissionJobs(file) ==
  [a \in Alphas |-> IF file[a] = NoJob /\ a \in backlog THEN QueuedJob ELSE file[a]]

\* Triage replaces the backlog; the CLI's executor appends to it.  Triage runs
\* in the engine's process, so it never overlaps the engine's own enqueue.
WriteBacklog(rows) ==
  /\ rows # backlog
  /\ epc = "idle" \/ backlog \subseteq rows
  /\ backlog' = rows
  /\ UNCHANGED <<stateFile, engineVars, workerVars, journal, reply, platformVars, credited>>

EngineReadState ==
  /\ epc = "idle"
  /\ enqueues < MaxEnqueues
  /\ enqueues' = enqueues + 1
  /\ epc' = "write"
  /\ engineJobs' = EnqueueSubmissionJobs(stateFile)
  /\ UNCHANGED <<fileVars, workerVars, journal, reply, platformVars, credited>>

EngineWriteState ==
  /\ epc = "write"
  /\ epc' = "idle"
  /\ stateFile' = engineJobs
  /\ engineJobs' = [a \in Alphas |-> NoJob]
  /\ UNCHANGED <<backlog, enqueues, workerVars, journal, reply, platformVars, credited>>

------------------------------------------------------------------------------
(* The worker's process and its tick.                                      *)

\* The engine starts one worker, with the day's first report that the budget is
\* spent; nothing but a person starts another when that one has died.
StartWorker ==
  /\ wpc = "down"
  /\ wpc' = "idle"
  /\ enabled' \in Capability
  /\ UNCHANGED <<fileVars, engineVars, jobs, visited, cur, op, crashes,
                 journal, reply, platformVars, credited>>

\* The process dies, or an exception leaves run_once: an authentication error
\* before a POST, a lost connection while reading a detail or a check.
WorkerDies ==
  /\ wpc' = "down"
  /\ jobs' = [a \in Alphas |-> NoJob]
  /\ visited' = {}
  /\ cur' = NoAlpha
  /\ op' = 0
  /\ enabled' = FALSE
  /\ reply' = "none"
  /\ crashes' = crashes + 1

Crash ==
  /\ wpc # "down"
  /\ crashes < MaxCrashes
  /\ WorkerDies
  /\ UNCHANGED <<fileVars, engineVars, journal, platformVars, credited>>

ReadState ==
  /\ wpc = "idle"
  /\ wpc' = "enqueued"
  /\ jobs' = EnqueueSubmissionJobs(stateFile)
  /\ visited' = {}
  /\ UNCHANGED <<fileVars, engineVars, cur, op, enabled, crashes,
                 journal, reply, platformVars, credited>>

\* A disabled capability writes the file again and ends the tick at once.
WriteEnqueued ==
  /\ wpc = "enqueued"
  /\ wpc' = IF enabled THEN "tick" ELSE "flush"
  /\ stateFile' = jobs
  /\ UNCHANGED <<backlog, engineVars, jobs, visited, cur, op, enabled, crashes,
                 journal, reply, platformVars, credited>>

Processable(a) ==
  /\ a \notin visited
  /\ Cardinality(visited) < MaxJobsPerTick
  /\ jobs[a].status \notin FinalStatuses \cup {"absent"}

WriteState ==
  /\ \/ wpc = "flush"
     \/ wpc = "tick" /\ \A a \in Alphas : ~Processable(a)
  /\ wpc' = "idle"
  /\ stateFile' = jobs
  /\ jobs' = [a \in Alphas |-> NoJob]
  /\ visited' = {}
  /\ UNCHANGED <<backlog, engineVars, cur, op, enabled, crashes,
                 journal, reply, platformVars, credited>>

\* The job is done for this tick.
EndJob(job) ==
  /\ wpc' = "tick"
  /\ jobs' = [jobs EXCEPT ![cur] = job]
  /\ visited' = visited \cup {cur}
  /\ cur' = NoAlpha
  /\ op' = 0
  /\ UNCHANGED <<enabled, crashes>>

\* The worker goes on with the same job.
Continue(pc) ==
  /\ wpc' = pc
  /\ UNCHANGED <<visited, cur, enabled, crashes>>

------------------------------------------------------------------------------
(* _process_job: which path a job takes.                                   *)

\* Whether the job is in its confirmation phase by its own record.
AwaitsConfirmation(job) ==
  \/ job.status = "accepted_but_unconfirmed"
  \/ job.status = "throttled_retry_later" /\ job.retry = "accepted_but_unconfirmed"

JobPath(o, job) ==
  IF o # 0 /\ journal[o].outcome \in Ambiguous THEN "reconcile"
  ELSE IF (o # 0 /\ journal[o].outcome = "accepted") \/ AwaitsConfirmation(job)
  THEN "confirm"
  ELSE "live_check"

ProcessJob(a, o) ==
  /\ wpc = "tick"
  /\ Processable(a)
  /\ IsSubmissionOperation(o, a, jobs[a])
  /\ ~(o # 0 /\ journal[o].outcome = "manual_review")
  /\ wpc' = JobPath(o, jobs[a])
  /\ jobs' = [jobs EXCEPT ![a].op = o]
  /\ cur' = a
  /\ op' = o
  /\ UNCHANGED <<fileVars, engineVars, visited, enabled, crashes,
                 journal, reply, platformVars, credited>>

ProcessManualReview(a, o) ==
  /\ wpc = "tick"
  /\ Processable(a)
  /\ IsSubmissionOperation(o, a, jobs[a])
  /\ o # 0
  /\ journal[o].outcome = "manual_review"
  /\ jobs' = [jobs EXCEPT ![a] = [@ EXCEPT !.op = o,
                                           !.status = "manual_review_or_platform_lag"]]
  /\ visited' = visited \cup {a}
  /\ UNCHANGED <<fileVars, engineVars, wpc, cur, op, enabled, crashes,
                 journal, reply, platformVars, credited>>

------------------------------------------------------------------------------
(* _reconcile_unknown_submission.  A detail read can fail to show a        *)
(* submission that took effect (an HTTP error), and never shows one that   *)
(* did not.                                                                *)

ReconcileNotDue ==
  /\ wpc = "reconcile"
  /\ ~journal[op].due
  /\ EndJob([jobs[cur] EXCEPT !.status = "submission_reconciliation_pending"])
  /\ UNCHANGED <<fileVars, engineVars, journal, reply, platformVars, credited>>

\* Faulty variant: takes any answer for positive evidence.
ReconcilePositiveUnchecked ==
  /\ wpc = "reconcile"
  /\ journal[op].due
  /\ FinishOperation(op, "accepted")
  /\ Continue("credit")
  /\ UNCHANGED <<fileVars, engineVars, jobs, op, reply, platformVars, credited>>

ReconcilePositive ==
  /\ wpc = "reconcile"
  /\ journal[op].due
  /\ platform[cur] = "submitted"
  /\ FinishOperation(op, "accepted")
  /\ Continue("credit")
  /\ UNCHANGED <<fileVars, engineVars, jobs, op, reply, platformVars, credited>>

ReconcileNoEvidence ==
  /\ wpc = "reconcile"
  /\ journal[op].due
  /\ RecordReconciliationAttempt(op)
  /\ EndJob([jobs[cur] EXCEPT !.status =
       IF ReconciliationOutcome(journal[op].attempts + 1) = "manual_review"
       THEN "manual_review_or_platform_lag" ELSE "submission_reconciliation_pending"])
  /\ UNCHANGED <<fileVars, engineVars, reply, platformVars, credited>>

------------------------------------------------------------------------------
(* _live_check, then the POST.                                             *)

LiveCheckReady ==
  /\ wpc = "live_check"
  /\ platform[cur] # "submitted"
  /\ Len(journal) < MaxOps
  /\ Continue("post")
  /\ UNCHANGED <<fileVars, engineVars, jobs, op, journal, reply, platformVars, credited>>

LiveCheckAlreadySubmitted ==
  /\ wpc = "live_check"
  /\ platform[cur] = "submitted"
  /\ Continue("credit")
  /\ UNCHANGED <<fileVars, engineVars, jobs, op, journal, reply, platformVars, credited>>

LiveCheckNotReady(status) ==
  /\ wpc = "live_check"
  /\ EndJob([jobs[cur] EXCEPT !.status = status])
  /\ UNCHANGED <<fileVars, engineVars, journal, reply, platformVars, credited>>

BeginPost ==
  /\ wpc = "post"
  /\ BeginOperation(cur)
  /\ op' = Len(journal) + 1
  /\ Continue("send")
  /\ UNCHANGED <<fileVars, engineVars, jobs, reply, platformVars, credited>>

SendPost ==
  /\ wpc = "send"
  /\ wire' = wire \cup {op}
  /\ Continue("await")
  /\ UNCHANGED <<fileVars, engineVars, jobs, op, journal, reply, platform, committed, credited>>

\* ConnectTimeout: proved unsent, journaled, and raised out of the tick.
PostNotSent ==
  /\ wpc = "send"
  /\ crashes < MaxCrashes
  /\ FinishOperation(op, "not_sent_retryable")
  /\ WorkerDies
  /\ UNCHANGED <<fileVars, engineVars, platformVars, credited>>

\* The transport gives up, or the response is a 5xx or a 408.  The job names
\* the operation and is reconciled at once.
PostUncertain ==
  /\ wpc = "await"
  /\ FinishOperation(op, "unknown_commit")
  /\ jobs' = [jobs EXCEPT ![cur].op = op]
  /\ reply' = "none"
  /\ Continue("reconcile")
  /\ UNCHANGED <<fileVars, engineVars, op, platformVars, credited>>

PostAccepted ==
  /\ wpc = "await"
  /\ reply = "accepted"
  /\ FinishOperation(op, "accepted")
  /\ jobs' = [jobs EXCEPT ![cur].op = op]
  /\ reply' = "none"
  /\ Continue("confirm")
  /\ UNCHANGED <<fileVars, engineVars, op, platformVars, credited>>

PostThrottled ==
  /\ wpc = "await"
  /\ reply = "throttled"
  /\ FinishOperation(op, "not_accepted_retryable")
  /\ EndJob([jobs[cur] EXCEPT !.status = "throttled_retry_later", !.retry = "queued"])
  /\ reply' = "none"
  /\ UNCHANGED <<fileVars, engineVars, platformVars, credited>>

\* Faulty variant: a refusal is not written to the journal.
PostRejectedUnjournaled ==
  /\ wpc = "await"
  /\ reply \in {"unauthorized", "rejected", "already_submitted"}
  /\ EndJob([jobs[cur] EXCEPT !.status = "rejected"])
  /\ reply' = "none"
  /\ UNCHANGED <<fileVars, engineVars, journal, platformVars, credited>>

\* 401, or any other 4xx.  WQBClient.submit_alpha reports a diagnosis instead
\* of the response's text, so a 4xx that says ALREADY_SUBMITTED is one of them.
PostRejected ==
  /\ wpc = "await"
  /\ reply \in {"unauthorized", "rejected", "already_submitted"}
  /\ FinishOperation(op, IF reply = "unauthorized" THEN "not_accepted_retryable" ELSE "rejected")
  /\ EndJob([jobs[cur] EXCEPT !.status = "rejected"])
  /\ reply' = "none"
  /\ UNCHANGED <<fileVars, engineVars, platformVars, credited>>

------------------------------------------------------------------------------
(* _confirm_submission and _mark_submitted_confirmed.                      *)

\* Faulty variant: the confirmation attempt is not counted.
AttemptedUncounted(job) == job

Attempted(job) == [job EXCEPT !.confirms = Min(job.confirms + 1, MaxConfirm)]

ConfirmSubmitted ==
  /\ wpc = "confirm"
  /\ platform[cur] = "submitted"
  /\ jobs' = [jobs EXCEPT ![cur] = Attempted(@)]
  /\ Continue("credit")
  /\ UNCHANGED <<fileVars, engineVars, op, journal, reply, platformVars, credited>>

ConfirmThrottled ==
  /\ wpc = "confirm"
  /\ EndJob([Attempted(jobs[cur]) EXCEPT !.status = "throttled_retry_later",
                                         !.retry = "accepted_but_unconfirmed"])
  /\ UNCHANGED <<fileVars, engineVars, journal, reply, platformVars, credited>>

ConfirmCheckFailed ==
  /\ wpc = "confirm"
  /\ EndJob([Attempted(jobs[cur]) EXCEPT !.status = "rejected"])
  /\ UNCHANGED <<fileVars, engineVars, journal, reply, platformVars, credited>>

\* Exhausted by the number of attempts or, at any attempt, by age.
ConfirmNoEvidence(aged) ==
  /\ wpc = "confirm"
  /\ EndJob([Attempted(jobs[cur]) EXCEPT !.status =
       IF jobs[cur].confirms + 1 >= MaxConfirm \/ aged
       THEN "manual_review_or_platform_lag" ELSE "accepted_but_unconfirmed"])
  /\ UNCHANGED <<fileVars, engineVars, journal, reply, platformVars, credited>>

MarkSubmittedConfirmed ==
  /\ wpc = "credit"
  /\ credited' = credited \cup {cur}
  /\ EndJob([jobs[cur] EXCEPT !.status = "submitted_confirmed"])
  /\ UNCHANGED <<fileVars, engineVars, journal, reply, platformVars>>

------------------------------------------------------------------------------
(* The platform and the network, external.  The platform is not assumed    *)
(* to recognise a second POST for the same alpha: each one it takes counts.*)

\* The response reaches the worker only if it still waits for this POST; "none"
\* is a response that is lost.
Respond(i, r) ==
  reply' = IF wpc = "await" /\ op = i THEN r ELSE reply

PlatformCommits(i) ==
  /\ i \in wire
  /\ wire' = wire \ {i}
  /\ committed' = committed \cup {i}
  /\ platform' = [platform EXCEPT
       ![journal[i].alpha] = IF @ = "submitted" THEN @ ELSE "committed"]
  /\ \E r \in {"accepted", "none"} : Respond(i, r)
  /\ UNCHANGED <<fileVars, engineVars, workerVars, journal, credited>>

PlatformRefuses(i) ==
  /\ i \in wire
  /\ wire' = wire \ {i}
  /\ \E r \in Replies \ {"accepted"} :
       /\ r = "already_submitted" => platform[journal[i].alpha] # "unsubmitted"
       /\ Respond(i, r)
  /\ UNCHANGED <<fileVars, engineVars, workerVars, journal, platform, committed, credited>>

\* A committed write becomes visible, or fails the platform's own checks.
PlatformSettles(a, verdict) ==
  /\ platform[a] = "committed"
  /\ platform' = [platform EXCEPT ![a] = verdict]
  /\ UNCHANGED <<fileVars, engineVars, workerVars, journal, reply, wire, committed, credited>>

\* The user submits the alpha in the web interface, or another run does.
SubmittedElsewhere(a) ==
  /\ platform[a] = "unsubmitted"
  /\ platform' = [platform EXCEPT ![a] = "submitted"]
  /\ UNCHANGED <<fileVars, engineVars, workerVars, journal, reply, wire, committed, credited>>

------------------------------------------------------------------------------
JobStep ==
  \/ \E a \in Alphas : \E o \in 0..Len(journal) : ProcessJob(a, o) \/ ProcessManualReview(a, o)
  \/ ReconcileNotDue
  \/ ReconcilePositive
  \/ ReconcileNoEvidence
  \/ LiveCheckReady
  \/ LiveCheckAlreadySubmitted
  \/ \E status \in {"rejected", "waiting_for_checks"} : LiveCheckNotReady(status)
  \/ BeginPost
  \/ SendPost
  \/ PostUncertain
  \/ PostAccepted
  \/ PostThrottled
  \/ PostRejected
  \/ ConfirmSubmitted
  \/ ConfirmThrottled
  \/ ConfirmCheckFailed
  \/ \E aged \in BOOLEAN : ConfirmNoEvidence(aged)
  \/ MarkSubmittedConfirmed

RunningStep == ReadState \/ WriteEnqueued \/ WriteState \/ JobStep

WorkerStep == StartWorker \/ RunningStep

EngineStep ==
  \/ \E rows \in SUBSET Alphas : WriteBacklog(rows)
  \/ EngineReadState
  \/ EngineWriteState

PlatformStep ==
  \/ \E i \in wire : PlatformCommits(i) \/ PlatformRefuses(i)
  \/ \E a \in Alphas : \E verdict \in {"submitted", "unsubmitted"} : PlatformSettles(a, verdict)
  \/ \E a \in Elsewhere : SubmittedElsewhere(a)

ClockStep == \E i \in DOMAIN journal : TimePasses(i)

Next == WorkerStep \/ Crash \/ PostNotSent \/ EngineStep \/ PlatformStep \/ ClockStep

Spec == Init /\ [][Next]_vars

------------------------------------------------------------------------------
(* Properties                                                              *)

\* Types, and the counters that the reconciliation and confirmation limits bound.
TypeOK ==
  /\ backlog \subseteq Alphas
  /\ stateFile \in [Alphas -> Job]
  /\ epc \in {"idle", "write"}
  /\ engineJobs \in [Alphas -> Job]
  /\ enqueues \in Nat
  /\ wpc \in WorkerPc
  /\ jobs \in [Alphas -> Job]
  /\ visited \subseteq Alphas
  /\ cur \in Alphas \cup {NoAlpha}
  /\ op \in Nat
  /\ enabled \in BOOLEAN
  /\ crashes \in Nat
  /\ journal \in Seq(Operation)
  /\ wire \subseteq DOMAIN journal
  /\ reply \in Replies
  /\ platform \in [Alphas -> {"unsubmitted", "committed", "submitted"}]
  /\ committed \subseteq DOMAIN journal
  /\ credited \subseteq Alphas

\* However responses are lost, the process dies and the engine overwrites the
\* state file, the platform commits at most one submission POST per alpha.
AtMostOneEffectiveSubmission ==
  \A i, j \in committed : journal[i].alpha = journal[j].alpha => i = j

\* A job is only ever recorded as confirmed when the platform shows the alpha as
\* submitted and the submission has been credited to the scoreboards.
ConfirmedIsSubmitted ==
  \A a \in Alphas : stateFile[a].status = "submitted_confirmed" =>
    platform[a] = "submitted" /\ a \in credited

\* A job closed as rejected has no POST whose outcome is still open, whoever
\* wrote the file last: a possible commit is never filed as a refusal.
RejectedHasNoOpenPost ==
  \A a \in Alphas : stateFile[a].status = "rejected" =>
    \A i \in DOMAIN journal : journal[i].alpha = a => journal[i].outcome \notin Ambiguous

\* The journal forgets nothing: rows are only added, keep their alpha, and an
\* outcome that is settled (accepted, refused, manual review) is never rewritten.
JournalSettles ==
  [][/\ Len(journal) <= Len(journal')
     /\ \A i \in DOMAIN journal :
          /\ journal'[i].alpha = journal[i].alpha
          /\ journal[i].outcome \notin Ambiguous => journal'[i].outcome = journal[i].outcome]_vars

------------------------------------------------------------------------------
(* Refinement: what the journal and the platform hold for each alpha.      *)

DurableKnowledge(a) ==
  LET Known(outcomes) == \E i \in LiveOperations(a) : journal[i].outcome \in outcomes
  IN  IF Known({"accepted"}) THEN "accepted"
      ELSE IF Known({"manual_review"}) THEN "review"
      ELSE IF Known(Ambiguous) THEN "in_doubt"
      ELSE "open"

Once == INSTANCE SubmissionOnce WITH
  knowledge <- [a \in Alphas |-> DurableKnowledge(a)],
  effects   <- [a \in Alphas |-> Cardinality({i \in committed : journal[i].alpha = a})]

\* The journal and the platform together implement SubmissionOnce: after a POST
\* only a proof that it had no effect opens the way to another one.
ImplementsSubmissionOnce == Once!OnceSpec

------------------------------------------------------------------------------
(* Liveness.  A worker that runs is one sequential process with a tick     *)
(* after the other, and retry delays elapse.  That a worker is started is  *)
(* not assumed: the properties are about a run in which one stays up at    *)
(* last.  The platform and the network are not assumed to answer: a        *)
(* transport time limit ends every wait.                                   *)

Fairness ==
  /\ WF_vars(RunningStep)
  /\ \A i \in 1..MaxOps : WF_vars(i \in DOMAIN journal /\ TimePasses(i))

FairSpec == Spec /\ Fairness

\* In addition, the platform does not throttle every confirmation for ever.
ConfirmationAnswered ==
  SF_vars(ConfirmSubmitted \/ ConfirmCheckFailed \/ (\E aged \in BOOLEAN : ConfirmNoEvidence(aged)))

AnsweringSpec == FairSpec /\ ConfirmationAnswered

\* However often workers died before: one stays up in the end.
WorkerAtLast == <>[](wpc # "down")

\* Once a worker stays up, every POST that leaves its outcome open, be it another
\* worker's that has died, is proved, disproved, or handed to a person: bounded
\* reconciliation, as the architecture document says.
AmbiguousIsResolved ==
  LET OutcomeOpen(i) == i \in DOMAIN journal /\ journal[i].outcome \in Ambiguous
  IN  WorkerAtLast => \A i \in 1..MaxOps : OutcomeOpen(i) ~> ~OutcomeOpen(i)

\* Once a worker stays up, an accepted submission does not stay in the queue: its
\* job is recorded as confirmed, rejected or in manual review.
AcceptedIsClosed ==
  WorkerAtLast => \A a \in Alphas :
    (\E i \in DOMAIN journal : journal[i].alpha = a /\ journal[i].outcome = "accepted")
      ~> (stateFile[a].status \in FinalStatuses)
==============================================================================
