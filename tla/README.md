# wqb-agent-lab: TLA+ models and proofs

wqb-agent-lab mines alphas on the WorldQuant BRAIN platform. A workflow engine
plans a day of research with an LLM, runs simulation scans within a budget,
triages the results, and queues submissions that a background worker carries
out. The two operations that cost something and cannot be taken back, a
simulation POST and a submission POST, go through a journal in SQLite, so that
a lost response or a crash does not repeat them. These modules are about that
part first (who may POST what, when, and what is known afterwards), and then
about what surrounds it: planning, the choice of candidates, what is learnt
from results, the processes and the files they share.

Paths below are relative to the repository; without a directory they are in
`wqb_agent_lab/` or `scripts/`.

## 1. Inventory

| Component | State | Operations | Talks to | Module |
| --- | --- | --- | --- | --- |
| Submission worker, `submit/submission_worker.py` | `submission_state.json`, jobs in memory for a whole tick | `enqueue_submission_jobs`, `run_once`, `_process_job`, reconcile, confirm | session and client, journal, backlog, worker lock; launched by the engine with the day's report | `SubmissionWorker`, `SubmissionOnce` |
| Simulation scan, `runtime/scan.py` | rows in memory, the result file, one thread per candidate | `run_scan`, `process_candidate`, timeouts | clients, journal, reconciler; child process of the engine | `SimulationScan` |
| Simulation reconciler, `runtime/simulation_reconciliation.py` | none of its own | `reconcile`: one pass over the journal's live rows | journal, result file, read-only requests | `SimulationScan` |
| Operation journal, `runtime/operations.py` | `operations.db`: operations and outbox | `begin`, `finish`, `record_reconciliation_attempt`, `enqueue`, `mark_delivered`, `mark_failed` | every side effect | with its users |
| Session and client, `platform/session.py`, `client.py`, `research_session.py` | cookies, `last_operation_record` | `create_simulation`, `submit_alpha`, `run_simulation`, `filter_alphas` | the network, the journal | `SubmissionWorker`, `SimulationScan`, `AlphaListing` |
| Engine and runner, `workflow/engine.py`, `runner.py`, `reporting.py` | budget ledger, sliced configs, checkpoints, run files | `run_tick`: replay, reconcile, plan, gate, scan, credit, drain, report | everything, as caller or parent process | `WorkflowBudget`, and the modules of its stages |
| Planning, `workflow/llm_planning.py`, `planning/repair.py`, `llm/provider/*` | plan artifact, checkpoint | `run_llm_plan`, repair loop, retry and fallback | providers over HTTP or a child process | `LlmPlanning`, `CliProcess` |
| Policy feedback, `governance/policy_feedback.py`, `research/policy/policy.py` | decisions and scores of each run | `record_shadow_decision`, scoring, aggregation, control of a slice | engine | `PolicyFeedback` |
| Candidate choice, `workflow/candidates.py` | none: a function of the scan configuration | `choose_budgeted_candidates` | engine | `CandidateChoice` |
| Diagnosis and triage, `evaluation/failure_diagnosis.py`, `workflow/diagnosis.py` | `*_results.json`, ready and optimise queues | diagnosis, route, budget share | engine's closed loop | `FailureTriage` |
| Memory, `memory/core/*`, `memory/sync/*` | SQLite store | ingestion by the engine's stage and by a worker | closed loop | `RunMemory` |
| Policy evaluation and governance, `evaluation/*`, `memory/governance/*` | report files, one after the other | decision records, effectiveness, promotion, guardrail | evaluation worker, daemon | `PolicyMemory` |
| Submission intents, `governance/submission/*` | append-only ledger, backlog | `SubmissionExecutor.execute` | CLI, MCP server; the worker reads the backlog | `SubmissionIntake` |
| Submitted registry, `workflow/submitted_registry.py`, `registry/fetch_submitted.py` | `submitted_alphas.json`, its state file | registry stage, background refresh | platform listing, triage | `SubmissionIntake` |
| Live check, `checks/check_unsubmitted_submit_ready.py` | report and progress file | `run` with resume, limits and retries | platform | `LiveCheck` |
| Supervisor and evaluation worker, `run/daemon.py`, `workflow/daemon.py`, `workers/evaluation.py` | pid files, the engine's state, the ledger | launch, health, restart, evaluation after the day | engine and workers, as processes | `DaemonSupervision` |
| Process locks, `runtime/process_lock.py` | lock files | `__enter__`, `__exit__`, stale reclaim | workers | `PidFileLock` |

`PROJECT.json` lists these and the rest with a status and, where something is
left out, the reason.

### How the components interact

The engine calls the reconciler and the scan as child processes and waits for
them; it starts workers detached; the supervisor starts the engine and the
evaluation worker. They share files, not messages: the journal (SQLite,
transactional), the scan's result file (rewritten in place),
`submission_state.json` (written by the worker under its lock, and by the engine
without it), the backlog (triage, CLI executor, worker), the ledger (engine,
evaluation worker, outbox), lock and pid files. The platform is reached through
the session, which writes a journal row before each POST and its outcome after it.

### What is hard, and what makes it correct

- Crash recovery. A process may die between the `started` row, the POST, its
  response, the outcome row, and the file that reports it; or between the answer
  of a provider, the plan file and the checkpoint. Correct: never a second
  effective POST for one alpha or candidate; never a possible effect written off;
  every open outcome reaches a proof or a person; a plan is asked for again only
  for a reason.
- Interleaving. The engine writes the worker's file without its lock; timed-out
  threads go on beside their successors on one session; locks, pid files and the
  ledger are read, worked on and written in steps. Correct: stale copies cause no
  POST and hide none; a lock has one holder; one engine runs; two writers' marks
  in the ledger both stay in the end.
- Bounded retries. Reconciliation and confirmation attempts, tries of a POST,
  repairs of a proposal, pages of a list, a child process's deadline. Correct:
  the bounds are met and their end is explicit.
- Replays. An undelivered event holds a whole ledger, older than the file it is
  written over; a stage's slice is cut again. Correct: no credit, no limit, no
  report and no evidence is lost for good.
- Evidence. An alpha may come from another run or person; a policy may be judged
  by rows that say nothing about it. Correct: what is concluded rests on what the
  platform showed for this very candidate, alpha or policy.
- The same number written down twice. The bounds of a defect are in the
  diagnosis, in the route and in the budget policy. Correct: they agree.

## 2. Modules

| Module | What it is | Checked by |
| --- | --- | --- |
| `SubmissionWorker` | worker, journal, session, engine's enqueue, platform | `SubmissionWorkerOne`, `Orphan`, `Submission` |
| `SubmissionOnce` | abstract specification of submission: what is known and what took effect, per alpha | refinement in `SubmissionWorkerOne`, proved |
| `SubmissionIntake` | registry, tick, executor and backlogs of two runs: how an alpha gets a job | `Submission` |
| `SimulationScan` | gate, checkpoint, scan process, threads, reconciler, journal, session, platform | `SimulationScanSafe`, `Live`, `Auth` |
| `WorkflowBudget` | a day of the daemon: tick, ledger, slices, crediting, outbox, report | `WorkflowDay`, `WorkflowBudgetFamilies` |
| `LlmPlanning` | the planning stage: providers, repair, deferral, fallback, plan file | `WorkflowDay` |
| `PolicyFeedback` | shadow decisions, their scores, and the control they may gain | `WorkflowDay`, `PolicyFeedbackEvidence` |
| `CliProcess` | a bounded child process with its reader and writer threads | `Processes` |
| `DaemonSupervision` | supervisors, engine, evaluation worker, pid files, ledger copies | `Processes` |
| `PidFileLock` | the workers' lock file | `Decisions`, `PidFileLockOverlap` |
| `RunMemory` | closed loop and memory worker on one store | `Decisions` |
| `FailureTriage` | diagnosis, route, policy and budget share of a row | `Decisions` |
| `PolicyMemory` | decision records, effectiveness, promotion, guardrail | `Decisions` |
| `LiveCheck` | the live check script, run again and again | `Decisions` |
| `AlphaListing` | paged listing under refusals and a growing list | `Decisions` |
| `CandidateChoice` | what a stage is given when not all fits | `Decisions` |
| `MC...` | instances for TLC | the runs |
| `...Proofs` | theorems about the module or the MC module they are named after | tlapm |
| `FoldLemmas` | what the library's folds compute, for the proofs | tlapm |

Definitions that start with a comment "Faulty variant" are plausible bugs. No
specification uses them; they stand beside the definition they distort, and each
property is known to fail when one of them takes that definition's place.

### Instances with scenes

`MCSubmission`, `MCWorkflowDay`, `MCProcesses` and `MCDecisions` check several
components that share no variable. A variable `scene`, chosen at the start and
never changed, says which of them a behaviour is about; the others stay in an
initial state. So a run explores the sum and not the product of their states, and
nothing is composed that does not interact. Where components do interact, one
module has them together.

### SubmissionWorker and SubmissionOnce

`stateFile` and `jobs` are `submission_state.json` and the worker's copy of it
during a tick; `engineJobs` is the copy that `enqueue_submission_jobs` holds in
the engine's process between its read and its write. `journal` is the table of
`submission.create` rows. `wpc` is where `_process_job` stands: every journal or
file write and every request is a step of its own, so `Crash` can fall between
any two. An exception that leaves `run_once` ends the process (`main`), so it is
the same step. The engine starts one worker, with the day's first report that the
budget is spent (`engine.py:2132`, `reporting.py:211-218`, `251`); no supervisor
starts another after a death, so `StartWorker` is an action that may or may not come.

Statuses that a tick always overwrites before it writes the file
(`live_checking`, `post_accepted`, ...) are control states. The composition is
the one `main` builds: `BrainSubmissionClient.check` always answers with status
code 200, so the branches for a failed check request cannot be reached and are
left out. Jobs are taken in any order; the code uses the file's order.

The platform commits or refuses a POST at any time after it was sent, also after
the worker gave up or died, and its response may be lost. It is not assumed to
recognise a repeated POST: that is the point of the journal.

`SubmissionOnce` keeps two things per alpha: what the run knows (`open`,
`in_doubt`, `accepted`, `review`) and how many POSTs took effect. From `open`
one may begin a POST; only a proof that it had no effect leads back to `open`.
The refinement mapping computes the knowledge from the journal alone, so it says
that what survives a crash is enough.

### SubmissionIntake

`backlogOf`, `jobsOf` and `ready` are per run, `registry` and `syncState` are
shared by the runs. The registry stage takes its snapshot before it launches the
refresh; `engineTick` carries that snapshot through triage to the submission
stage. `intent` and `readRows` are the executor between its read of the backlog
and its rewrite. The decision ledger is written before the backlog: after a death
between the two, the retry is told "Decision already processed." though nothing
is queued (`executor.py:27-29`). An intent that comes in while triage rewrites the
backlog is lost, and the executor's rewrite may bring back rows that triage had
dropped. The docstring of `candidates.py:206-207` therefore holds for ticks' own
jobs, which is what `OneTickOwner` says.

### SimulationScan

`epc` and `child` are the engine inside `execute_scan` and the subprocess it
waits for; `proc` holds each subprocess's reconciler and scan state
(`reconcile_only` for the gate, then `reconcile` and `scan` for a scan); `thread`
is the thread that runs `run_simulation` for a candidate; `file` is the result
file by candidate, where a row is told apart only by what
`_binding_has_final_row` and the scan's `seen_keys` make of it.

A slice is entered while candidates are left, and a row of any kind counts as
completed (`Left`, `candidates.py:249-265`). Without candidates the gate is skipped
(`engine.py:1984`); with another slice of the day, `elsewhere`, the gate looks at these
operations too, and blocks or completes the stage (`OtherSlice`). `DayEnds` may come at
any idle moment: a day that is spent or reported has no tick any more
(`runner.py:115-122`, `188-200`), and the next one has another journal.

Abstractions: all candidates belong to one sliced configuration and one result file;
the order of slices, and deaths while another slice is scanned, are left out;
candidates differ by more than white space (variants in white space would have other
keys in `seen_keys` and one binding, `scan.py:159`); parameter sweeps and explicit
checks are left out. A listing may miss an alpha, so any single match can be all that
the reconciler sees. `Twins` are candidates another run has simulated just now: the
listing shows their alphas too. What reconciliation finds inside a scan blocks no POST
of that scan; only the engine's gate before it does (`scan.py:217`,
`simulation_reconciliation.py:174`).

`Faults` names the behaviours that the code admits and that break one of the
promises, so that each run says which of them it allows:

| Fault | What may happen | Where |
| --- | --- | --- |
| `auth` | authentication fails inside the POST, after the `started` row | allowed in `SimulationScanSafe`; breaks `OpenIsResolved` in `SimulationScanAuth` |
| `gap` | a death between the recovered row and the journal's `finish` | allowed in `SimulationScanSafe`; `FinalRowIsSettled` and `OpenIsResolved` fail with it |
| `timeout` | `wait_for` gives up and the thread goes on | allowed in `SimulationScanSafe`; `FinalRowIsSettled` fails with it |
| `orphan` | the engine dies and its scan survives | in no run; `AtMostOneSimulation` fails with it (`engine.py:2093`), and the theorems exclude it by name |

### WorkflowBudget

`file` is the budget ledger on disk and `mem` the tick's copy; `outbox` the
undelivered workflow events, each the ledger it carries; `todo` the events that
the running drain fetched and has not yet handled. `slices` are the sliced configs
by stage and size, `rows` the result file of each stage, `simulated` what the
platform was asked to simulate. `pc`, `after` and `plan` say where `run_tick`
stands. The tick may die or raise at each of its steps (`TickDies`).

The interesting part is what survives such a death. A credit is in memory, then
in an event, then in the file, and `LoadLedger` finds it again from the disk:
rows of candidates of slices that still exist. Deliveries put older ledgers back
over newer ones, and `Reconciled` repairs that at the next tick.

A day ends in two ways. A reported one has no further tick (`DayOver`). And once the
date has passed, the daemon goes on to the next day as soon as the budget is spent,
reported or not (`LeaveDay`, `runner.py:188-193`): what its outbox still holds then is
delivered no more.

Abstractions: one day with one queued config; candidates that the policy blocks
are left out, those that the preflight blocks are `Invalid`; the caps on fields
and bases are one number, `Diverse` (`CandidateChoice` has them); the journal and
the gate's decision are `SimulationScan`'s, so here the gate answers freely; a scan
dies with its engine. Events are told apart by the ledger they carry. The "Detect
empty loop" branch (`engine.py:2110`) cannot be reached with an empty slice,
because a stage without candidates is skipped before. `ReportIsKept` is relative to
no evaluation worker writing the ledger; that writer is in `DaemonSupervision`.

### LlmPlanning

One plan artifact. `StageStep` is one step of the process that runs the planning
stage: begin, read the plan, decide whether it is reused, ask, validate, repair,
write answer, plan and checkpoint, one file a step. Delays count down with
`TimePasses`. Answers are told apart by what the code does with them: a fitting
proposal, a JSON answer that the repair loop may repair (only those that are no
`plan_proposal` are), or none. With the legacy contract every JSON answer fits.
`attempt_count` saturates at `CountCap`, where the delay has reached its cap; the
code does not reset it after a success. A death between the answer and the plan
file loses both the answer and the count. Dry runs and prompt files are left out.

### PolicyFeedback

A run is a day and a day is one stage. A decision is named by a hash of stage and
result file, so a later slice of a stage (the rest, or an empty one, whose
`stage_skipped` event is scored too) takes the place of the decision that was
scored: that is the violation run. A slice of equal size replaces an older one in
the file system. In control mode the baseline's rows are the recommended ones, so
measured differences dilute and the gate may close again. An unclassified
candidate skips the checks on fields and kills. Diversity caps, the preflight and
the ledger's way through the outbox are `WorkflowBudget`'s.

### CandidateChoice

A sequence of candidates and a room in, a sequence out: the rounds over families,
the caps, and what is put aside. Caps are shares of what the stage gets now, although
the configuration calls them shares of the day's budget. Those for bases, fields,
families and skeletons are at least one, those for price-volume and downweighted
families may be zero. Buckets are by `behavior_family` or `family`, the family cap
counts by `candidate_family_hint` (route family, note). Variants of one expression
are dropped only when not all candidates fit. Downweighting by the measured
efficiency of a family is modelled; the list of families in the configuration and
the proxy map are not, nor the rounding of floating-point products.

### FailureTriage

`row` is chosen, with metrics and check values on both sides of each bound, and routed
in one step.
The comparison in `RouteAgreesWithDiagnosis` is between code written in three
files. Facts it depends on: the first failing class decides the route;
`direct_submit` may carry a severe diagnosis; HIGH_TURNOVER, UNITS and
`invalid_simulation_request` get the unknown policy with a share of 0, although
`diagnosis_policy.py` has templates for them; a mild self-correlation with a severe
concentration goes to `optimize_next`; extreme self-correlation keeps a share of 15 %.

### PolicyMemory

One scan after the other adds a batch of rows; then effectiveness, promotion and
guardrail, each from the file of the one before. A record is named after stage and
slice (`records.py:222`) and is scored with the stage's whole result file
(`records.py:97`): a stage scanned in slices of two sizes counts its rows twice, so
that 12 simulations make 24 and suffice for a promotion. `VerdictsAreEarned` states
what remains true. Diversity and repeated-run counts are not measured
but taken from the numbers of decisions and simulations (`report.py:60-62`).
`can_increase_budget` is always False, and `pause_next_run` is read by nothing.

### RunMemory

`loop` is the closed loop (diagnosis, triage, evaluation, memory), run on delivery
of an event, by the reconciliation of a tick and by the daily report; `sync` holds
the engine's and the worker's synchronisation between their writes. The diagnosis
reads `*_results.json`, and with it `diagnosis_results.json`, its own output
(`engine.py:153-154`, `238`): rows are copied at every diagnosis, and a pending copy
of a row that has its result by now stays. `CopyCap` bounds the copies that are told apart.

### LiveCheck

A run with any combination of flags, then the next. Records keep the snapshot they
were made of. `--resume` skips records that an error, a limit or a dry run left
without an answer, for ever, so `EveryoneIsReviewed` needs a run without it. One of
three checks in the list is enough for an alpha not to be asked for (`partial`). The
script's `all_pass` and `evaluate_check_snapshot` of the worker judge the same
checks differently (UNKNOWN and ALREADY_SUBMITTED pass in the one, a UNITS warning
blocks in it only), so the property relates them only where both decide.

### AlphaListing

`_pages` takes the count from a first request with `limit=1`; if that one is an
error, the count is 0, no page is asked for, and `_run_generator` succeeds with
nothing (`session.py:555-557`), although its docstring promises every page
(`research_session.py:283`). `fetch_submitted` then writes an empty registry with
exit code 0. `ListingIsWhole` says what holds: with an answered count, a list within
the window and no change meanwhile, all of it is read. An alpha that comes in
during the paging moves the last one out of reach.

### CliProcess and DaemonSupervision

`CliProcess` is POSIX. The calling thread's tests of overflow, deadline and done
events are steps of their own; an `heir` may stay in the group or leave it. An heir
outside the group that holds the output pipe blocks the final `close` past the
timeout, so `BoundedCallEnds` is conditional on its end; an overflow after the
loop's last test returns truncated output as success, and `EndsCleanly` claims
complete output for streams within the limit only.

`DaemonSupervision`: a supervisor's look, start and pid-file write are separate
steps. An engine that has exited is a zombie of its supervisor and counts as running
until the next process is started. Pids are reused. The supervisor takes no lock: a
second one (or the CLI's `evaluation --daemon`) may start a second engine, and
`OneEngine` says when it cannot happen (`raced` marks when it can). The evaluation
worker writes a copy of the ledger that it read before the suite; the two writers may
undo each other's mark, and `BothMarksStay` says that both are there in the end, if the
date does not pass before (`DatePasses`): then a spent day is left, with the report or
the mark that was lost.
A supervisor may be started at any time and as often as one likes (`Starts`).
`MCProcesses` looks at this module twice. In the scene `ledger` one supervisor runs with
engines, the evaluation worker, deaths and reused pids; in the scene `pids` two
supervisors start, look, launch, write and die over one pid file, and engines do not tick.
`pause_on_guardrail`, `max_consecutive_days` and `max_daily_budget` are written
and read by nothing. `stop_daemon.py` looks for pid files in `scripts/`, where none
are written.

### PidFileLock

One lock path. A process creates the file, empty, and writes its identity in a
later step; a process that finds a file reads it, asks whether its owner lives,
and unlinks the path otherwise; it may die at each step. `Overlap` says whether
processes may acquire at the same time. The engine launches a worker when it
believes none runs, so overlap is rare and not excluded: the code neither prevents
it nor survives it. `SubmissionWorker` has a single worker process; that is what
`PidFileLock` establishes as far as acquisitions stay apart.

## 3. Runs

| Run | Expect | Shows |
| --- | --- | --- |
| `SubmissionWorkerOne` | pass | One alpha, 3 POSTs, 2 deaths, 1 unlocked enqueue, an alpha that may be submitted elsewhere: safety and refinement. |
| `SubmissionWorkerOrphan` | violation | With the engine's unlocked enqueue and a rewritten backlog, an ambiguous POST loses its job and nobody observes it again, although the worker stays up. |
| `Submission` | pass | 2 deaths, no second writer: once a worker stays up, an open outcome is resolved and an accepted submission closed. Two runs, an intent, a stale registry, a failing fetch: ticks' jobs do not double, the registry catches up. |
| `SimulationScanSafe` | pass | 2 candidates on 2 clients, timeouts, failed authentication, torn files, a death, a twin: no second simulation, no foreign result. |
| `SimulationScanLive` | pass | A death anywhere but in the gap: while the day goes on, every open operation is resolved and every accepted simulation collected; no final row hides an open operation. |
| `SimulationScanAuth` | violation | A failed authentication blocks the gate for ever. |
| `PidFileLockOverlap` | violation | Two processes hold the lock after one read the other's empty file. |
| `WorkflowDay` | pass | Budget: two stages, failed deliveries, replays, deaths: both limits hold, no credit is lost, and no event while the day goes on, a reported day is final. Plan: three kinds of provider, two configurations, a changing key: a plan is replaced for a reason only, a deferred one is asked again. Feedback: four days with early ends: control is earned. |
| `WorkflowBudgetFamilies` | violation | An accepted simulation without a row is not credited; the next slice takes another family's candidate and the day exceeds its budget. |
| `PolicyFeedbackEvidence` | violation | An empty slice takes the place of a scored decision, and the run's evidence is gone. |
| `Processes` | pass | A call with an heir, a limit and a deadline ends and ends cleanly. Two supervisors, started again and again, with deaths: one engine runs. One supervisor with the evaluation worker: an ended engine comes back, both marks of the ledger stay until the date passes. |
| `Decisions` | pass | Lock, memory, triage, policy memory, live check, listing and choice. |

Bounds, and why they are enough. `MaxOps = 3` POSTs let an alpha be refused,
throttled and posted again, so that a live row can follow dead ones;
`MaxReconcile = 2` and `MaxAttempts = 2` have a first, a last and no further
attempt. Two deaths let the worker die during the recovery from a death; in the
scan one death meets the gate, the reconciler and the scan after it. One unlocked
enqueue is the least that leaves a stale copy; more of them repeat it. Two
candidates on two clients give two live threads and, after a timeout, an
abandoned thread beside a new one on one client. `MaxTries = 1` in the two
passing scan runs keeps them within minutes; a second try of a POST is in
`Auth`. The submission and simulation theorems hold for all bounds.

In `WorkflowDay` the allocations (3 and 6) exceed the day's budget (5), so that a
stage meets its own limit, the next one the day's, and a slice may be cut by
either; one of seven candidates is invalid, so that a stage can run out of
candidates and be skipped. Three deaths and two failed deliveries leave two stale
events in the outbox while a tick dies during their replay. `Diverse = 5` keeps the
caps out of reach; with 2 a second slice of the same size replaces the first
(`engine.py:1521`) and `CreditsAreWritten` fails. The plan's delays (base 1, cap 3)
reach the cap in three attempts. Four days are what the gate needs: two with
evidence, one controlled, one after it.

In `Submission` the intake has one alpha, two runs, one decision and one fault, and
starts from a pinned registry: two owners need two runs, and what an intent can
disturb needs one. In `Processes` a limit of 1 and two units make one stream keep and
another break its limit; three pids let one be reused beside two running processes, and
two faults let an engine die and its supervisor after it, among any starts of both
supervisors. In `Decisions` three lock processes exceed the two attempts of `__enter__`; metrics and check
values lie on each side of every bound; five alphas in pages of two, with up to three refusals
(`ListingAttempts = 3`), give a full page, a partial one and a page given up; batches
of twelve and of twenty rows, at most twenty a stage, lie below and at the 20
simulations that a promotion asks for, with twelve in two sizes counted as 24; pools
of five, or of three in an order of their own, with room for four, let each cap
alone decide.

`CHECK_DEADLOCK FALSE` stands where the system ends: locks that each process takes
once, a day that is reported, left or over, a call that has returned, a decision that
is made.

Fairness is that of running processes; what starts one, or ends a day, is never fair.

- `SubmissionWorker`: a running worker goes on (`WF(RunningStep)`) and retry delays
  elapse. `StartWorker` is not fair: after a death nothing but a person starts another
  worker. So both liveness properties have the premise that one stays up in the end
  (`WorkerAtLast`); what it finds may be the work of several that died. Nothing is
  assumed of platform or network, every wait has a time limit. `AcceptedIsClosed` needs
  in addition that the platform does not throttle every confirmation for ever
  (`ConfirmationAnswered`, strong fairness): a throttled confirmation returns before the
  exhaustion test (`submission_worker.py:354`).
- `SubmissionIntake`: ticks follow each other, a refresh that was launched runs, its
  state ages.
- `SimulationScan`: an engine that is up ticks, subprocesses run until they end or die,
  delays elapse. `DayEnds` may come between any two ticks and is not fair, so
  `OpenIsResolved` and `AcceptedIsCollected` except a day that is over, and hold as
  long as the day has another slice to scan.
- `WorkflowBudget`: the daemon ticks until the day is reported or left, and a scan ends,
  as every wait of it has a time limit. `LeaveDay` is not fair: no moment of midnight is
  assumed. `OutboxDrains` excepts a day that is over or left. `CreditsAreWritten` needs
  no exception, as a day is left only when the file counts the whole budget.
- `LlmPlanning`: the stage's process goes on and time passes; providers need not answer
  well.
- `CliProcess`: threads run, the deadline passes; the child need not end.
- `DaemonSupervision`: each supervisor and process runs on until it dies; `Starts` and
  `DatePasses` are not fair. `EngineComesBack` speaks of one supervisor alone at last.
- `RunMemory`: the closed loop runs on and the worker, once started, too (nothing in the
  repository starts it regularly).
- `LiveCheck`: a run goes on and the platform computes its checks.

## 4. Proofs

TLAPS checks the following for every value of the constants, from the named
assumptions on constants of the modules and nothing else.

`SubmissionProofs`, the worker: `TypeCorrect`, `OneEffectiveSubmission`,
`ConfirmedJobsAreSubmitted`, `RejectedJobsHaveNoOpenPost`, `JournalIsSettled`.
`AtMostOneEffectiveSubmission` is not inductive: nothing in it keeps a second
POST from being begun. The inductive invariant `IndInv` adds

- `OneOpenOperation`: an alpha has at most one live row; whatever is on the
  wire or committed belongs to a live row; a job that names an operation, in any
  of the three copies of the file, names a live one. This carries the theorem: a
  POST begins only when there is no live row, and a row dies only on a proof
  that its POST had no effect.
- `Control`: what each control state knows, for instance that nothing is live
  for the alpha when a POST begins, and that a refusal in hand means the POST is
  neither on the wire nor committed.
- `AttemptsLeft`: an open outcome has an observation left, which keeps the
  counters within their types.
- `FilesAgree` and `Confirmed`: what a final status in one copy of the jobs says
  about the others, the journal and the platform, although copies overwrite each
  other.

The same module proves `SubmissionImplementsOnce`, the refinement. With one live row
per alpha the mapped knowledge is a function of its outcome; each concrete step then
is one abstract step or a stutter.

Of the intake it proves `IntakeTypeCorrect`, `OneTickOwnerHolds`. What a tick's
snapshot leaves has no job of a tick that has not failed, a failed job stays
failed, and until an intent is appended the backlog of the tick's run holds nothing
but the snapshot.

`SimulationScanProofs`: `ScanTypeCorrect`, `OneSimulationEach`, `ResultsHaveAlphas`,
for runs in which no scan outlives its engine (`"orphan" \notin Faults`); with all
other faults. The inductive invariant `ScanInv` adds

- `OneProcess` and `Phases`: the subprocess the engine waits for is the only one,
  and threads run in its last phase only.
- `OneLive`: a candidate has at most one operation that the reconciler still looks
  for, and only such an operation is on the wire or created.
- `RowsShowLive`: during a reconciliation a candidate with a live operation has a
  row or a record still to be turned to; after it, one without a row has none. That
  is why a candidate that is skipped for its row, and only that, may be live.
- `ThreadsKnow`: what a thread knows of its operation, for instance that it is
  started and not yet sent, or that a refused one is nowhere on its way; so a
  dead outcome is written for dead operations only, and a retry begins with none live.
- `RecordsAreTrue`, `AttemptIsLeft`: a record read at the start stays true until its
  turn, and an observation has an attempt left.

The same module proves `NothingIsWrittenOff`, that is `FinalRowIsSettled`, for
`Faults = {}`: lost messages and deaths happen, but no request is abandoned by a
timeout, no authentication fails inside a call, and a recovered operation is finished
with its row. Each of the four faults alone breaks the property. `SettleInv` adds to
`ScanInv` that the rows in memory are those of the file, that a running thread has a
candidate without a row and a client of its own, that `last_operation_record`, when a
thread decides by it, is the record of the thread's own operation, and that a thread
that is about to report a failure has nothing ambiguous (`ThreadSettles`).

`WorkflowDayProofs`, on three parts that share no state:

- The ledger. `ReportedDayIsFinal`, the property `ReportIsKept`: ledgers of events, of
  drains and of the tick never carry the report (`OpenLedgers`), and where the file does
  carry it and the budget is spent, the daemon is idle (`ReportIsLast`). So nothing that
  could write over the file is under way, and `TickBegins` does not start it.
- `BudgetIsKept`, the property `SimulationsWithinBudget`, under `OneOrder`: all
  candidates are of one family and the diversity caps let a day's budget through. The
  ledger alone cannot carry the argument, because torn files, replays and deaths take
  credits from it and a slice is then cut again. What stays is an order: every slice is
  the front of what the stages before have left. So each stage has a share (`ShareOf`)
  fixed by position, its first slice takes it whole, and later slices, whatever ledger
  they are cut by, come out of it (`SharesAreCut`). A ledger counts stages only whose
  share is sliced (`Goods`), so a later stage is not planned before the shares of the
  earlier ones are cut. The shares end where the day's budget does
  (`SharesAreWithinBudget`).
  Both halves of `OneOrder` are needed. With two families an uncredited simulation lets
  the next slice begin with another family's candidate (finding 4). With caps below the
  budget two slices of a stage may be of equal size, the second replaces the first's file
  (`engine.py:1521`), and after more deaths what the first named is sliced again, by the
  next stage: a stage whose allocation is 1 asks for 2 simulations (`StageBudget =
  <<3, 1>>`, `DailyBudget = 6`, `Diverse = 2`, 6 candidates, 3 failures, 2 deaths).
- The planning stage. `PlanTypeCorrect`, `CheckpointsTellTheTruth`,
  `PlansAreReplacedForAReason`. From the begin of a stage to its end the checkpoint says
  `running` (`BegunIsRunning`), and what the tick has read of the plan file and decided
  upon when it asked is still so when it writes (`TickKnows`): no process changes its own
  configuration, and another process begins anew.
- The gate of the policy feedback. `ControlHasBeenEarned`, the property
  `ControlIsEarned`. A score counts only what was advised and tested (`ScoresAreEarned`),
  and the file recommends only what was advised (`ShadowIsAdvice`). The totals of the
  gate are therefore covered by simulations that were made, and a gate that wants the
  share of low results to fall cannot open where the baseline has none.
- `DayTypesCorrect` puts the parts together, as `MCWorkflowDay` checks them.

`DecisionsProofs`, on parts that share no state:

- `OneHolder`, mutual exclusion while acquisitions do not overlap. The path holds the
  file of whoever holds the lock or is about to write it, and the one acquiring
  process has read that owner or knows there is none.
- `MemoryStoresAll`, the property `MemoryIsWhole`. Where a writer stands tells what of
  its copy the store has; the store forgets nothing, so the other writer, older copy
  or not, takes nothing away (`MemoryInv`).
- `RoutesAgree`, for every row that can be built from the checks' names, with any
  values. The thresholds are written twice with the same numbers, so a route pins down
  the bucket of its defect (`RouteTaken`); a diagnosis of a failed check other than
  those a route allows is excluded kind by kind.
- `VerdictsEarned`, with `PolicyTypeCorrect`: the verdicts of memory, guardrail and
  promotion agree and rest on rows of the policy's own, for any number of policies,
  stages and rows. A slice has one record and its score is what the stage had filed at
  some time (`AttributionIsTrue`); the reports are functions of these records
  (`ReportsAreOfInputs`); so a policy is credited with no more than the sum of what its
  stages have filed. `LevelsGrow` shows that good simulations never lower a level. The
  stages are assumed to be finitely many.
- `DecisionsTypesCorrect`: the types of all parts side by side. Two of them need an
  argument: a lock that tries again has an attempt left, and a run of live checks makes
  no more of them than there are alphas, as each takes one from those to come.

`AlphaListingProofs`: `ListingTypeCorrect`, `ListingsAreWhole`, for any lists, pages and
refusals, if the window is a whole number of pages, as in the code. A list only grows
(`ListsOnlyGrow`), so if it is at the end what it was at first, every page came from the
same list; the pages start at multiples of the page size and, before the end, the window
moves none back (`PagesAreOfList`). So they are its pieces, and joined they are the list.

`CandidateChoiceProofs`: `ChoiceTypeCorrect`, `ChoicesAreDiverse`, for pools and families
of any size. The caps only tighten while candidates are taken, so whoever fits at the end
has waited throughout. A family that still has waiting candidates has had its turn in
each round, so its queue has been walked past whoever was left, and a round without
progress has emptied every queue. The queues hold each member of a family once because
the rank that orders them is one to one (`EveryRankIsTaken`); `CandidateChoice` orders by
rank (`InOrder`), as the prover does not see into the sorting of the library.

`ProcessesProofs`: `CallTypeCorrect`, `CallEndsCleanly`, `SuperTypeCorrect`,
`OneEngineRuns`, and `ProcessesTypeCorrect` for both side by side. A reader leaves its
pipe only past the limit or when nobody can write any more, and once the child is gone
nobody forks. `OneEngineRuns` is for any number of supervisors, each started and ended at
will, with deaths among them: until `raced`, an engine is what the pid file names, or
what the one supervisor between its look and the pid file has launched.

`FoldLemmas` are what these proofs know of the library's folds: `MapThenSumSet` over
naturals and `FlattenSeq` over pieces of a sequence. Both are recursive functions chosen
by their equation, and induction with an operator as its parameter is not to be had here.
So the lemmas write a solution down, and show that there is no other at a least place
where two would differ. The sum of naturals is written down as a number of pairs of an
element and a number up to its weight (`Weights`); a sum is then compared with another,
or with a set, as sets are. The sums of records in `PolicyFeedback` are treated the same
way in `WorkflowDayProofs`.

With these, each invariant and each property of a single step that a passing run checks
is a theorem. Their hypotheses, beside the assumptions on constants: no orphaned scan
(`AtMostOneSimulation`), no fault at all (`FinalRowIsSettled`), and `OneOrder`
(`SimulationsWithinBudget`). Model-checked only are the properties that need fairness:
`OpenIsResolved`, `AcceptedIsCollected`, `BoundedCallEnds`, `EngineComesBack`,
`BothMarksStay`, `AmbiguousIsResolved`, `AcceptedIsClosed`, `RegistryCatchesUp`,
`OutboxDrains`, `CreditsAreWritten`, `DeferredIsAskedAgain`, `MemoryResultsArrive` and
`EveryoneIsReviewed`. Liveness and ENABLED are outside this prover's reach.

## 5. Findings

1. `submission_worker.py:42`: an ambiguous POST can lose its job and is then
   never reconciled (`SubmissionWorkerOrphan`): the engine's older copy replaces the
   job, and triage the backlog row that would bring it back. No death is needed. The
   POST is still never repeated.
2. `session.py:343`: a failed authentication leaves an operation `started` that
   nothing will look at (`SimulationScanAuth`).
3. `process_lock.py:131`: an empty lock file is taken for stale
   (`PidFileLockOverlap`).
4. `engine.py:2096`: a simulation accepted by a scan that ended before it wrote
   the row is not counted, and the day can exceed its limit
   (`WorkflowBudgetFamilies`).
5. `policy_feedback.py:210`: a later slice of a stage replaces the scored decision
   of an earlier one (`PolicyFeedbackEvidence`).

`PROJECT.json` quotes the sentence of the documents or the test that each one
contradicts.

Behaviours that the models show and no run is kept for, beside those named with
their modules above:

- `engine.py:2093`: a scan that survives its engine is not guarded by a lock; its
  successor simulates the same candidate (`Faults = {"orphan"}`).
- `client.py:139`: the text of a refusal is dropped, so that ALREADY_SUBMITTED never
  reaches the worker, and an alpha submitted elsewhere ends as rejected.
- `simulation_reconciliation.py:164`: the recovered row is written before the
  operation is finished. A death between the two leaves an operation that the
  next pass takes for done (`Faults = {"gap"}`).
- `engine.py:2062`: a skipped stage counts its allocation as stage spend, and the
  next reconciliation adds it to the day's spent simulations, though nothing was
  simulated (`SkipStage` followed by `LoadLedger`).
- `engine.py:1984`, `runner.py:115-122`, `188-200`: the gate comes with a slice. The
  last candidates' open operations are observed no more when no candidate is left, the
  budget is spent or the day is left, and an accepted simulation without a row is then
  not collected (`DayEnds`).
- `runner.py:188-193`: a spent day is left once its date has passed, reported or not.
  Its undelivered events (`LeaveDay`) and a report or evaluation mark that an older copy
  of the ledger has overwritten (`DatePasses`) are then lost for good. A day that
  is not spent is left only when an engine is started with a later date: a supervisor
  fixes it at its own start (`run/daemon.py:86`), and its engines begin with that one.
- `engine.py:2132`: only the day's first budget-complete report launches the submission
  worker. After its death jobs wait until a person starts another.
- `workflow/daemon.py:179`: two supervisors that look before either has written the pid
  file, or one that ends in between, leave two engines running (`raced`).
- `submission_worker.py:405`: a death between `record_submission` and the job's
  status credits an alpha again at the next tick; `submission_worker.py:132`: old
  waiting jobs count against the tick's limit and may starve new ones. No property
  covers these two.

## 6. Not modelled

- Generation of expressions (`research/alpha_generator.py`, `self_corr_repair.py`,
  `behavioral_proxy.py`, `refiner.py`), prompts, scores, ablation and loop validation:
  they transform data and keep no state that a property could relate.
- `platform/submission.py`, `platform/simulation.py`, `governance/planning.py`,
  `memory/core/governance.py` and `locked_atomic_json_merge`: no caller in the
  repository outside its tests, so no behaviour of the program to be faithful to.
- Dashboard, MCP server and UI: read-only views. Command lines, manifests, contracts
  and configuration: parsing and validation.
- Release, audit, onboarding and maintenance scripts, and `submit_alpha_v2.py`:
  tools outside the running system.
- Windows: job objects of child processes and the liveness test of a pid there.

What would come next: `SimulationScan` and `WorkflowBudget` in one composition, for a
simulation that is accepted and has no row, and the credit the day gives it; and
`BudgetIsKept` for several families, as far as the day's limit holds with them.
