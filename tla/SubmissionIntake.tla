-------------------------- MODULE SubmissionIntake --------------------------
(***************************************************************************)
(* How an alpha gets a submission job: by the engine's tick (registry      *)
(* stage, collect_submit_ready, triage, submission stage) and by an intent *)
(* of the command line (SubmissionExecutor), over two runs that share the  *)
(* submitted-alpha registry, which a worker refreshes in the background.   *)
(*                                                                         *)
(* Triage writes the backlog of its run anew; an intent is appended by     *)
(* read and rewrite, without a lock; a job is made from any backlog row    *)
(* whose alpha has none in the run.  What a job goes through is            *)
(* SubmissionWorker; here it is active until it is submitted or has        *)
(* failed, the two ways the registry tells apart.                          *)
(***************************************************************************)
EXTENDS FiniteSets, Naturals

CONSTANTS ReadyAlphas, Runs, Decisions, NoDecision, NoRun,
          MaxFaults     \* bound: deaths and failing fetches

ASSUME IntakeConstants ==
  NoDecision \notin Decisions /\ NoRun \notin Runs /\ MaxFaults \in Nat

VARIABLES
  submitted,   \* alphas that the platform has as submitted
  registry,    \* submitted_alphas.json, a torn file reads as empty
  syncState,   \* registry_state.json: absent or failed, ok, or ok but old
  fetch,       \* registry worker: what it is about to write
  fetched,     \* the alphas it has read
  backlogOf,   \* submission_backlog.json of each run: rows [alpha, decision]
  jobsOf,      \* submission_state.json of each run: alpha -> status
  ready,       \* alphas of each run with passing rows
  engineTick,  \* the engine's tick: [at, run]
  snapshot,    \* _active_registry_snapshot, and the ready rows
  intent,      \* the executor: [at, decision, alpha, run]
  readRows,    \* the backlog it has read
  decided,     \* decision ids in submission_decisions.jsonl, by run
  rewritten,   \* history: an intent was appended since the tick's triage
  byTick,      \* history: <<run, alpha>> of the jobs made by a tick from the
               \* backlog that it wrote itself
  faults

files == <<submitted, registry, syncState, backlogOf, jobsOf, ready, decided>>
worker == <<fetch, fetched>>
engine == <<engineTick, snapshot>>
executor == <<intent, readRows>>
history == <<rewritten, byTick>>
intakeVars == <<files, worker, engine, executor, history, faults>>

Row(a, d) == [alpha |-> a, decision |-> d]
NoIntent ==
  [at |-> "off", decision |-> NoDecision, alpha |-> CHOOSE a \in ReadyAlphas : TRUE, run |-> NoRun]
Fault == faults < MaxFaults /\ faults' = faults + 1

IntakeInit ==
  /\ submitted \in SUBSET ReadyAlphas /\ registry = {}
  /\ syncState = "notOk"
  /\ fetch = "off" /\ fetched = {}
  /\ backlogOf = [r \in Runs |-> {}]
  /\ jobsOf = [r \in Runs |-> [a \in ReadyAlphas |-> "none"]]
  /\ ready \in [Runs -> SUBSET ReadyAlphas]
  /\ engineTick = [at |-> "idle", run |-> NoRun] /\ snapshot = {}
  /\ intent = NoIntent /\ readRows = {}
  /\ decided \in SUBSET (Runs \X Decisions) /\ rewritten = FALSE /\ byTick = {} /\ faults = 0

----------------------------------------------------------------------------
(* The registry                                                            *)

\* Faulty variant: the run's own jobs alone.
OwnedHere(r) == {a \in ReadyAlphas : jobsOf[r][a] \in {"active", "submitted"}}

\* confirmed_submission_ids: jobs of any run that are neither rejected nor failed.
OwnedBy(r) == {a \in ReadyAlphas : \E s \in Runs : jobsOf[s][a] \in {"active", "submitted"}}

\* Faulty variant: the age of the state is not looked at.
IsCachedForEver == syncState \in {"ok", "old"}

\* sync: a fresh state file that says ok.
IsCached == syncState = "ok"

\* read: what is registered as submitted, and what a job owns.
Registered(r) == registry \cup OwnedBy(r)

\* collect_submit_ready: the passing rows that are not submitted yet; an alpha
\* that the submission script tried in vain counts as one without such rows.
SubmitReady(r) == ready[r] \ Registered(r)

\* run_stage: the snapshot is taken, then a refresh is launched unless one runs.
RegistryStage(r) ==
  /\ engineTick.at = "idle"
  /\ engineTick' = [at |-> "triage", run |-> r]
  /\ snapshot' = SubmitReady(r)
  /\ fetch' = IF ~IsCached /\ fetch = "off" THEN "fetches" ELSE fetch
  /\ UNCHANGED <<files, fetched, executor, history, faults>>

Fetches ==
  /\ fetch = "fetches" /\ fetch' = "tears" /\ fetched' = submitted
  /\ UNCHANGED <<files, engine, executor, history, faults>>

\* The listing succeeds with nothing: its count was refused (AlphaListing).
FetchesNothing ==
  /\ fetch = "fetches" /\ Fault /\ fetch' = "tears" /\ fetched' = {}
  /\ UNCHANGED <<files, engine, executor, history>>

\* write_json of fetch_submitted: the file is truncated before it is written.
Tears ==
  /\ fetch = "tears" /\ fetch' = "writes" /\ registry' = {}
  /\ UNCHANGED <<submitted, syncState, backlogOf, jobsOf, ready, decided, fetched,
                 engine, executor, history, faults>>

Refreshes ==
  /\ fetch = "writes" /\ fetch' = "off" /\ registry' = fetched /\ fetched' = {}
  /\ syncState' = "ok"
  /\ UNCHANGED <<submitted, backlogOf, jobsOf, ready, decided, engine, executor, history, faults>>

\* The fetch raises, or is killed: the worker saves failed_exit.
FetchFails ==
  /\ fetch # "off" /\ Fault
  /\ fetch' = "off" /\ fetched' = {}
  /\ syncState' = "notOk"
  /\ UNCHANGED <<submitted, registry, backlogOf, jobsOf, ready, decided, engine, executor, history>>

\* The worker itself dies: the state stays.
FetchDies ==
  /\ fetch # "off" /\ Fault
  /\ fetch' = "off" /\ fetched' = {}
  /\ UNCHANGED <<files, engine, executor, history>>

StateAges ==
  /\ syncState = "ok" /\ syncState' = "old"
  /\ UNCHANGED <<submitted, registry, backlogOf, jobsOf, ready, decided, worker,
                 engine, executor, history, faults>>

----------------------------------------------------------------------------
(* The engine's tick, and the jobs                                         *)

\* collect_submit_ready and write_closed_loop_artifacts: the backlog is written
\* anew from the rows the snapshot leaves.
Triage ==
  /\ engineTick.at = "triage"
  /\ backlogOf' = [backlogOf EXCEPT ![engineTick.run] = {Row(a, NoDecision) : a \in snapshot}]
  /\ engineTick' = [engineTick EXCEPT !.at = "submission"]
  /\ rewritten' = FALSE
  /\ UNCHANGED <<submitted, registry, syncState, jobsOf, ready, decided, worker,
                 snapshot, executor, byTick, faults>>

\* enqueue_submission_jobs.
WithJobs(r) ==
  [jobsOf EXCEPT ![r] =
     [a \in ReadyAlphas |->
        IF @[a] = "none" /\ \E row \in backlogOf[r] : row.alpha = a THEN "active" ELSE @[a]]]

GetsJob(r) == {a \in ReadyAlphas : jobsOf[r][a] # WithJobs(r)[r][a]}

\* run_submission_stage, if the day is complete and auto_submit_direct is on.
SubmissionStage ==
  /\ engineTick.at = "submission"
  /\ \/ /\ jobsOf' = WithJobs(engineTick.run)
        /\ byTick' = byTick \cup (IF rewritten THEN {} ELSE {engineTick.run} \X GetsJob(engineTick.run))
     \/ UNCHANGED <<jobsOf, byTick>>
  /\ engineTick' = [at |-> "idle", run |-> NoRun] /\ snapshot' = {}
  /\ UNCHANGED <<submitted, registry, syncState, backlogOf, ready, decided, worker,
                 executor, rewritten, faults>>

\* The submission worker of run r makes jobs of its backlog too.
WorkerEnqueues(r) ==
  /\ GetsJob(r) # {}
  /\ jobsOf' = WithJobs(r)
  /\ UNCHANGED <<submitted, registry, syncState, backlogOf, ready, decided, worker,
                 engine, executor, history, faults>>

JobEnds(r, a) ==
  /\ jobsOf[r][a] = "active"
  /\ \/ jobsOf' = [jobsOf EXCEPT ![r][a] = "submitted"] /\ submitted' = submitted \cup {a}
     \/ jobsOf' = [jobsOf EXCEPT ![r][a] = "failed"] /\ UNCHANGED submitted
  /\ UNCHANGED <<registry, syncState, backlogOf, ready, decided, worker, engine,
                 executor, history, faults>>

\* The tick dies, or a stage raises: the next tick starts over.
EngineDies ==
  /\ engineTick.at # "idle" /\ Fault
  /\ engineTick' = [at |-> "idle", run |-> NoRun] /\ snapshot' = {}
  /\ UNCHANGED <<files, worker, executor, history>>

----------------------------------------------------------------------------
(* Intents                                                                 *)

IsDuplicate(r, d) == <<r, d>> \in decided

\* execute: a new decision goes into the ledger first.
Decide(r, d, a) ==
  /\ intent.at = "off"
  /\ IF IsDuplicate(r, d)
       THEN UNCHANGED <<decided, intent>>
       ELSE /\ decided' = decided \cup {<<r, d>>}
            /\ intent' = [at |-> "decided", decision |-> d, alpha |-> a, run |-> r]
  /\ UNCHANGED <<submitted, registry, syncState, backlogOf, jobsOf, ready, worker,
                 engine, readRows, history, faults>>

\* The policy blocks it, or its mode needs a capability that is off.
Blocks ==
  /\ intent.at = "decided" /\ intent' = NoIntent
  /\ UNCHANGED <<files, worker, engine, readRows, history, faults>>

ReadsBacklog ==
  /\ intent.at = "decided"
  /\ intent' = [intent EXCEPT !.at = "appends"] /\ readRows' = backlogOf[intent.run]
  /\ UNCHANGED <<files, worker, engine, history, faults>>

\* _append_backlog
Appends ==
  /\ intent.at = "appends"
  /\ backlogOf' = [backlogOf EXCEPT ![intent.run] = readRows \cup {Row(intent.alpha, intent.decision)}]
  /\ intent' = NoIntent /\ readRows' = {}
  /\ rewritten' = (rewritten \/ intent.run = engineTick.run)
  /\ UNCHANGED <<submitted, registry, syncState, jobsOf, ready, decided, worker,
                 engine, byTick, faults>>

ExecutorDies ==
  /\ intent.at # "off" /\ Fault
  /\ intent' = NoIntent /\ readRows' = {}
  /\ UNCHANGED <<files, worker, engine, history>>

----------------------------------------------------------------------------
TickStep == (\E r \in Runs : RegistryStage(r)) \/ Triage \/ SubmissionStage
RefreshStep == Fetches \/ Tears \/ Refreshes
IntentStep == ReadsBacklog \/ Appends \/ Blocks

IntakeNext ==
  \/ TickStep \/ EngineDies
  \/ RefreshStep \/ FetchesNothing \/ FetchFails \/ FetchDies \/ StateAges
  \/ \E r \in Runs : WorkerEnqueues(r) \/ \E a \in ReadyAlphas : JobEnds(r, a)
  \/ \E r \in Runs, d \in Decisions, a \in ReadyAlphas : Decide(r, d, a)
  \/ IntentStep \/ ExecutorDies

\* The daemon ticks, a fetch goes on, and time passes.
IntakeFairness == WF_intakeVars(TickStep) /\ WF_intakeVars(RefreshStep) /\ WF_intakeVars(StateAges)
IntakeSpec == IntakeInit /\ [][IntakeNext]_intakeVars /\ IntakeFairness

----------------------------------------------------------------------------
(* Properties                                                              *)

IntakeTypeOK ==
  /\ submitted \subseteq ReadyAlphas /\ registry \subseteq ReadyAlphas /\ fetched \subseteq ReadyAlphas
  /\ syncState \in {"notOk", "ok", "old"} /\ fetch \in {"off", "fetches", "tears", "writes"}
  /\ backlogOf \in [Runs -> SUBSET [alpha : ReadyAlphas, decision : Decisions \cup {NoDecision}]]
  /\ jobsOf \in [Runs -> [ReadyAlphas -> {"none", "active", "submitted", "failed"}]]
  /\ engineTick \in [at : {"idle", "triage", "submission"}, run : Runs \cup {NoRun}]
  /\ snapshot \subseteq ReadyAlphas /\ decided \subseteq Runs \X Decisions
  /\ intent.at \in {"off", "decided", "appends"} /\ faults \in 0..MaxFaults

\* Jobs that ticks make from the backlog they wrote never double: an alpha that
\* a job of one run owns is not taken up by the tick of another.
OneTickOwner ==
  \A r, s \in Runs, a \in ReadyAlphas :
    (/\ r # s /\ {<<r, a>>, <<s, a>>} \subseteq byTick
     /\ jobsOf[r][a] = "active") => jobsOf[s][a] # "active"

\* While the daemon ticks, what the platform has as submitted gets into the
\* registry, whatever fetch died or failed before.
RegistryCatchesUp ==
  \A a \in ReadyAlphas : (a \in submitted) ~> (a \in registry)
=============================================================================
