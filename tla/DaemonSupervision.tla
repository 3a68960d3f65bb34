------------------------- MODULE DaemonSupervision -------------------------
(***************************************************************************)
(* The supervisor (scripts/run/daemon.py), the engine it keeps running     *)
(* through a pid file, and the evaluation worker it launches each tick;    *)
(* workflow/daemon.py holds the helpers of all three.  The engine and the  *)
(* worker both read the day's ledger, work on a copy and write the copy    *)
(* back: the engine's ticks are reduced to that (WorkflowBudget has them   *)
(* in full), for one run.  POSIX: a child that has exited stays a zombie,  *)
(* for which kill(pid, 0) succeeds, until its parent exits or starts       *)
(* another process (subprocess polls the children it has forgotten).       *)
(* The dashboard is kept running the same way as the engine.               *)
(***************************************************************************)
EXTENDS Integers, FiniteSets

CONSTANTS Supervisors, NoParent, Pids, NoPid,
          MaxFaults      \* bound: deaths and failing evaluations

ASSUME SupervisionConstants ==
  NoParent \notin Supervisors /\ NoPid \notin Pids /\ MaxFaults \in Nat

VARIABLES
  sup,       \* what each supervisor does next
  started,   \* the process whose pid it has still to write
  proc,      \* what each pid is
  parent,    \* the supervisor that started it
  pidFile,   \* .workflow.pid
  ledger,    \* the ledger file: [spent, report, mark], all Boolean
  passed,    \* the run's date has passed
  engine,    \* each engine's tick: "idle" or "ticks"
  copy,      \* and its ledger
  worker,    \* the evaluation worker; its lock admits one
  held,      \* the worker's ledger
  state,     \* evaluation_worker_state.json: [status, tagged, fresh]
  raced,     \* history: a start that no pid file showed to the next look
  faults

supervision == <<sup, started, pidFile, raced>>
engines == <<proc, parent, engine, copy>>
evaluation == <<worker, held, state>>
day == <<ledger, passed>>
superVars == <<supervision, engines, day, evaluation, faults>>

\* spent: nothing of daily_budget is left; report: last_budget_complete_report;
\* mark: daemon_post_complete_evaluation_at.
NewLedger == [spent |-> FALSE, report |-> FALSE, mark |-> FALSE]
Engines == {p \in Pids : proc[p] = "engine"}

SuperInit ==
  /\ sup = [s \in Supervisors |-> "off"]
  /\ started = [s \in Supervisors |-> NoPid]
  /\ proc = [p \in Pids |-> "free"]
  /\ parent = [p \in Pids |-> NoParent]
  /\ pidFile = NoPid
  /\ ledger = NewLedger /\ passed = FALSE
  /\ engine = [p \in Pids |-> "idle"]
  /\ copy = [p \in Pids |-> NewLedger]
  /\ worker = "off" /\ held = NewLedger
  /\ state = [status |-> "none", tagged |-> FALSE, fresh |-> FALSE]
  /\ raced = FALSE /\ faults = 0

Fault == faults < MaxFaults /\ faults' = faults + 1

----------------------------------------------------------------------------
(* The supervisors                                                         *)

\* Faulty variant: a supervisor knows the process it has started itself.
IsRunningOwn(s) == pidFile # NoPid /\ proc[pidFile] # "free" /\ parent[pidFile] = s

\* is_pid_running of the pid in the file: any process will do.
IsRunning(s) == pidFile # NoPid /\ proc[pidFile] # "free"

\* Nothing keeps a second supervisor away.
Starts(s) ==
  /\ sup[s] = "off" /\ sup' = [sup EXCEPT ![s] = "looks"]
  /\ UNCHANGED <<started, pidFile, raced, engines, day, evaluation, faults>>

Between(s) == sup[s] \in {"launches", "writes"}

\* check_process_status, and the look of ensure_process.
Looks(s) ==
  /\ sup[s] = "looks"
  /\ sup' = [sup EXCEPT ![s] = IF IsRunning(s) THEN "evaluates" ELSE "launches"]
  /\ raced' = (raced \/ (~IsRunning(s) /\ \E t \in Supervisors \ {s} : Between(t)))
  /\ UNCHANGED <<started, pidFile, engines, day, evaluation, faults>>

\* subprocess.Popen by s: its zombies are waited for.
Reaped(s) == [p \in Pids |-> IF proc[p] = "zombie" /\ parent[p] = s THEN "free" ELSE proc[p]]
ParentsIn(procs) == [p \in Pids |-> IF procs[p] = "free" THEN NoParent ELSE parent[p]]

Launches(s) ==
  /\ sup[s] = "launches"
  /\ \E p \in Pids :
       /\ Reaped(s)[p] = "free"
       /\ \A q \in Pids : q < p => Reaped(s)[q] # "free"
       /\ proc' = [Reaped(s) EXCEPT ![p] = "engine"]
       /\ parent' = [ParentsIn(Reaped(s)) EXCEPT ![p] = s]
       /\ started' = [started EXCEPT ![s] = p]
  /\ sup' = [sup EXCEPT ![s] = "writes"]
  /\ UNCHANGED <<pidFile, raced, engine, copy, day, evaluation, faults>>

WritesPid(s) ==
  /\ sup[s] = "writes"
  /\ pidFile' = started[s]
  /\ started' = [started EXCEPT ![s] = NoPid]
  /\ sup' = [sup EXCEPT ![s] = "evaluates"]
  /\ UNCHANGED <<raced, engines, day, evaluation, faults>>

\* Faulty variant: the age of the state file is not looked at.
IsFreshForEver ==
  /\ state.status = "no_completed_evaluation"
  /\ ledger.report => state.tagged

\* _evaluation_state_fresh_for_run; the worker's "evaluation_complete" is not in
\* its list.
IsFresh ==
  /\ state.status = "no_completed_evaluation" /\ state.fresh
  /\ ledger.report => state.tagged

\* launch_evaluation_worker; a second worker finds the lock taken and exits.
Evaluates(s) ==
  /\ sup[s] = "evaluates"
  /\ sup' = [sup EXCEPT ![s] = "sleeps"]
  /\ IF IsFresh
       THEN UNCHANGED <<proc, parent, worker>>
       ELSE /\ proc' = Reaped(s) /\ parent' = ParentsIn(Reaped(s))
            /\ worker' = IF worker = "off" THEN "reads" ELSE worker
  /\ UNCHANGED <<started, pidFile, raced, engine, copy, day, held, state, faults>>

Sleeps(s) ==
  /\ sup[s] = "sleeps" /\ sup' = [sup EXCEPT ![s] = "looks"]
  /\ UNCHANGED <<started, pidFile, raced, engines, day, evaluation, faults>>

\* A signal, an exception of the launch, --once: nothing is stopped or removed,
\* and init waits for what it leaves.
SupervisorEnds(s) ==
  /\ sup[s] # "off" /\ Fault
  /\ sup' = [sup EXCEPT ![s] = "off"]
  /\ started' = [started EXCEPT ![s] = NoPid]
  /\ proc' = Reaped(s)
  /\ parent' = [p \in Pids |-> IF parent[p] = s THEN NoParent ELSE parent[p]]
  /\ raced' = (raced \/ sup[s] = "writes")
  /\ UNCHANGED <<pidFile, engine, copy, day, evaluation>>

----------------------------------------------------------------------------
(* The engines                                                             *)

\* Faulty variant: a spent budget ends the day, with or without its report.
DayIsOverSpent == ledger.spent

\* The tests of run_daemon before a tick: a reported day is over, and once its
\* date has passed a spent one, reported or not.
DayIsOver == ledger.spent /\ (ledger.report \/ passed)

\* Before the budget is spent nothing looks at it.
DatePasses ==
  /\ ledger.spent /\ ~passed /\ passed' = TRUE
  /\ UNCHANGED <<supervision, engines, ledger, evaluation, faults>>

TickBegins(p) ==
  /\ proc[p] = "engine" /\ engine[p] = "idle" /\ ~DayIsOver
  /\ engine' = [engine EXCEPT ![p] = "ticks"]
  /\ copy' = [copy EXCEPT ![p] = ledger]
  /\ UNCHANGED <<supervision, proc, parent, day, evaluation, faults>>

\* The plan, the preflight and the credit of a scan write the copy.
TickWrites(p) ==
  /\ proc[p] = "engine" /\ engine[p] = "ticks" /\ ~copy[p].spent
  /\ \/ /\ ledger' = copy[p]
        /\ engine' = [engine EXCEPT ![p] = "idle"]
        /\ copy' = [copy EXCEPT ![p] = NewLedger]
     \/ /\ ledger' = [copy[p] EXCEPT !.spent = TRUE]
        /\ copy' = [copy EXCEPT ![p] = ledger']
        /\ UNCHANGED engine
  /\ UNCHANGED <<supervision, proc, parent, passed, evaluation, faults>>

\* write_daily_report when the budget is spent.
TickReports(p) ==
  /\ proc[p] = "engine" /\ engine[p] = "ticks" /\ copy[p].spent
  /\ ledger' = [copy[p] EXCEPT !.report = TRUE]
  /\ copy' = [copy EXCEPT ![p] = NewLedger]
  /\ engine' = [engine EXCEPT ![p] = "idle"]
  /\ UNCHANGED <<supervision, proc, parent, passed, evaluation, faults>>

\* It dies, or exits after the summary.
EngineEnds(p) ==
  /\ proc[p] = "engine" /\ Fault
  /\ proc' = [proc EXCEPT ![p] = IF parent[p] = NoParent THEN "free" ELSE "zombie"]
  /\ engine' = [engine EXCEPT ![p] = "idle"]
  /\ copy' = [copy EXCEPT ![p] = NewLedger]
  /\ UNCHANGED <<supervision, parent, day, evaluation>>

PidIsReused(p) ==
  /\ proc[p] = "free" /\ p = pidFile
  /\ proc' = [proc EXCEPT ![p] = "other"]
  /\ UNCHANGED <<supervision, parent, engine, copy, day, evaluation, faults>>

OtherEnds(p) ==
  /\ proc[p] = "other" /\ proc' = [proc EXCEPT ![p] = "free"]
  /\ UNCHANGED <<supervision, parent, engine, copy, day, evaluation, faults>>

----------------------------------------------------------------------------
(* The evaluation worker                                                   *)

\* _ledger_completed
IsCompleted(l) == l.report \/ l.spent

\* Faulty variant: saves the status that _evaluation_state_fresh_for_run expects.
SavesOk(status, tagged) ==
  /\ state' = [status |-> IF status = "evaluation_complete" THEN "ok" ELSE status,
               tagged |-> tagged, fresh |-> TRUE]
  /\ worker' = "off" /\ held' = NewLedger

Saves(status, tagged) ==
  /\ state' = [status |-> status, tagged |-> tagged, fresh |-> TRUE]
  /\ worker' = "off" /\ held' = NewLedger

\* run_completion_hooks up to the suite.
WorkerReads ==
  /\ worker = "reads"
  /\ IF IsCompleted(ledger) /\ ~ledger.mark
       THEN worker' = "evaluates" /\ held' = ledger /\ UNCHANGED state
       ELSE Saves("no_completed_evaluation", IsCompleted(ledger))
  /\ UNCHANGED <<supervision, engines, day, faults>>

EvaluationFails ==
  /\ worker = "evaluates" /\ Fault
  /\ Saves("no_completed_evaluation", TRUE)
  /\ UNCHANGED <<supervision, engines, day>>

Marked == [held EXCEPT !.mark = TRUE]

\* The marks are written with the ledger read before the suite ran.
WorkerMarks ==
  /\ worker = "evaluates" /\ worker' = "notifies"
  /\ ledger' = Marked
  /\ UNCHANGED <<supervision, engines, passed, held, state, faults>>

\* And once more, with the outcome of the callback.
WorkerNotifies ==
  /\ worker = "notifies"
  /\ ledger' = Marked
  /\ Saves("evaluation_complete", TRUE)
  /\ UNCHANGED <<supervision, engines, passed, faults>>

WorkerDies ==
  /\ worker # "off" /\ Fault
  /\ worker' = "off" /\ held' = NewLedger
  /\ UNCHANGED <<supervision, engines, day, state>>

StateAges ==
  /\ state.fresh /\ state' = [state EXCEPT !.fresh = FALSE]
  /\ UNCHANGED <<supervision, engines, day, worker, held, faults>>

----------------------------------------------------------------------------
SupervisorStep(s) == Looks(s) \/ Launches(s) \/ WritesPid(s) \/ Evaluates(s) \/ Sleeps(s)
EngineStep(p) == TickBegins(p) \/ TickWrites(p) \/ TickReports(p)
WorkerStep == WorkerReads \/ WorkerMarks \/ WorkerNotifies

SuperNext ==
  \/ \E s \in Supervisors : Starts(s) \/ SupervisorStep(s) \/ SupervisorEnds(s)
  \/ \E p \in Pids : EngineStep(p) \/ EngineEnds(p) \/ PidIsReused(p) \/ OtherEnds(p)
  \/ WorkerStep \/ EvaluationFails \/ WorkerDies \/ StateAges \/ DatePasses

\* Processes run and files age; that a supervisor is started, that a foreign
\* process ends, or that the date passes, is not assumed.
SuperFairness ==
  /\ \A s \in Supervisors : WF_superVars(SupervisorStep(s))
  /\ \A p \in Pids : WF_superVars(EngineStep(p))
  /\ WF_superVars(WorkerStep) /\ WF_superVars(StateAges)

SuperSpec == SuperInit /\ [][SuperNext]_superVars /\ SuperFairness

----------------------------------------------------------------------------
(* Properties                                                              *)

Ledgers == [spent : BOOLEAN, report : BOOLEAN, mark : BOOLEAN]
SuperTypeOK ==
  /\ sup \in [Supervisors -> {"off", "looks", "launches", "writes", "evaluates", "sleeps"}]
  /\ started \in [Supervisors -> Pids \cup {NoPid}]
  /\ proc \in [Pids -> {"free", "engine", "zombie", "other"}]
  /\ parent \in [Pids -> Supervisors \cup {NoParent}] /\ pidFile \in Pids \cup {NoPid}
  /\ ledger \in Ledgers /\ passed \in BOOLEAN /\ held \in Ledgers /\ copy \in [Pids -> Ledgers]
  /\ engine \in [Pids -> {"idle", "ticks"}]
  /\ worker \in {"off", "reads", "evaluates", "notifies"}
  /\ state.status \in {"none", "evaluation_complete", "no_completed_evaluation"}
  /\ raced \in BOOLEAN /\ faults \in 0..MaxFaults

\* The pid file keeps a second engine away, over any restart of the supervisor:
\* a second one runs only when two supervisors were between their look and their
\* pid file at once, or one died there.
OneEngine == raced \/ Cardinality(Engines) <= 1

AloneAtLast ==
  \E s \in Supervisors :
    <>[](sup[s] # "off" /\ \A t \in Supervisors \ {s} : sup[t] = "off")

\* While one supervisor stays up, alone, an engine that ends is replaced, although its
\* zombie counts as running until the supervisor starts an evaluation worker;
\* a foreign process that got its pid is taken for it.
EngineComesBack ==
  AloneAtLast => []<>(\/ Engines # {}
                      \/ \E p \in Pids : proc[p] = "other")

\* The engine's report and the worker's mark overwrite each other when either
\* was read before the other was written, and yet both are in the ledger at last,
\* if the date does not pass before: then the day is left as it is.
BothMarksStay ==
  (AloneAtLast /\ <>[](ledger.spent /\ Engines # {} /\ ~passed))
    => <>[](ledger.report /\ ledger.mark)
=============================================================================
