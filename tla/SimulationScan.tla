---------------------------- MODULE SimulationScan ----------------------------
(***************************************************************************)
(* The journaled simulation path of one run directory:                     *)
(*   - execute_scan and reconcile_simulation_side_effects of the workflow  *)
(*     engine: the gate, the "simulation" checkpoint and the scan process; *)
(*   - run_scan (wqb_agent_lab/runtime/scan.py): its own reconciliation,   *)
(*     then concurrent workers that run one thread per candidate;          *)
(*   - SimulationReconciler and OperationJournal;                          *)
(*   - WQBSession.create_simulation and WQBClient.run_simulation;          *)
(*   - the BRAIN platform and the network, external.                       *)
(*                                                                         *)
(* The gate and the scan run in subprocesses of the engine, which may die  *)
(* alone, with the engine, or not at all when the engine dies.  All        *)
(* candidates belong to one sliced configuration and one result file; they *)
(* come before other candidates, of which the engine may have slices until *)
(* the day is over.                                                        *)
(***************************************************************************)
EXTENDS Naturals, Sequences, FiniteSets

CONSTANTS
  Candidates,    \* expression and settings pairs of the sliced configuration
  Processes,     \* identifiers for subprocesses
  Clients,       \* the clients of a scan, one for each of its workers
  NoClient,      \* the client of a thread that has not started
  MaxTries,      \* WQBSession.create_simulation's max_tries
  MaxAttempts,   \* SimulationReconciler.max_attempts
  MaxCrashes,    \* bound: deaths of the engine and of subprocesses
  Twins,         \* candidates that another run has simulated just now
  Faults         \* what may go wrong beside lost messages and deaths

ASSUME ConstantsAssumption ==
  /\ NoClient \notin Clients
  /\ MaxTries \in Nat \ {0}
  /\ MaxAttempts \in Nat \ {0}
  /\ MaxCrashes \in Nat
  /\ Twins \subseteq Candidates
  /\ Faults \subseteq {"auth", "gap", "timeout", "orphan"}

VARIABLES
  journal,      \* operations.db: the simulation.create rows in creation order
  file,         \* the result file: candidate -> row
  checkpoint,   \* the "simulation" stage checkpoint's status
  epc,          \* the engine's control state
  child,        \* the subprocess the engine waits for
  proc,         \* subprocess -> its reconciler's and scan's state
  thread,       \* subprocess -> candidate -> the thread that simulates it
  wire,         \* POSTs on their way to the platform
  created,      \* history: POSTs for which the platform created a simulation
  visible,      \* those whose alpha can be observed
  crashes       \* how many processes have died

platformVars == <<wire, created, visible>>
vars == <<journal, file, checkpoint, epc, child, proc, thread, platformVars, crashes>>

------------------------------------------------------------------------------
(* Data *)

Ambiguous    == {"started", "unknown_commit", "reconciliation_pending"}
DeadOutcomes == {"rejected", "not_accepted_retryable", "not_sent_retryable"}

\* Faulty variant: leaves accepted operations out of a reconciliation.
LiveOutcomesUnresolved == Ambiguous \cup {"manual_review"}

\* Outcomes that the reconciler looks for.
LiveOutcomes == Ambiguous \cup {"accepted", "manual_review"}

Operation == [candidate : Candidates, outcome : LiveOutcomes \cup DeadOutcomes,
              attempts : 0..MaxAttempts, due : BOOLEAN, location : BOOLEAN]

\* A row is told apart by what the reconciler makes of it: a diagnosis of an
\* unknown, pending or reviewed outcome, any other error, or an alpha's metrics.
FinalRows == {"error", "result"}
Row == FinalRows \cup {"none", "unknown", "pending", "review"}

\* A record as the reconciler read it, before it turned to any of them.
Record == [id : Nat, outcome : LiveOutcomes, location : BOOLEAN]

Process == [mode : {"off", "reconcile_only", "reconcile", "scan"}, todo : SUBSET Record,
            recovering : Nat, rows : [Candidates -> Row], stop : BOOLEAN,
            last : [Clients -> LiveOutcomes \cup DeadOutcomes \cup {"none"}]]

Replies == {"none", "accepted", "uncertain", "retry", "refused"}

InCreate == {"begin", "send", "await", "decide_accepted", "decide_other"}
Ended    == {"alpha", "failed", "uncertain"}

Thread == [pc : InCreate \cup Ended \cup {"idle", "poll", "done"}, op : Nat, tries : 0..MaxTries,
           client : Clients \cup {NoClient}, abandoned : BOOLEAN, reply : Replies]

Off == [mode |-> "off", todo |-> {}, recovering |-> 0,
        rows |-> [c \in Candidates |-> "none"], stop |-> FALSE,
        last |-> [w \in Clients |-> "none"]]

Idle == [pc |-> "idle", op |-> 0, tries |-> 0, client |-> NoClient,
         abandoned |-> FALSE, reply |-> "none"]

NoThreads == [c \in Candidates |-> Idle]

Init ==
  /\ journal = <<>>
  /\ file = [c \in Candidates |-> "none"]
  /\ checkpoint = "none"
  /\ epc = "idle"
  /\ child \in Processes
  /\ proc = [p \in Processes |-> Off]
  /\ thread = [p \in Processes |-> NoThreads]
  /\ wire = {}
  /\ created = {}
  /\ visible = {}
  /\ crashes = 0

------------------------------------------------------------------------------
(* The journal.                                                            *)

BeginOperation(c) ==
  journal' = Append(journal, [candidate |-> c, outcome |-> "started",
                              attempts |-> 0, due |-> TRUE, location |-> FALSE])

FinishOperation(i, outcome, location) ==
  journal' = [journal EXCEPT ![i] = [@ EXCEPT !.outcome = outcome, !.location = location]]

\* Faulty variant: one attempt too many.
ReconciliationOutcomeLate(attempts, limit) ==
  IF attempts > limit THEN "manual_review" ELSE "reconciliation_pending"

ReconciliationOutcome(attempts, limit) ==
  IF attempts >= limit THEN "manual_review" ELSE "reconciliation_pending"

\* Faulty variant: the attempt is not counted.
RecordReconciliationAttemptUncounted(i, limit) ==
  journal' = [journal EXCEPT
    ![i] = [@ EXCEPT !.outcome = ReconciliationOutcome(journal[i].attempts + 1, limit), !.due = FALSE]]

RecordReconciliationAttempt(i, limit) ==
  LET attempts == journal[i].attempts + 1
  IN  journal' = [journal EXCEPT
        ![i] = [@ EXCEPT !.attempts = attempts,
                         !.outcome = ReconciliationOutcome(attempts, limit),
                         !.due = FALSE]]

\* next_reconcile_at has passed.
TimePasses(i) ==
  /\ ~journal[i].due
  /\ journal' = [journal EXCEPT ![i].due = TRUE]
  /\ UNCHANGED <<file, checkpoint, epc, child, proc, thread, platformVars, crashes>>

Records ==
  {[id |-> i, outcome |-> journal[i].outcome, location |-> journal[i].location] :
     i \in {k \in DOMAIN journal : journal[k].outcome \in LiveOutcomes}}

Blocking == {i \in DOMAIN journal : journal[i].outcome \in Ambiguous \cup {"manual_review"}}

------------------------------------------------------------------------------
(* The engine: the gate, the checkpoint and the subprocess.                *)

Launch(p, mode) ==
  /\ proc[p].mode = "off"
  /\ proc' = [proc EXCEPT ![p] = [Off EXCEPT !.mode = mode, !.todo = Records]]
  /\ thread' = [thread EXCEPT ![p] = NoThreads]
  /\ child' = p

\* reconcile_simulation_side_effects has something to reconcile.
GateNeeded ==
  \/ Blocking # {}
  \/ checkpoint = "running" /\ \E i \in DOMAIN journal : journal[i].outcome = "accepted"

\* A row of any kind counts as completed: such a candidate is in no new slice.
Left == {c \in Candidates : file[c] = "none"}

\* execute_scan enters the gate with a slice: of these candidates, or elsewhere.
EnterGate(p) ==
  /\ epc = "idle"
  /\ GateNeeded
  /\ epc' = IF Left # {} THEN "gate" ELSE "elsewhere"
  /\ Launch(p, "reconcile_only")
  /\ UNCHANGED <<journal, file, checkpoint, platformVars, crashes>>

GateDecides ==
  /\ epc = "gate"
  /\ proc[child].mode = "off"
  /\ epc' = IF Blocking = {} THEN "clear" ELSE "idle"
  /\ UNCHANGED <<journal, file, checkpoint, child, proc, thread, platformVars, crashes>>

StartScan(p) ==
  /\ \/ epc = "clear"
     \/ epc = "idle" /\ ~GateNeeded /\ Left # {}
  /\ checkpoint' = "running"
  /\ epc' = "scan"
  /\ Launch(p, "reconcile")
  /\ UNCHANGED <<journal, file, platformVars, crashes>>

\* The subprocess's exit code does not matter: partial results are used.
CompleteStage ==
  /\ epc = "scan"
  /\ proc[child].mode = "off"
  /\ epc' = "idle"
  /\ checkpoint' = "completed"
  /\ UNCHANGED <<journal, file, child, proc, thread, platformVars, crashes>>

\* A slice of other candidates is scanned, unless its gate is blocked.
OtherSlice ==
  /\ \/ epc = "elsewhere" /\ proc[child].mode = "off"
     \/ epc = "idle" /\ ~GateNeeded /\ Left = {}
  /\ epc' = "idle"
  /\ checkpoint' = IF Blocking = {} THEN "completed" ELSE checkpoint
  /\ UNCHANGED <<journal, file, child, proc, thread, platformVars, crashes>>

\* The budget is spent or no candidate is left to slice: execute_scan turns back
\* before the gate, or is not called, and the next day has another journal.
DayEnds ==
  /\ epc = "idle"
  /\ epc' = "over"
  /\ UNCHANGED <<journal, file, checkpoint, child, proc, thread, platformVars, crashes>>

\* Only the fault "gap" lets a process die between a recovered row and its finish.
MayDie(p) == proc[p].recovering = 0 \/ "gap" \in Faults

Kill(ps) ==
  /\ \A p \in ps : MayDie(p)
  /\ crashes < MaxCrashes
  /\ crashes' = crashes + 1
  /\ proc' = [p \in Processes |-> IF p \in ps THEN Off ELSE proc[p]]
  /\ thread' = [p \in Processes |-> IF p \in ps THEN NoThreads ELSE thread[p]]

\* The engine dies with its subprocess or, as when it is signalled alone,
\* leaves the subprocess running.
EngineDies(ps) ==
  /\ epc \notin {"idle", "over"}
  /\ epc' = "idle"
  /\ Kill(ps)
  /\ UNCHANGED <<journal, file, checkpoint, child, platformVars>>

\* A subprocess dies, or an exception of a read request ends its reconciliation.
ProcessDies(p) ==
  /\ proc[p].mode # "off"
  /\ Kill({p})
  /\ UNCHANGED <<journal, file, checkpoint, epc, child, platformVars>>

------------------------------------------------------------------------------
(* SimulationReconciler.reconcile.                                         *)

\* The subprocess turns to record r, whose binding has no final row.
Turn(p, r) ==
  /\ proc[p].mode \in {"reconcile_only", "reconcile"}
  /\ proc[p].recovering = 0
  /\ r \in proc[p].todo
  /\ \A s \in proc[p].todo : r.id <= s.id
  /\ file[journal[r.id].candidate] \notin FinalRows

ReplaceRow(r, row) == file' = [file EXCEPT ![journal[r.id].candidate] = row]

Done(p, r) == proc' = [proc EXCEPT ![p].todo = @ \ {r}]

\* The alphas that observation can show for the record: through the location of
\* the simulation, or by expression, settings and creation time.
Polled(r)  == r.location /\ r.id \in visible
Matches(c) == {i \in visible : journal[i].candidate = c} \cup (IF c \in Twins THEN {0} ELSE {})

\* Faulty variant: takes a simulation's location for its alpha.
FoundByLocation(r) == r.location \/ Matches(journal[r.id].candidate) # {}

\* A listing may miss an alpha, so any one match can be the only one it shows.
Found(r) == Polled(r) \/ Matches(journal[r.id].candidate) # {}

ReconcileSkip(p) ==
  /\ proc[p].mode \in {"reconcile_only", "reconcile"}
  /\ proc[p].recovering = 0
  /\ \E r \in proc[p].todo :
       /\ \A s \in proc[p].todo : r.id <= s.id
       /\ file[journal[r.id].candidate] \in FinalRows
       /\ Done(p, r)
  /\ UNCHANGED <<journal, file, checkpoint, epc, child, thread, platformVars, crashes>>

ReconcileManualReview(p, r) ==
  /\ Turn(p, r)
  /\ r.outcome = "manual_review"
  /\ ReplaceRow(r, "review")
  /\ Done(p, r)
  /\ UNCHANGED <<journal, checkpoint, epc, child, thread, platformVars, crashes>>

ReconcileDeferred(p, r) ==
  /\ Turn(p, r)
  /\ r.outcome # "manual_review"
  /\ ~journal[r.id].due
  /\ ReplaceRow(r, "pending")
  /\ Done(p, r)
  /\ UNCHANGED <<journal, checkpoint, epc, child, thread, platformVars, crashes>>

\* The recovered row is written first, the journal in the next step.
ReconcileFound(p, r) ==
  /\ Turn(p, r)
  /\ r.outcome # "manual_review"
  /\ journal[r.id].due
  /\ Found(r)
  /\ ReplaceRow(r, "result")
  /\ proc' = [proc EXCEPT ![p].todo = @ \ {r}, ![p].recovering = r.id]
  /\ UNCHANGED <<journal, checkpoint, epc, child, thread, platformVars, crashes>>

FinishRecovered(p) ==
  /\ proc[p].recovering # 0
  /\ FinishOperation(proc[p].recovering, "accepted", FALSE)
  /\ proc' = [proc EXCEPT ![p].recovering = 0]
  /\ UNCHANGED <<file, checkpoint, epc, child, thread, platformVars, crashes>>

ReconcileSeveral(p, r) ==
  /\ Turn(p, r)
  /\ r.outcome # "manual_review"
  /\ journal[r.id].due
  /\ ~Polled(r)
  /\ Cardinality(Matches(journal[r.id].candidate)) > 1
  /\ RecordReconciliationAttempt(r.id, 1)
  /\ ReplaceRow(r, "review")
  /\ Done(p, r)
  /\ UNCHANGED <<checkpoint, epc, child, thread, platformVars, crashes>>

ReconcileNoMatch(p, r) ==
  /\ Turn(p, r)
  /\ r.outcome # "manual_review"
  /\ journal[r.id].due
  /\ RecordReconciliationAttempt(r.id, MaxAttempts)
  /\ ReplaceRow(r,
       IF ReconciliationOutcome(journal[r.id].attempts + 1, MaxAttempts) = "manual_review"
       THEN "review" ELSE "pending")
  /\ Done(p, r)
  /\ UNCHANGED <<checkpoint, epc, child, thread, platformVars, crashes>>

\* The gate's process ends; a scan reads the result file again and goes on.
ReconcileEnds(p) ==
  /\ proc[p].mode \in {"reconcile_only", "reconcile"}
  /\ proc[p].recovering = 0
  /\ proc[p].todo = {}
  /\ proc' = [proc EXCEPT
       ![p] = IF @.mode = "reconcile_only" THEN Off
              ELSE [@ EXCEPT !.mode = "scan", !.rows = file]]
  /\ UNCHANGED <<journal, file, checkpoint, epc, child, thread, platformVars, crashes>>

ReconcileStep(p) ==
  \/ ReconcileSkip(p)
  \/ \E r \in proc[p].todo :
       \/ ReconcileManualReview(p, r)
       \/ ReconcileDeferred(p, r)
       \/ ReconcileFound(p, r)
       \/ ReconcileSeveral(p, r)
       \/ ReconcileNoMatch(p, r)
  \/ FinishRecovered(p)
  \/ ReconcileEnds(p)

------------------------------------------------------------------------------
(* run_scan: workers take candidates, a thread runs run_simulation for each. *)

Running(c, p) == thread[p][c].pc \notin {"idle", "done"}

Free(p, w) == \A c \in Candidates :
  Running(c, p) /\ ~thread[p][c].abandoned => thread[p][c].client # w

\* A candidate with a row of any kind is skipped: its key is in seen_keys.
Unseen(p, c) == thread[p][c].pc = "idle" /\ proc[p].rows[c] = "none"

StartCandidate(p, c, w) ==
  /\ proc[p].mode = "scan"
  /\ ~proc[p].stop
  /\ Unseen(p, c)
  /\ Free(p, w)
  /\ thread' = [thread EXCEPT ![p][c] = [Idle EXCEPT !.pc = "begin", !.client = w]]
  /\ UNCHANGED <<journal, file, checkpoint, epc, child, proc, platformVars, crashes>>

At(p, c, pc) == proc[p].mode = "scan" /\ thread[p][c].pc = pc

Goto(p, c, pc) == thread' = [thread EXCEPT ![p][c].pc = pc]

BeginSimulation(p, c) ==
  /\ At(p, c, "begin")
  /\ BeginOperation(c)
  /\ thread' = [thread EXCEPT ![p][c].pc = "send", ![p][c].op = Len(journal) + 1,
                              ![p][c].tries = @ + 1, ![p][c].reply = "none"]
  /\ UNCHANGED <<file, checkpoint, epc, child, proc, platformVars, crashes>>

\* The session authenticates inside the request; WQBAuthenticationError is no
\* RequestException, so the operation stays started.
AuthenticationFails(p, c) ==
  /\ "auth" \in Faults
  /\ At(p, c, "send")
  /\ Goto(p, c, "failed")
  /\ UNCHANGED <<journal, file, checkpoint, epc, child, proc, platformVars, crashes>>

Send(p, c) ==
  /\ At(p, c, "send")
  /\ wire' = wire \cup {thread[p][c].op}
  /\ Goto(p, c, "await")
  /\ UNCHANGED <<journal, file, checkpoint, epc, child, proc, created, visible, crashes>>

\* The journal gets the outcome, and the session's last_operation_record, which
\* an abandoned thread of the same client shares.
Finish(p, c, outcome, location) ==
  /\ FinishOperation(thread[p][c].op, outcome, location)
  /\ proc' = [proc EXCEPT ![p].last[thread[p][c].client] = outcome]
  /\ UNCHANGED <<file, checkpoint, epc, child, platformVars, crashes>>

Retry(p, c, otherwise) ==
  Goto(p, c, IF thread[p][c].tries < MaxTries THEN "begin" ELSE otherwise)

NotSent(p, c) ==
  /\ At(p, c, "send")
  /\ Finish(p, c, "not_sent_retryable", FALSE)
  /\ Retry(p, c, "failed")

TransportGivesUp(p, c) ==
  /\ At(p, c, "await")
  /\ Finish(p, c, "unknown_commit", FALSE)
  /\ Goto(p, c, "uncertain")

\* A success without Location, or a server error: the caller has to look.
ReplyUncertain(p, c) ==
  /\ At(p, c, "await")
  /\ thread[p][c].reply = "uncertain"
  /\ Finish(p, c, "unknown_commit", FALSE)
  /\ Goto(p, c, "decide_other")

ReplyAccepted(p, c) ==
  /\ At(p, c, "await")
  /\ thread[p][c].reply = "accepted"
  /\ Finish(p, c, "accepted", TRUE)
  /\ Goto(p, c, "decide_accepted")

ReplyRetry(p, c) ==
  /\ At(p, c, "await")
  /\ thread[p][c].reply = "retry"
  /\ Finish(p, c, "not_accepted_retryable", FALSE)
  /\ Retry(p, c, "decide_other")

ReplyRefused(p, c) ==
  /\ At(p, c, "await")
  /\ thread[p][c].reply = "refused"
  /\ Finish(p, c, "rejected", FALSE)
  /\ Goto(p, c, "decide_other")

\* Faulty variant: reports the response without a look at the journal's outcome.
DecideByResponse(p, c) ==
  /\ proc[p].mode = "scan"
  /\ thread[p][c].pc \in {"decide_accepted", "decide_other"}
  /\ Goto(p, c, IF thread[p][c].pc = "decide_accepted" THEN "poll" ELSE "failed")
  /\ UNCHANGED <<journal, file, checkpoint, epc, child, proc, platformVars, crashes>>

\* run_simulation looks at last_operation_record before it looks at the response.
Decide(p, c) ==
  /\ proc[p].mode = "scan"
  /\ thread[p][c].pc \in {"decide_accepted", "decide_other"}
  /\ Goto(p, c, IF proc[p].last[thread[p][c].client] = "unknown_commit" THEN "uncertain"
                ELSE IF thread[p][c].pc = "decide_accepted" THEN "poll" ELSE "failed")
  /\ UNCHANGED <<journal, file, checkpoint, epc, child, proc, platformVars, crashes>>

PollAlpha(p, c) ==
  /\ At(p, c, "poll")
  /\ thread[p][c].op \in visible
  /\ Goto(p, c, "alpha")
  /\ UNCHANGED <<journal, file, checkpoint, epc, child, proc, platformVars, crashes>>

\* The simulation failed, a poll failed, or the poll budget is exhausted.
PollFails(p, c) ==
  /\ At(p, c, "poll")
  /\ Goto(p, c, "failed")
  /\ UNCHANGED <<journal, file, checkpoint, epc, child, proc, platformVars, crashes>>

\* The row joins the rows in memory, and all of them replace the file.
WriteRow(p, c, row) ==
  /\ proc' = [proc EXCEPT ![p].rows[c] = row, ![p].stop = @ \/ row = "unknown"]
  /\ file' = proc'[p].rows
  /\ UNCHANGED <<journal, checkpoint, epc, child, platformVars, crashes>>

\* The coroutine's row for a thread that has ended: an alpha whose detail cannot
\* be read, or shows another expression, is an error too.
RowFor(pc) ==
  CASE pc = "alpha"     -> {"result", "error"}
    [] pc = "failed"    -> {"error"}
    [] pc = "uncertain" -> {"unknown"}

WriteResult(p, c) ==
  /\ proc[p].mode = "scan"
  /\ thread[p][c].pc \in Ended
  /\ ~thread[p][c].abandoned
  /\ \E row \in RowFor(thread[p][c].pc) : WriteRow(p, c, row)
  /\ Goto(p, c, "done")

\* The subprocess dies while it writes: the file is left torn and reads as empty.
TornWrite(p, c) ==
  /\ proc[p].mode = "scan"
  /\ thread[p][c].pc \in Ended
  /\ ~thread[p][c].abandoned
  /\ file' = [d \in Candidates |-> "none"]
  /\ Kill({p})
  /\ UNCHANGED <<journal, checkpoint, epc, child, platformVars>>

\* asyncio.wait_for gives up; the thread cannot be cancelled and goes on.
TimeOut(p, c) ==
  /\ "timeout" \in Faults
  /\ proc[p].mode = "scan"
  /\ thread[p][c].pc \in InCreate \cup {"poll"}
  /\ ~thread[p][c].abandoned
  /\ WriteRow(p, c, "error")
  /\ thread' = [thread EXCEPT ![p][c].abandoned = TRUE]

AbandonedEnds(p, c) ==
  /\ proc[p].mode = "scan"
  /\ thread[p][c].pc \in Ended
  /\ thread[p][c].abandoned
  /\ Goto(p, c, "done")
  /\ UNCHANGED <<journal, file, checkpoint, epc, child, proc, platformVars, crashes>>

\* The interpreter joins the threads before the process ends.
ScanEnds(p) ==
  /\ proc[p].mode = "scan"
  /\ \A c \in Candidates : ~Running(c, p) /\ (~proc[p].stop => ~Unseen(p, c))
  /\ proc' = [proc EXCEPT ![p] = Off]
  /\ thread' = [thread EXCEPT ![p] = NoThreads]
  /\ UNCHANGED <<journal, file, checkpoint, epc, child, platformVars, crashes>>

ThreadStep(p, c) ==
  \/ BeginSimulation(p, c)
  \/ AuthenticationFails(p, c)
  \/ Send(p, c)
  \/ NotSent(p, c)
  \/ TransportGivesUp(p, c)
  \/ ReplyUncertain(p, c)
  \/ ReplyAccepted(p, c)
  \/ ReplyRetry(p, c)
  \/ ReplyRefused(p, c)
  \/ Decide(p, c)
  \/ PollAlpha(p, c)
  \/ PollFails(p, c)
  \/ AbandonedEnds(p, c)

ScanStep(p) ==
  \/ \E c \in Candidates :
       \/ \E w \in Clients : StartCandidate(p, c, w)
       \/ ThreadStep(p, c)
       \/ WriteResult(p, c)
       \/ TimeOut(p, c)
  \/ ScanEnds(p)

------------------------------------------------------------------------------
(* The platform and the network, external.                                 *)

\* The response reaches the thread that waits for it; "none" is a lost one.
Respond(i, reply) ==
  thread' = [p \in Processes |-> [c \in Candidates |->
    IF thread[p][c].pc = "await" /\ thread[p][c].op = i
    THEN [thread[p][c] EXCEPT !.reply = reply] ELSE thread[p][c]]]

PlatformCreates(i) ==
  /\ i \in wire
  /\ wire' = wire \ {i}
  /\ created' = created \cup {i}
  /\ \E reply \in {"accepted", "uncertain", "none"} : Respond(i, reply)
  /\ UNCHANGED <<journal, file, checkpoint, epc, child, proc, visible, crashes>>

PlatformRefuses(i) ==
  /\ i \in wire
  /\ wire' = wire \ {i}
  /\ \E reply \in {"retry", "refused", "uncertain", "none"} : Respond(i, reply)
  /\ UNCHANGED <<journal, file, checkpoint, epc, child, proc, created, visible, crashes>>

\* The simulation completes with an alpha; some never do.
PlatformCompletes(i) ==
  /\ i \in created \ visible
  /\ visible' = visible \cup {i}
  /\ UNCHANGED <<journal, file, checkpoint, epc, child, proc, thread, wire, created, crashes>>

------------------------------------------------------------------------------
ProcessStep(p) == ReconcileStep(p) \/ ScanStep(p)

EngineStep ==
  \/ \E p \in Processes : EnterGate(p) \/ StartScan(p)
  \/ GateDecides
  \/ CompleteStage
  \/ OtherSlice

Survivors == IF "orphan" \in Faults THEN SUBSET Processes ELSE {{}}

Deaths ==
  \/ \E ps \in Survivors : EngineDies(Processes \ ps)
  \/ \E p \in Processes : ProcessDies(p)
  \/ \E p \in Processes, c \in Candidates : TornWrite(p, c)

PlatformStep ==
  \/ \E i \in wire : PlatformCreates(i) \/ PlatformRefuses(i)
  \/ \E i \in created : PlatformCompletes(i)

ClockStep == \E i \in DOMAIN journal : TimePasses(i)

Next ==
  \/ EngineStep
  \/ DayEnds
  \/ \E p \in Processes : ProcessStep(p)
  \/ Deaths
  \/ PlatformStep
  \/ ClockStep

Spec == Init /\ [][Next]_vars

------------------------------------------------------------------------------
(* Properties                                                              *)

\* Types, and the counters that the reconciliation and creation limits bound.
TypeOK ==
  /\ journal \in Seq(Operation)
  /\ file \in [Candidates -> Row]
  /\ checkpoint \in {"none", "running", "completed"}
  /\ epc \in {"idle", "gate", "elsewhere", "clear", "scan", "over"}
  /\ child \in Processes
  /\ proc \in [Processes -> Process]
  /\ thread \in [Processes -> [Candidates -> Thread]]
  /\ wire \subseteq DOMAIN journal
  /\ created \subseteq DOMAIN journal
  /\ visible \subseteq created
  /\ crashes \in Nat

\* However responses are lost, processes die and files are torn, the platform
\* creates at most one simulation per candidate in this run.
AtMostOneSimulation ==
  \A i, j \in created : journal[i].candidate = journal[j].candidate => i = j

\* A row that reports an alpha reports one that the platform shows for this very
\* candidate, whether the scan or the reconciliation wrote it.
ResultHasAlpha ==
  \A c \in Candidates : file[c] = "result" => Matches(c) # {}

\* A candidate whose row is final, and that no reconciliation will look at again,
\* has no operation that still waits for one: no possible simulation is written off.
FinalRowIsSettled ==
  \A c \in Candidates : file[c] \in FinalRows =>
    \A i \in DOMAIN journal :
      journal[i].candidate = c /\ journal[i].outcome \in Ambiguous
        => \E p \in Processes : proc[p].recovering = i

------------------------------------------------------------------------------
(* Liveness.  The engine ticks until the day is over, of which no moment is *)
(* assumed, and waits for its subprocess; every subprocess runs until it    *)
(* ends or dies; retry delays elapse.  Nothing is assumed of the platform:  *)
(* time limits end every wait for it.                                       *)

MaxOps == Cardinality(Candidates) * MaxTries * (MaxCrashes + 1)

Fairness ==
  /\ WF_vars(EngineStep)
  /\ \A p \in Processes : WF_vars(ProcessStep(p))
  /\ \A i \in 1..MaxOps : WF_vars(i \in DOMAIN journal /\ TimePasses(i))

FairSpec == Spec /\ Fairness

\* While the day goes on and there is a slice to scan, every POST that leaves its
\* outcome open is eventually proved, disproved, or handed to a person, after a
\* bounded number of observations.
OpenIsResolved ==
  LET OutcomeOpen(i) == i \in DOMAIN journal /\ journal[i].outcome \in Ambiguous
  IN  \A i \in 1..MaxOps : OutcomeOpen(i) ~> (~OutcomeOpen(i) \/ epc = "over")

\* A simulation that the platform accepted is not forgotten: a final row reports
\* it, or a person is asked to look, unless the day is over first.
AcceptedIsCollected ==
  \A c \in Candidates :
    (\E i \in DOMAIN journal : journal[i].candidate = c /\ journal[i].outcome = "accepted")
      ~> (file[c] \in FinalRows \cup {"review"} \/ epc = "over")
==============================================================================
