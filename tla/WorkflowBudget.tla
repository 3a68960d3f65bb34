--------------------------- MODULE WorkflowBudget ---------------------------
(***************************************************************************)
(* One day of the workflow daemon: WorkflowRunner.run_daemon and run_tick, *)
(* the budget ledger, the stage slices, the crediting of a scan's results  *)
(* and the workflow outbox (workflow/engine.py, workflow/runner.py).       *)
(*                                                                         *)
(* The ledger lives in memory for one tick.  A scan's credit reaches the   *)
(* file only through the outbox: the event carries a copy of the ledger,   *)
(* and each delivery, a replay included, writes its copy over the file.    *)
(* What a stage has completed is read back from the slices in the config   *)
(* directory and the stage's result file.  A slice is named after its      *)
(* stage and its size, so a second slice of one size replaces the first.   *)
(*                                                                         *)
(* Left to SimulationScan: the journal, the gate's decision, and a scan    *)
(* that outlives its engine; here the scan dies with it.  Candidates the   *)
(* research policy blocks are not in Candidates.  The diversity caps are   *)
(* one number: all candidates share the field or base that is capped.      *)
(***************************************************************************)
EXTENDS Naturals, SequencesExt

CONSTANTS
  StageBudget,    \* stage_budgets in stage_order: a sequence of numbers
  DailyBudget,    \* daily_budget
  Candidates,     \* candidates of the queued scan config, by position
  Invalid,        \* candidates that the expression preflight blocks
  Families,       \* behavior families, numbered as their names sort
  Family,         \* the family of each candidate
  Diverse,        \* how many the diversity caps let through at a time
  MaxFailures,    \* bound: deliveries that fail
  MaxCrashes      \* bound: ticks that die or raise, result files torn

ASSUME ConstantsAssumption ==
  /\ StageBudget \in Seq(Nat \ {0})
  /\ DailyBudget \in Nat \ {0}
  /\ Candidates \subseteq Nat /\ IsFiniteSet(Candidates)
  /\ Invalid \subseteq Candidates
  /\ Families \subseteq Nat /\ IsFiniteSet(Families)
  /\ Family \in [Candidates -> Families]
  /\ Diverse \in Nat \ {0}
  /\ MaxFailures \in Nat
  /\ MaxCrashes \in Nat

VARIABLES
  file,       \* the ledger file
  outbox,     \* ledgers of the undelivered events, oldest first
  slices,     \* sliced scan configs: stage -> size -> candidates
  rows,       \* result files: stage -> candidates with a row
  simulated,  \* stage -> candidates its scans asked the platform to simulate
  pc,         \* where the daemon is
  mem,        \* the tick's ledger
  todo,       \* events the current drain has still to deliver
  after,      \* where the tick goes on after the drain
  plan,       \* the tick's StagePlan
  failures, crashes

disk == <<file, outbox, slices, rows>>
tick == <<mem, todo, after, plan>>
vars == <<disk, simulated, pc, tick, failures, crashes>>

Stages == DOMAIN StageBudget
Sizes == 1..DailyBudget
NoPlan == [stage |-> 0, slice |-> {}]
NewLedger == [spent |-> 0, spend |-> [s \in Stages |-> 0], report |-> FALSE]
Smaller(m, n) == IF m < n THEN m ELSE n
Larger(m, n) == IF m < n THEN n ELSE m

Init ==
  /\ file = NewLedger
  /\ outbox = <<>>
  /\ slices = [s \in Stages |-> [n \in Sizes |-> {}]]
  /\ rows = [s \in Stages |-> {}]
  /\ simulated = [s \in Stages |-> {}]
  /\ pc = "idle"
  /\ mem = NewLedger
  /\ todo = <<>>
  /\ after = "idle"
  /\ plan = NoPlan
  /\ failures = 0
  /\ crashes = 0

------------------------------------------------------------------------------
(* The ledger.                                                             *)

\* remaining_simulations_after_commitments; nothing is ever committed.
Remaining(ledger) ==
  IF ledger.spent < DailyBudget THEN DailyBudget - ledger.spent ELSE 0

Exhausted(ledger) == Remaining(ledger) = 0

\* The candidates that count as completed: a row of the result file for a
\* candidate of a slice that is still there.
Completed(s) == UNION {slices[s][n] \cap rows[s] : n \in Sizes}

Total(spend) == MapThenSumSet(LAMBDA s : spend[s], Stages)

\* Faulty variant: does not cap the day's spend.
ReconciledUncapped(ledger) ==
  LET spend == [s \in Stages |->
                  Larger(ledger.spend[s], Cardinality(Completed(s)))]
  IN  [ledger EXCEPT !.spend = spend, !.spent = Larger(@, Total(spend))]

\* Faulty variant: leaves the day's spend alone.
ReconciledStagesOnly(ledger) ==
  [ledger EXCEPT !.spend = [s \in Stages |->
                              Larger(@[s], Cardinality(Completed(s)))]]

\* A tick starts by crediting what the disk shows.
Reconciled(ledger) ==
  LET spend == [s \in Stages |->
                  Larger(ledger.spend[s], Cardinality(Completed(s)))]
  IN  [ledger EXCEPT !.spend = spend,
         !.spent = Smaller(DailyBudget, Larger(@, Total(spend)))]

\* completed_candidate_count: candidates of the slice that the result file has.
CompletedOf(s, slice) == Cardinality(slice \cap rows[s])

\* The ledger after a scan of the slice of stage s.
Credited(ledger, s, slice) ==
  LET target == Smaller(StageBudget[s], ledger.spend[s] + CompletedOf(s, slice))
  IN  [ledger EXCEPT !.spend[s] = target,
                     !.spent = @ + (target - ledger.spend[s])]

------------------------------------------------------------------------------
(* The plan.                                                               *)

Ready(ledger) ==
  {s \in Stages : Remaining(ledger) > 0 /\ ledger.spend[s] < StageBudget[s]}

Available(s) ==
  Candidates \ (Completed(s) \cup
                UNION {slices[t][n] : t \in 1..(s - 1), n \in Sizes})

\* Faulty variant: forgets the day's limit.
RoomOfStage(ledger, s) == StageBudget[s] - ledger.spend[s]

Room(ledger, s) == Smaller(StageBudget[s] - ledger.spend[s], Remaining(ledger))

\* choose_budgeted_candidates goes round the families, those with most open
\* candidates first, and takes the next candidate of each.
Members(f, open) == {c \in open : Family[c] = f}

Round(c, open) == Cardinality({d \in Members(Family[c], open) : d < c})

FamilyFirst(f, g, open) ==
  LET m == Cardinality(Members(f, open))
      n == Cardinality(Members(g, open))
  IN  m > n \/ (m = n /\ f < g)

Before(c, d, open) ==
  \/ Round(c, open) < Round(d, open)
  \/ /\ Round(c, open) = Round(d, open)
     /\ FamilyFirst(Family[c], Family[d], open)

First(k, open) == {d \in open : Cardinality({c \in open : Before(c, d, open)}) < k}

\* Its caps apply only when not all of them fit.
Chosen(ledger, s) ==
  LET room == Room(ledger, s)
      open == Available(s)
  IN  IF Cardinality(open) <= room THEN open
                                   ELSE First(Smaller(room, Diverse), open)

Slice(ledger, s) == Chosen(ledger, s) \ Invalid

------------------------------------------------------------------------------
(* The outbox.                                                             *)

\* _enqueue_stage_event: the key of an event is the hash of its payload.
IsKnown(ledger) == Contains(outbox, ledger)

\* INSERT OR IGNORE
Enqueued(ledger) ==
  IF IsKnown(ledger) THEN outbox ELSE Append(outbox, ledger)

StartDrain(events, next) ==
  /\ todo' = events
  /\ after' = next
  /\ pc' = "drain"

\* _score_decision_attribution, run_diagnosis_triage or the callback raises.
DeliveryFails ==
  /\ pc = "drain" /\ todo # <<>>
  /\ failures < MaxFailures
  /\ failures' = failures + 1
  /\ todo' = Tail(todo)
  /\ UNCHANGED <<disk, simulated, pc, mem, after, plan, crashes>>

Deliver ==
  /\ pc = "drain" /\ todo # <<>>
  /\ file' = Head(todo)
  /\ pc' = "mark"
  /\ UNCHANGED <<outbox, slices, rows, simulated, tick, failures, crashes>>

MarkDelivered ==
  /\ pc = "mark"
  /\ \E i \in DOMAIN outbox :
       /\ outbox[i] = Head(todo)
       /\ outbox' = RemoveAt(outbox, i)
  /\ todo' = Tail(todo)
  /\ pc' = "drain"
  /\ UNCHANGED <<file, slices, rows, simulated, mem, after, plan,
                 failures, crashes>>

Forget == /\ mem' = NewLedger /\ todo' = <<>>
          /\ after' = "idle" /\ plan' = NoPlan

DrainEnds ==
  /\ pc = "drain" /\ todo = <<>>
  /\ pc' = after
  /\ IF after = "idle" THEN Forget ELSE UNCHANGED tick
  /\ UNCHANGED <<disk, simulated, failures, crashes>>

------------------------------------------------------------------------------
(* The tick.                                                               *)

\* The daemon leaves a reported day alone.
DayOver == Exhausted(file) /\ file.report

\* Once the date has passed, the daemon goes on to the next day as soon as
\* the budget is used, whether or not the day was reported.
LeaveDay ==
  /\ pc = "idle" /\ Exhausted(file)
  /\ pc' = "left"
  /\ UNCHANGED <<disk, simulated, tick, failures, crashes>>

\* Faulty variant: does not replay undelivered events.
TickBeginsWithoutReplay ==
  /\ pc = "idle" /\ ~DayOver
  /\ StartDrain(<<>>, "load")
  /\ UNCHANGED <<disk, simulated, mem, plan, failures, crashes>>

\* Faulty variant: starts a tick after the day's report.
TickBeginsAnyway ==
  /\ pc = "idle"
  /\ StartDrain(outbox, "load")
  /\ UNCHANGED <<disk, simulated, mem, plan, failures, crashes>>

TickBegins ==
  /\ pc = "idle" /\ ~DayOver
  /\ StartDrain(outbox, "load")
  /\ UNCHANGED <<disk, simulated, mem, plan, failures, crashes>>

LoadLedger ==
  /\ pc = "load"
  /\ mem' = Reconciled(file)
  /\ file' = Reconciled(file)
  /\ pc' = IF Exhausted(mem') THEN "report" ELSE "plan"
  /\ UNCHANGED <<outbox, slices, rows, simulated, todo, after, plan,
                 failures, crashes>>

WriteReport ==
  /\ pc = "report"
  /\ file' = [mem EXCEPT !.report = TRUE]
  /\ pc' = "idle"
  /\ Forget
  /\ UNCHANGED <<outbox, slices, rows, simulated, failures, crashes>>

\* waiting_for_scan_config, as a queued config may be missing, or
\* no_budgeted_stage_ready.
NothingToScan ==
  /\ pc = "plan"
  /\ pc' = "idle"
  /\ Forget
  /\ UNCHANGED <<disk, simulated, failures, crashes>>

PrepareSlice ==
  /\ pc = "plan" /\ Ready(mem) # {}
  /\ LET s == Min(Ready(mem))
         slice == Slice(mem, s)
     IN  /\ slice # {}
         /\ slices' = [slices EXCEPT ![s][Cardinality(slice)] = slice]
         /\ plan' = [stage |-> s, slice |-> slice]
  /\ pc' = "gate"
  /\ UNCHANGED <<file, outbox, rows, simulated, mem, todo, after,
                 failures, crashes>>

\* No candidates: the whole allocation of the stage counts as spent.
SkipStage ==
  /\ pc = "plan" /\ Ready(mem) # {}
  /\ LET s == Min(Ready(mem))
         skipped == [mem EXCEPT !.spend[s] = StageBudget[s]]
     IN  /\ Slice(mem, s) = {}
         /\ mem' = skipped
         /\ outbox' = Enqueued(skipped)
  /\ StartDrain(outbox', "idle")
  /\ UNCHANGED <<file, slices, rows, simulated, plan, failures, crashes>>

\* reconcile_simulation_side_effects, whose answer SimulationScan explains:
\* it may find the results of earlier scans for the slices that are left.
Recover(c) ==
  /\ pc = "gate"
  /\ \E s \in Stages :
       /\ c \in simulated[s] \ rows[s]
       /\ \E n \in Sizes : c \in slices[s][n]
       /\ rows' = [rows EXCEPT ![s] = @ \cup {c}]
  /\ UNCHANGED <<file, outbox, slices, simulated, pc, tick, failures, crashes>>

Gate ==
  /\ pc = "gate"
  /\ \/ pc' = "scan" /\ UNCHANGED tick
     \/ pc' = "idle" /\ Forget
  /\ UNCHANGED <<disk, simulated, failures, crashes>>

Credit ==
  /\ pc = "credited"
  /\ LET ledger == Credited(mem, plan.stage, plan.slice)
     IN  /\ mem' = ledger
         /\ outbox' = Enqueued(ledger)
         /\ StartDrain(outbox', IF ledger # mem /\ Exhausted(ledger)
                                THEN "report" ELSE "idle")
  /\ UNCHANGED <<file, slices, rows, simulated, plan, failures, crashes>>

\* The process dies or the tick raises; the daemon, or the process that its
\* supervisor starts again for the same date, starts a new tick.
TickDies ==
  /\ pc \notin {"idle", "left"}
  /\ crashes < MaxCrashes
  /\ crashes' = crashes + 1
  /\ pc' = "idle"
  /\ Forget
  /\ UNCHANGED <<disk, simulated, failures>>

------------------------------------------------------------------------------
(* The scan, a subprocess of the tick.                                     *)

\* The journal lets a candidate of this run be posted once.
Simulate(c) ==
  /\ pc = "scan" /\ c \in plan.slice
  /\ \A s \in Stages : c \notin simulated[s]
  /\ simulated' = [simulated EXCEPT ![plan.stage] = @ \cup {c}]
  /\ UNCHANGED <<disk, pc, tick, failures, crashes>>

FileRow(c) ==
  /\ pc = "scan" /\ c \in plan.slice \ rows[plan.stage]
  /\ \E s \in Stages : c \in simulated[s]
  /\ rows' = [rows EXCEPT ![plan.stage] = @ \cup {c}]
  /\ UNCHANGED <<file, outbox, slices, simulated, pc, tick, failures, crashes>>

\* The scan dies while it rewrites its result file in place: what is left
\* reads as an empty file.
TearResults ==
  /\ pc = "scan"
  /\ crashes < MaxCrashes
  /\ crashes' = crashes + 1
  /\ rows' = [rows EXCEPT ![plan.stage] = {}]
  /\ pc' = "credited"
  /\ UNCHANGED <<file, outbox, slices, simulated, tick, failures>>

\* Complete or not: the engine uses partial results.
ScanEnds ==
  /\ pc = "scan"
  /\ pc' = "credited"
  /\ UNCHANGED <<disk, simulated, tick, failures, crashes>>

------------------------------------------------------------------------------
Drain == DeliveryFails \/ Deliver \/ MarkDelivered \/ DrainEnds

Tick == TickBegins \/ LoadLedger \/ WriteReport \/ NothingToScan
        \/ PrepareSlice \/ SkipStage \/ Gate \/ Credit \/ ScanEnds

Scan == \E c \in Candidates : Recover(c) \/ Simulate(c) \/ FileRow(c)

Next == Drain \/ Tick \/ Scan \/ TearResults \/ TickDies \/ LeaveDay

\* The daemon ticks until it leaves the day, and a scan ends.  Nothing says
\* when the date passes.
Fairness == WF_vars(Drain \/ Tick)

Spec == Init /\ [][Next]_vars /\ Fairness

------------------------------------------------------------------------------
(* Properties.                                                             *)

Ledgers == [spent : 0..DailyBudget, spend : [Stages -> Nat], report : BOOLEAN]

\* No ledger in the file, in memory or in an event counts more than the
\* day's budget or more than a stage's allocation.
TypeOK ==
  /\ file \in Ledgers
  /\ mem \in Ledgers
  /\ outbox \in Seq(Ledgers)
  /\ todo \in Seq(Ledgers)
  /\ slices \in [Stages -> [Sizes -> SUBSET Candidates]]
  /\ rows \in [Stages -> SUBSET Candidates]
  /\ simulated \in [Stages -> SUBSET Candidates]
  /\ pc \in {"idle", "drain", "mark", "load", "report", "plan", "gate",
             "scan", "credited", "left"}
  /\ after \in {"idle", "load", "report"}
  /\ plan \in [stage : 0..Len(StageBudget), slice : SUBSET Candidates]
  /\ failures \in 0..MaxFailures
  /\ crashes \in 0..MaxCrashes
  /\ \A s \in Stages : file.spend[s] <= StageBudget[s]

AllSimulated == UNION {simulated[s] : s \in Stages}
AllFiled == UNION {rows[s] : s \in Stages}

\* engine.py:1493: whatever dies, fails or is replayed, a day asks for no
\* more simulations than its budget, and a stage for no more than its
\* allocation.
SimulationsWithinBudget ==
  /\ Cardinality(AllSimulated) <= DailyBudget
  /\ \A s \in Stages : Cardinality(simulated[s]) <= StageBudget[s]

\* runner.py:188: the ledger of a reported day is final.
ReportIsKept == [][DayOver => file' = file]_vars

\* runner.py:74: an event whose delivery failed is delivered by a later
\* tick, unless the day is over, or left for the next one, first.
OutboxDrains == outbox # <<>> ~> (outbox = <<>> \/ DayOver \/ pc = "left")

\* engine.py:1421: what a scan has filed is in the ledger file in the end,
\* although replays write old ledgers over it, unless the result is lost.
CreditsAreWritten ==
  \A n \in 1..DailyBudget :
    Cardinality(AllFiled) >= n ~> (file.spent >= n \/ Cardinality(AllFiled) < n)
=============================================================================
