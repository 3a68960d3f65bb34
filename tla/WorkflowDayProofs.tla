------------------------- MODULE WorkflowDayProofs --------------------------
(***************************************************************************)
(* Theorems about what a tick of the workflow decides from the files of    *)
(* earlier ticks: the final report of a day's budget, the planning stage,  *)
(* the limit the budget sets to the simulations of a day, and the gate     *)
(* that gives the policy feedback control of a slice.                      *)
(***************************************************************************)
EXTENDS MCWorkflowDay, FoldLemmas

-----------------------------------------------------------------------------
(***************************************************************************)
(* The ledger of a reported day is final: no replay of an event and no     *)
(* later tick changes it, whatever failed or died before.  The argument:   *)
(* events and ticks only carry ledgers without a report, and a report is   *)
(* written last, when the tick is over and the day's budget is used up.    *)
(***************************************************************************)
\* What the argument needs of a ledger's form; its numbers play no part.
IsLedger(ledger) ==
  /\ ledger = [field \in {"spent", "spend", "report"} |-> ledger[field]]
  /\ ledger.report \in BOOLEAN

IsOpen(ledger) == IsLedger(ledger) /\ ~ledger.report

CarriesOpen(events) == \E S : events \in Seq(S) /\ \A l \in S : IsOpen(l)

\* Whatever can be written over the file is without a report.
OpenLedgers ==
  /\ IsOpen(mem)
  /\ CarriesOpen(outbox)
  /\ CarriesOpen(todo)
  /\ pc = "mark" => todo # <<>>

\* A report is written for an exhausted ledger only, and ends its tick.
ReportIsLast ==
  /\ IsLedger(file)
  /\ file.report => pc \in {"idle", "left"} /\ Exhausted(file)
  /\ pc = "report" => Exhausted(mem)
  /\ after = "report" => Exhausted(mem)
  /\ after \in {"idle", "load", "report"}
  /\ pc = "load" => after = "load"

IndInv == OpenLedgers /\ ReportIsLast

-------------------------------------------------------------------------------
(* Lemmas.                                                                 *)

\* The numbers of a ledger may change.
LEMMA NumbersDoNotMatter ==
  ASSUME NEW ledger, IsOpen(ledger), NEW a, NEW b
  PROVE  /\ IsOpen([ledger EXCEPT !.spend = a])
         /\ IsOpen([ledger EXCEPT !.spend = a, !.spent = b])
<1>1. ledger = [field \in {"spent", "spend", "report"} |-> ledger[field]]
  BY DEF IsOpen, IsLedger
<1>2. DOMAIN ledger = {"spent", "spend", "report"}
  BY <1>1
<1>3. ASSUME NEW l, l = [ledger EXCEPT !.spend = a]
      PROVE  IsOpen(l)
  BY <1>2, <1>3 DEF IsOpen, IsLedger
<1>4. ASSUME NEW l, l = [ledger EXCEPT !.spend = a, !.spent = b]
      PROVE  IsOpen(l)
  BY <1>2, <1>4 DEF IsOpen, IsLedger
<1> QED BY <1>3, <1>4

\* Reconciling, crediting or skipping a stage leaves the report alone.
LEMMA OpenStaysOpen ==
  ASSUME NEW ledger, IsOpen(ledger)
  PROVE  /\ IsOpen(Reconciled(ledger))
         /\ \A s, cs : IsOpen(Credited(ledger, s, cs))
         /\ \A s : IsOpen([ledger EXCEPT !.spend[s] = StageBudget[s]])
  BY NumbersDoNotMatter DEF Reconciled, Credited, CompletedOf

\* A day's first ledger is open, and there is no event yet.
LEMMA NewIsOpen == IsOpen(NewLedger) /\ CarriesOpen(<<>>)
<1>1. IsOpen(NewLedger)
  BY DEF IsOpen, IsLedger, NewLedger
<1>2. CarriesOpen(<<>>)
  <2>1. ASSUME NEW events, events = <<>> PROVE CarriesOpen(events)
    <3>1. events \in Seq({}) /\ \A l \in {} : IsOpen(l)
      BY <2>1
    <3> QED BY <3>1 DEF CarriesOpen
  <2> QED BY <2>1
<1> QED BY <1>1, <1>2

\* The ends and the rest of a sequence of open ledgers.
LEMMA TakeOpen ==
  ASSUME NEW events, CarriesOpen(events), events # <<>>
  PROVE  IsOpen(Head(events)) /\ CarriesOpen(Tail(events))
<1>1. PICK S : events \in Seq(S) /\ \A l \in S : IsOpen(l)
  BY DEF CarriesOpen
<1>2. Head(events) \in S /\ Tail(events) \in Seq(S)
  BY <1>1
<1> QED BY <1>1, <1>2 DEF CarriesOpen

\* Delivered events leave the outbox.
LEMMA RemoveOpen ==
  ASSUME NEW events, CarriesOpen(events), NEW i \in DOMAIN events
  PROVE  CarriesOpen(RemoveAt(events, i))
<1>1. PICK S : events \in Seq(S) /\ \A l \in S : IsOpen(l)
  BY DEF CarriesOpen
<1>2. i \in 1..Len(events)
  BY <1>1
<1>3. SubSeq(events, 1, i - 1) \in Seq(S) /\ SubSeq(events, i + 1, Len(events)) \in Seq(S)
  BY <1>1, <1>2
<1>4. RemoveAt(events, i) \in Seq(S)
  BY <1>3 DEF RemoveAt
<1> QED BY <1>1, <1>4 DEF CarriesOpen

\* New events carry the tick's ledger.
LEMMA EnqueueOpen ==
  ASSUME CarriesOpen(outbox), NEW ledger, IsOpen(ledger)
  PROVE  CarriesOpen(Enqueued(ledger))
<1>1. PICK S : outbox \in Seq(S) /\ \A l \in S : IsOpen(l)
  BY DEF CarriesOpen
<1>2. Append(outbox, ledger) \in Seq(S \cup {ledger})
  BY <1>1
<1>3. CarriesOpen(Append(outbox, ledger))
  BY <1>1, <1>2 DEF CarriesOpen
<1> QED BY <1>3 DEF Enqueued

\* The tick that is over leaves nothing behind.
LEMMA ForgetIsOpen == ASSUME Forget PROVE IsOpen(mem') /\ CarriesOpen(todo')
  BY NewIsOpen DEF Forget

-------------------------------------------------------------------------------
(* The invariant.                                                          *)

\* A day starts with an empty ledger and no events.
LEMMA InitInvariant == Init => IndInv
<1> SUFFICES ASSUME Init PROVE IndInv
  OBVIOUS
<1>1. IsOpen(file) /\ IsOpen(mem) /\ CarriesOpen(outbox) /\ CarriesOpen(todo)
  BY NewIsOpen DEF Init
<1> QED BY <1>1 DEF Init, IndInv, OpenLedgers, ReportIsLast, IsOpen

\* Drains write open ledgers only.
LEMMA DrainInvariant == IndInv /\ Drain => IndInv'
<1> SUFFICES ASSUME IndInv, Drain PROVE IndInv'
  OBVIOUS
<1> USE DEF IndInv
<1>1. CASE DeliveryFails
  <2>1. CarriesOpen(todo')
    BY <1>1, TakeOpen DEF DeliveryFails, OpenLedgers
  <2> QED BY <1>1, <2>1 DEF DeliveryFails, disk, OpenLedgers, ReportIsLast,
                           Exhausted, Remaining
<1>2. CASE Deliver
  <2>1. IsOpen(file')
    BY <1>2, TakeOpen DEF Deliver, OpenLedgers
  <2> QED BY <1>2, <2>1 DEF Deliver, tick, OpenLedgers, ReportIsLast, IsOpen,
                           Exhausted, Remaining
<1>3. CASE MarkDelivered
  <2>1. CarriesOpen(todo') /\ CarriesOpen(outbox')
    BY <1>3, TakeOpen, RemoveOpen DEF MarkDelivered, OpenLedgers
  <2> QED BY <1>3, <2>1 DEF MarkDelivered, OpenLedgers, ReportIsLast,
                           Exhausted, Remaining
<1>4. CASE DrainEnds
  <2>1. IsOpen(mem') /\ CarriesOpen(todo')
    BY <1>4, ForgetIsOpen DEF DrainEnds, tick, OpenLedgers
  <2>2. CASE after = "idle"
    BY <1>4, <2>1, <2>2 DEF DrainEnds, Forget, disk, OpenLedgers, ReportIsLast,
                            Exhausted, Remaining
  <2>3. CASE after # "idle"
    BY <1>4, <2>1, <2>3 DEF DrainEnds, disk, tick, OpenLedgers, ReportIsLast,
                            Exhausted, Remaining
  <2> QED BY <2>2, <2>3
<1> QED BY <1>1, <1>2, <1>3, <1>4 DEF Drain

\* A tick begins only while the day is open, works on an open ledger, and
\* reports last.
LEMMA TickInvariant == IndInv /\ Tick => IndInv'
<1> SUFFICES ASSUME IndInv, Tick PROVE IndInv'
  OBVIOUS
<1> USE DEF IndInv
<1>1. CASE TickBegins
  BY <1>1 DEF TickBegins, DayOver, StartDrain, disk, OpenLedgers, ReportIsLast,
              Exhausted, Remaining
<1>2. CASE LoadLedger
  <2>1. IsOpen(file)
    BY <1>2 DEF LoadLedger, ReportIsLast, IsOpen
  <2>2. IsOpen(mem') /\ IsOpen(file')
    BY <1>2, <2>1, OpenStaysOpen DEF LoadLedger
  <2>3. Exhausted(mem)' = Exhausted(mem')
    BY DEF Exhausted, Remaining
  <2> QED BY <1>2, <2>2, <2>3 DEF LoadLedger, OpenLedgers, ReportIsLast, IsOpen
<1>3. CASE WriteReport
  <2>1. IsOpen(mem') /\ CarriesOpen(todo')
    BY <1>3, ForgetIsOpen DEF WriteReport
  <2>2. IsLedger(file') /\ Exhausted(file')
    BY <1>3 DEF WriteReport, OpenLedgers, ReportIsLast, IsOpen, IsLedger,
                Exhausted, Remaining
  <2> QED BY <1>3, <2>1, <2>2 DEF WriteReport, Forget, OpenLedgers, ReportIsLast,
                           Exhausted, Remaining
<1>4. CASE NothingToScan
  <2>1. IsOpen(mem') /\ CarriesOpen(todo')
    BY <1>4, ForgetIsOpen DEF NothingToScan
  <2> QED BY <1>4, <2>1 DEF NothingToScan, Forget, disk, OpenLedgers,
                           ReportIsLast, Exhausted, Remaining
<1>5. CASE PrepareSlice
  BY <1>5 DEF PrepareSlice, OpenLedgers, ReportIsLast, Exhausted, Remaining
<1>6. CASE SkipStage
  <2>1. PICK s : mem' = [mem EXCEPT !.spend[s] = StageBudget[s]]
                 /\ outbox' = Enqueued(mem')
    BY <1>6 DEF SkipStage
  <2>2. IsOpen(mem')
    BY <2>1, OpenStaysOpen DEF OpenLedgers
  <2>3. CarriesOpen(outbox') /\ todo' = outbox'
    BY <1>6, <2>1, <2>2, EnqueueOpen DEF OpenLedgers, SkipStage, StartDrain
  <2> QED BY <1>6, <2>2, <2>3 DEF SkipStage, StartDrain, OpenLedgers,
                           ReportIsLast, Exhausted, Remaining
<1>7. CASE Gate
  <2>1. IsOpen(mem') /\ CarriesOpen(todo')
    BY <1>7, ForgetIsOpen DEF Gate, tick, OpenLedgers
  <2> QED BY <1>7, <2>1 DEF Gate, Forget, disk, tick, OpenLedgers,
                           ReportIsLast, Exhausted, Remaining
<1>8. CASE Credit
  <2>1. /\ mem' = Credited(mem, plan.stage, plan.slice)
        /\ outbox' = Enqueued(mem') /\ todo' = outbox'
        /\ after' = IF mem' # mem /\ Exhausted(mem') THEN "report" ELSE "idle"
        /\ pc' = "drain" /\ file' = file /\ pc = "credited"
    BY <1>8 DEF Credit, StartDrain
  <2>2. IsOpen(mem')
    BY <2>1, OpenStaysOpen DEF OpenLedgers
  <2>3. CarriesOpen(outbox') /\ CarriesOpen(todo')
    BY <2>1, <2>2, EnqueueOpen DEF OpenLedgers
  <2>4. Exhausted(mem)' = Exhausted(mem') /\ Exhausted(file)' = Exhausted(file')
    BY DEF Exhausted, Remaining
  <2> QED BY <2>1, <2>2, <2>3, <2>4 DEF OpenLedgers, ReportIsLast
<1>9. CASE ScanEnds
  BY <1>9 DEF ScanEnds, disk, tick, OpenLedgers, ReportIsLast, Exhausted, Remaining
<1> QED BY <1>1, <1>2, <1>3, <1>4, <1>5, <1>6, <1>7, <1>8, <1>9 DEF Tick

\* Scans write no ledger, and a tick that dies leaves the files.
LEMMA OtherInvariant ==
  IndInv /\ (Scan \/ TearResults \/ TickDies \/ LeaveDay \/ UNCHANGED vars) => IndInv'
<1> SUFFICES ASSUME IndInv, Scan \/ TearResults \/ TickDies \/ LeaveDay \/ UNCHANGED vars
             PROVE IndInv'
  OBVIOUS
<1> USE DEF IndInv, OpenLedgers, ReportIsLast, Exhausted, Remaining, disk, tick
<1>1. CASE Scan
  <2>1. PICK c \in Candidates : Recover(c) \/ Simulate(c) \/ FileRow(c)
    BY <1>1 DEF Scan
  <2> QED BY <2>1 DEF Recover, Simulate, FileRow
<1>2. CASE TearResults
  BY <1>2 DEF TearResults
<1>3. CASE TickDies
  <2>1. IsOpen(mem') /\ CarriesOpen(todo')
    BY <1>3, ForgetIsOpen DEF TickDies
  <2> QED BY <1>3, <2>1 DEF TickDies, Forget
<1>4. CASE LeaveDay
  BY <1>4 DEF LeaveDay
<1>5. CASE UNCHANGED vars
  BY <1>5 DEF vars
<1> QED BY <1>1, <1>2, <1>3, <1>4, <1>5

-------------------------------------------------------------------------------
(* The theorem.                                                            *)

\* Once a day is reported, no step can write its ledger: the daemon is idle,
\* and does not begin a tick, or it has left the day.
LEMMA ReportedStep == IndInv /\ [Next]_vars => (DayOver => file' = file)
<1> SUFFICES ASSUME IndInv, [Next]_vars, DayOver PROVE file' = file
  OBVIOUS
<1>1. pc \in {"idle", "left"}
  BY DEF IndInv, ReportIsLast, DayOver
<1>2. ~Drain /\ ~Tick
  BY <1>1 DEF Drain, DeliveryFails, Deliver, MarkDelivered, DrainEnds, Tick,
              TickBegins, LoadLedger, WriteReport, NothingToScan, PrepareSlice,
              SkipStage, Gate, Credit, ScanEnds
<1>3. CASE Scan
  BY <1>1, <1>3 DEF Scan, Recover, Simulate, FileRow
<1>4. CASE TearResults \/ TickDies \/ LeaveDay \/ UNCHANGED vars
  BY <1>1, <1>4 DEF TearResults, TickDies, LeaveDay, vars, disk
<1> QED BY <1>2, <1>3, <1>4 DEF Next

\* runner.py:188-197: for any stages, budgets, candidates and numbers of
\* failures and deaths, the ledger of a reported day never changes again.
THEOREM ReportedDayIsFinal == Spec => ReportIsKept
<1>1. IndInv /\ [Next]_vars => IndInv'
  BY DrainInvariant, TickInvariant, OtherInvariant DEF Next
<1>2. Init /\ [][Next]_vars => []IndInv
  BY InitInvariant, <1>1, PTL
<1>3. Init /\ [][Next]_vars => [][DayOver => file' = file]_vars
  <2>1. IndInv /\ [Next]_vars => [DayOver => file' = file]_vars
    BY ReportedStep
  <2> QED BY <1>2, <2>1, PTL
<1> QED BY <1>3 DEF Spec, ReportIsKept

-----------------------------------------------------------------------------
(***************************************************************************)
(* The planning stage, for any keys, configurations, number of repairs and *)
(* delays: a finished checkpoint tells the truth about the plan file, and  *)
(* a plan is replaced for a reason only.  The argument: from the begin of  *)
(* a stage to its end the checkpoint says "running" and one process holds  *)
(* what it has read of the plan file; what it decided when it asked still  *)
(* holds when the answer is written, as no process changes its             *)
(* configuration.                                                          *)
(***************************************************************************)
\* A stage that has begun hides how an earlier one has ended.
BegunIsRunning == planAt # "idle" => checkpoint = "running"

\* What a tick has read of the plan file, decided and written.
TickKnows ==
  /\ planAt \in {"begun", "prepared", "asking", "answered"} =>
       (artifact = None <=> attempt.prev = None)
  /\ planAt \in {"asking", "answered"} => ~Reusable(attempt.prev, attempt.changed)
  /\ planAt = "written" => artifact # None

PlanInv == PlanTypeOK /\ CheckpointMatchesPlan /\ BegunIsRunning /\ TickKnows

------------------------------------------------------------------------------
(* Lemmas on the data.                                                     *)

\* Whatever a provider raises is a result, and so are the stage's own.
LEMMA ErrorsAreResults ==
  Errors \subseteq Results /\ {InvalidConfiguration, RepairsExhausted, Success} \subseteq Results
<1> DEFINE codes == {"authentication_error", "rate_limited", "timeout", "connection_error",
                     "provider_error", "invalid_response", "invalid_structured_output",
                     "context_length_exceeded", "invalid_configuration", "process_error"}
<1>1. ASSUME NEW some \in SUBSET codes PROVE Terminal(some) \subseteq Results
  <2> SUFFICES ASSUME NEW c \in some PROVE [code |-> c, retryable |-> FALSE] \in Results
    BY DEF Terminal
  <2>1. c \in codes
    OBVIOUS
  <2> QED
    BY <2>1 DEF Results
<1>2. TransportErrors \subseteq Results
  <2> SUFFICES ASSUME NEW c \in {"timeout", "connection_error", "provider_error"}
               PROVE  [code |-> c, retryable |-> TRUE] \in Results
    BY DEF TransportErrors
  <2> QED
    BY DEF Results
<1>3. \A s, long : HttpError(s, long) \in Results
  <2> SUFFICES ASSUME NEW s, NEW long PROVE HttpError(s, long) \in Results
    OBVIOUS
  <2>1. CASE s \in {401, 403}
    BY <2>1 DEF HttpError, Results
  <2>2. CASE s = 429
    BY <2>2 DEF HttpError, Results
  <2>3. CASE s \notin {401, 403, 429}
    BY <2>3 DEF HttpError, Results
  <2> QED
    BY <2>1, <2>2, <2>3
<1>4. HttpErrors \subseteq Results
  <2>1. {"invalid_response"} \in SUBSET codes
    OBVIOUS
  <2>2. Terminal({"invalid_response"}) \subseteq Results
    BY <1>1, <2>1
  <2>3. {HttpError(s, long) : s \in {400, 401, 403, 429, 500}, long \in BOOLEAN} \subseteq Results
    BY <1>3
  <2> QED
    BY <1>2, <2>2, <2>3 DEF HttpErrors
<1>5. /\ CliErrors \subseteq Results /\ CliAnswerErrors \subseteq Results
      /\ OllamaErrors \subseteq Results /\ GeminiErrors \subseteq Results
      /\ AnthropicErrors \subseteq Results /\ OpenAIErrors \subseteq Results
  <2>1. /\ {"invalid_response", "invalid_structured_output"} \in SUBSET codes
        /\ {"invalid_response", "invalid_structured_output", "provider_error"} \in SUBSET codes
        /\ {"process_error"} \in SUBSET codes
    OBVIOUS
  <2>2. [code |-> "timeout", retryable |-> TRUE] \in Results
    BY DEF Results
  <2> QED
    BY <1>1, <2>1, <2>2 DEF CliErrors, CliAnswerErrors, OllamaErrors, GeminiErrors,
                            AnthropicErrors, OpenAIErrors
<1>6. Errors \subseteq Results
  BY <1>4, <1>5 DEF Errors
<1> QED
  BY <1>6 DEF InvalidConfiguration, RepairsExhausted, Success, Results

Adapters == [digest: Digests, seen: Keys \cup {NoKey}, ready: BOOLEAN, broken: BOOLEAN]

\* A process's adapter is made once for its configuration, and prepared anew for
\* a credential that has changed.
LEMMA AdaptersAreMade ==
  /\ \A d \in Digests, key \in Keys \cup {NoKey} : FreshAdapters(d, key) \subseteq Adapters
  /\ PlanTypeOK => \A new \in Prepared : new \in Adapters /\ new.digest = adapter.digest
<1>1. \A d, key : Makes(d, key) \subseteq BOOLEAN
  BY DEF Makes
<1>2. \A d \in Digests, key \in Keys \cup {NoKey} : FreshAdapters(d, key) \subseteq Adapters
  <2> SUFFICES ASSUME NEW d \in Digests, NEW key \in Keys \cup {NoKey}, NEW ok \in BOOLEAN
               PROVE  [digest |-> d, seen |-> IF kind \in NetworkKinds THEN key ELSE NoKey,
                       ready |-> ok, broken |-> ~ok] \in Adapters
    BY <1>1 DEF FreshAdapters
  <2> QED
    BY DEF Adapters
<1>3. ASSUME PlanTypeOK, NEW new \in Prepared
      PROVE  new \in Adapters /\ new.digest = adapter.digest
  <2>1. adapter \in Adapters /\ env \in Keys \cup {NoKey}
    BY <1>3 DEF PlanTypeOK, Adapters
  <2>2. CASE NetworkCredentialChanged
    <3>1. Prepared = {[adapter EXCEPT !.seen = env, !.ready = ok, !.broken = ~ok] :
                        ok \in Makes(adapter.digest, env)}
      BY <2>2 DEF Prepared
    <3>2. PICK ok \in Makes(adapter.digest, env) :
            new = [adapter EXCEPT !.seen = env, !.ready = ok, !.broken = ~ok]
      BY <3>1
    <3>3. ok \in BOOLEAN
      BY <1>1
    <3> QED
      BY <2>1, <3>2, <3>3 DEF Adapters
  <2>3. CASE ~NetworkCredentialChanged
    BY <2>1, <2>3 DEF Prepared
  <2> QED
    BY <2>2, <2>3
<1> QED
  BY <1>2, <1>3

\* The attempts of a configuration are counted up to the cap.
LEMMA CountIsCapped ==
  ASSUME PlanTypeOK, NEW prev \in Plans \cup {None}
  PROVE  AttemptCount(prev) \in 1..CountCap
BY PlanningConstants DEF PlanningConstants, AttemptCount, Lesser, Plans

\* The file that is written has a plan whose delay is within the cap.
LEMMA PlanIsPlan ==
  ASSUME PlanTypeOK, NEW result \in Results, NEW count \in 1..CountCap,
         NEW left \in 0..Delay(count)
  PROVE  PlanOf(result, count, left) \in Plans
<1>1. Delay(count) \in Int /\ Delay(count) <= RetryCap
  BY PlanningConstants DEF PlanningConstants, Delay, Lesser
<1>2. left \in 0..RetryCap /\ Delay(count) \in 0..RetryCap /\ 0 \in 0..RetryCap
  BY <1>1, PlanningConstants DEF PlanningConstants
<1>3. adapter.digest \in Digests
  BY DEF PlanTypeOK
<1> QED
  BY <1>2, <1>3 DEF PlanOf, Plans, Results

------------------------------------------------------------------------------
(* Types.                                                                  *)

LEMMA InitTypes == PlanInit => PlanTypeOK
<1> SUFFICES ASSUME PlanInit PROVE PlanTypeOK
  OBVIOUS
<1>1. adapter \in Adapters
  BY AdaptersAreMade DEF PlanInit
<1>2. NoAttempt \in [changed: BOOLEAN, prev: Plans \cup {None},
                     round: 0..MaxRepairs + 1, result: Results]
  BY ErrorsAreResults, PlanningConstants DEF PlanningConstants, NoAttempt
<1> QED
  BY <1>1, <1>2 DEF PlanInit, PlanTypeOK, Adapters

\* A step of the stage, the deaths and the clock keep the types.
LEMMA StepTypes == PlanTypeOK /\ [PlanNext]_planVars => PlanTypeOK'
<1> SUFFICES ASSUME PlanTypeOK, [PlanNext]_planVars PROVE PlanTypeOK'
  OBVIOUS
<1> USE PlanningConstants DEF PlanningConstants
<1> DEFINE Attempts == [changed: BOOLEAN, prev: Plans \cup {None},
                        round: 0..MaxRepairs + 1, result: Results]
<1>1. /\ adapter \in Adapters /\ artifact \in Plans \cup {None} /\ attempt \in Attempts
      /\ NoAttempt \in Attempts
  BY ErrorsAreResults DEF PlanTypeOK, Adapters, NoAttempt
<1>2. CASE StageBegins
  BY <1>1, <1>2 DEF StageBegins, Saves, PlanTypeOK
<1>3. CASE NotConfigured \/ Reuse \/ StageEnds \/ StageFails
  BY <1>3 DEF NotConfigured, Reuse, StageEnds, StageFails, Saves, Outcome, PlanTypeOK
<1>4. CASE PrepareAdapter
  <2>1. adapter' \in Adapters
    BY <1>4, AdaptersAreMade DEF PrepareAdapter
  <2>2. attempt' \in Attempts
    BY <1>1, <1>4 DEF PrepareAdapter, NetworkCredentialChanged
  <2> QED
    BY <1>4, <2>1, <2>2 DEF PrepareAdapter, PlanTypeOK, Adapters
<1>5. CASE Ask
  <2>1. adapter' \in Adapters
    BY <1>5, AdaptersAreMade DEF Ask
  <2>2. attempt' \in Attempts /\ planAt' \in {"answered", "asking"}
    BY <1>1, <1>5, ErrorsAreResults DEF Ask
  <2> QED
    BY <1>5, <2>1, <2>2 DEF Ask, PlanTypeOK, Adapters
<1>6. CASE AnswerFits \/ AnswerIsMisshaped \/ RequestFails
  <2>1. attempt' \in Attempts /\ planAt' \in {"answered", "asking"}
    BY <1>1, <1>6, ErrorsAreResults
    DEF AnswerFits, AnswerIsMisshaped, RoundsLeft, RequestFails
  <2> QED
    BY <1>6, <2>1 DEF AnswerFits, AnswerIsMisshaped, RequestFails, PlanTypeOK
<1>7. CASE WritePlan
  <2>1. PICK left \in 0..Delay(AttemptCount(attempt.prev)) :
          artifact' = PlanOf(attempt.result, AttemptCount(attempt.prev), left)
    BY <1>7 DEF WritePlan
  <2>2. artifact' \in Plans
    BY <1>1, <2>1, CountIsCapped, PlanIsPlan
  <2> QED
    BY <1>7, <2>2 DEF WritePlan, PlanTypeOK
<1>8. CASE Restart
  <2>1. adapter' \in Adapters
    BY <1>8, AdaptersAreMade DEF Restart, PlanTypeOK
  <2>2. artifact' \in Plans \cup {None} /\ attempt' \in Attempts
    BY <1>1, <1>8 DEF Restart, Plans
  <2> QED
    BY <1>8, <2>1, <2>2 DEF Restart, PlanTypeOK, Adapters
<1>9. CASE SetKey
  BY <1>9 DEF SetKey, PlanTypeOK
<1>10. CASE TimePasses
  <2>1. artifact' \in Plans
    BY <1>1, <1>10 DEF TimePasses, Plans
  <2> QED
    BY <1>10, <2>1 DEF TimePasses, PlanTypeOK
<1>11. CASE UNCHANGED planVars
  BY <1>11 DEF planVars, PlanTypeOK
<1> QED
  BY <1>2, <1>3, <1>4, <1>5, <1>6, <1>7, <1>8, <1>9, <1>10, <1>11 DEF PlanNext, StageStep

------------------------------------------------------------------------------
(* The checkpoint and the plan file.                                       *)

\* Nothing that a process does in a tick changes its configuration.
LEMMA ConfigurationStays ==
  ASSUME PlanTypeOK, PrepareAdapter \/ Ask
  PROVE  adapter'.digest = adapter.digest
BY AdaptersAreMade DEF PrepareAdapter, Ask

\* Before its plan is written a tick knows whether there was one.
LEMMA InitInv == PlanInit => PlanInv
BY InitTypes DEF PlanInit, PlanInv, CheckpointMatchesPlan, BegunIsRunning, TickKnows

LEMMA StepInv == PlanInv /\ [PlanNext]_planVars => PlanInv'
<1> SUFFICES ASSUME PlanInv, [PlanNext]_planVars PROVE PlanInv'
  OBVIOUS
<1>1. PlanTypeOK /\ PlanTypeOK'
  BY StepTypes DEF PlanInv
<1>2. CheckpointMatchesPlan /\ BegunIsRunning /\ TickKnows
  BY DEF PlanInv
<1> SUFFICES CheckpointMatchesPlan' /\ BegunIsRunning' /\ TickKnows'
  BY <1>1 DEF PlanInv
<1> USE DEF CheckpointMatchesPlan, BegunIsRunning, TickKnows
<1>3. CASE StageBegins
  BY <1>2, <1>3 DEF StageBegins, Saves, NoAttempt
<1>4. CASE NotConfigured \/ StageFails
  BY <1>2, <1>4 DEF NotConfigured, StageFails, Saves
<1>5. CASE PrepareAdapter
  <2>1. attempt'.prev = attempt.prev
    BY <1>1, <1>5 DEF PrepareAdapter, PlanTypeOK
  <2> QED
    BY <1>2, <1>5, <2>1 DEF PrepareAdapter
<1>6. CASE Reuse
  BY <1>2, <1>6 DEF Reuse, Reusable
<1>7. CASE Ask
  <2>1. attempt'.prev = attempt.prev /\ attempt'.changed = attempt.changed
    BY <1>1, <1>7 DEF Ask, PlanTypeOK
  <2>2. Reusable(attempt.prev, attempt.changed)' <=> Reusable(attempt.prev, attempt.changed)
    BY <1>1, <1>7, <2>1, ConfigurationStays DEF Reusable
  <2> QED
    BY <1>2, <1>7, <2>1, <2>2 DEF Ask
<1>8. CASE AnswerFits \/ AnswerIsMisshaped \/ RequestFails
  <2>1. attempt'.prev = attempt.prev /\ attempt'.changed = attempt.changed
    BY <1>1, <1>8 DEF AnswerFits, AnswerIsMisshaped, RequestFails, PlanTypeOK
  <2>2. planAt = "asking" /\ planAt' \in {"asking", "answered"}
    BY <1>8 DEF AnswerFits, AnswerIsMisshaped, RequestFails
  <2>3. UNCHANGED <<adapter, artifact, checkpoint>>
    BY <1>8 DEF AnswerFits, AnswerIsMisshaped, RequestFails
  <2>4. Reusable(attempt.prev, attempt.changed)' <=> Reusable(attempt.prev, attempt.changed)
    BY <2>1, <2>3 DEF Reusable
  <2> QED
    BY <1>2, <2>1, <2>2, <2>3, <2>4
<1>9. CASE WritePlan
  <2>1. artifact' # None
    <3>1. PICK left \in 0..Delay(AttemptCount(attempt.prev)) :
            artifact' = PlanOf(attempt.result, AttemptCount(attempt.prev), left)
      BY <1>9 DEF WritePlan
    <3>2. attempt.prev \in Plans \cup {None} /\ attempt.result \in Results
      BY <1>1 DEF PlanTypeOK
    <3>3. artifact' \in Plans
      BY <1>1, <3>1, <3>2, CountIsCapped, PlanIsPlan
    <3> QED
      BY <3>3, NoneIsNoPlan
  <2> QED
    BY <1>2, <1>9, <2>1 DEF WritePlan
<1>10. CASE StageEnds
  <2>1. artifact # None /\ artifact' = artifact /\ planAt' = "idle"
    BY <1>2, <1>10 DEF StageEnds
  <2>2. checkpoint' = IF artifact.status = "error" /\ artifact.retryable
                      THEN "deferred" ELSE "completed"
    BY <1>10 DEF StageEnds, Saves, Outcome
  <2> QED
    BY <2>1, <2>2
<1>11. CASE Restart
  <2>1. /\ artifact' = None <=> artifact = None
        /\ artifact # None => /\ artifact'.status = artifact.status
                              /\ artifact'.retryable = artifact.retryable
    BY <1>1, <1>11, NoneIsNoPlan DEF Restart, PlanTypeOK, Plans
  <2> QED
    BY <1>2, <1>11, <2>1 DEF Restart
<1>12. CASE SetKey
  BY <1>2, <1>12 DEF SetKey, Reusable
<1>13. CASE TimePasses
  <2>1. /\ artifact' # None /\ artifact # None
        /\ artifact'.status = artifact.status /\ artifact'.retryable = artifact.retryable
    <3>1. artifact \in Plans /\ artifact.left > 0 /\ artifact' = [artifact EXCEPT !.left = @ - 1]
      BY <1>1, <1>13 DEF TimePasses, PlanTypeOK
    <3>2. artifact' \in Plans
      BY <3>1, PlanningConstants DEF PlanningConstants, Plans
    <3> QED
      BY <3>1, <3>2, NoneIsNoPlan DEF Plans
  <2> QED
    BY <1>2, <1>13, <2>1 DEF TimePasses, Reusable
<1>14. CASE UNCHANGED planVars
  BY <1>2, <1>14 DEF planVars, Reusable
<1> QED
  BY <1>3, <1>4, <1>5, <1>6, <1>7, <1>8, <1>9, <1>10, <1>11, <1>12, <1>13, <1>14
  DEF PlanNext, StageStep

\* The invariant holds at every moment.
LEMMA PlanInvariant == PlanSpec => []PlanInv
<1>1. PlanInit /\ [][PlanNext]_planVars => []PlanInv
  BY InitInv, StepInv, PTL
<1> QED
  BY <1>1 DEF PlanSpec

------------------------------------------------------------------------------
(* The theorems.                                                           *)

\* llm_planning.py, repair.py: the repair loop generates no more than
\* MaxRepairs + 1 answers, and no delay of a plan exceeds RetryCap.
THEOREM PlanTypeCorrect == PlanSpec => []PlanTypeOK
<1>1. PlanInv => PlanTypeOK
  BY DEF PlanInv
<1> QED
  BY <1>1, PlanInvariant, PTL

\* engine.py, runtime/checkpoints: a stage that says deferred has left a plan that is
\* to be asked for again, and one that says completed has left one that is not,
\* whatever died, failed or was reconfigured between the two files.
THEOREM CheckpointsTellTheTruth == PlanSpec => []CheckpointMatchesPlan
<1>1. PlanInv => CheckpointMatchesPlan
  BY DEF PlanInv
<1> QED
  BY <1>1, PlanInvariant, PTL

\* llm_planning.py: a plan that succeeded is replaced only for another
\* configuration or credential, a delayed one only after its delay, and any
\* other only by another process.
THEOREM PlansAreReplacedForAReason == PlanSpec => PlanIsReplacedForAReason
<1> DEFINE Reason ==
      planAt = "answered" /\ planAt' = "written" /\ artifact # None =>
        LET old == attempt.prev IN
        \/ adapter.digest # old.digest
        \/ attempt.changed
        \/ /\ old.status = "error"
           /\ IF old.retryable THEN old.left = 0 ELSE ~old.mine
<1>1. ASSUME PlanInv PROVE Reason
  <2> SUFFICES ASSUME planAt = "answered", artifact # None,
                      adapter.digest = attempt.prev.digest, ~attempt.changed
               PROVE  /\ attempt.prev.status = "error"
                      /\ IF attempt.prev.retryable THEN attempt.prev.left = 0
                         ELSE ~attempt.prev.mine
    OBVIOUS
  <2>1. attempt.prev \in Plans /\ attempt.prev # None
    BY <1>1 DEF PlanInv, TickKnows, PlanTypeOK
  <2>2. ~Reusable(attempt.prev, attempt.changed)
    BY <1>1 DEF PlanInv, TickKnows
  <2>3. /\ attempt.prev.status \in {"success", "error"} /\ attempt.prev.left \in Nat
        /\ attempt.prev.retryable \in BOOLEAN
    BY <2>1, PlanningConstants DEF PlanningConstants, Plans
  <2> QED
    BY <2>1, <2>2, <2>3 DEF Reusable
<1>2. PlanInv /\ [PlanNext]_planVars => [Reason]_planVars
  BY <1>1
<1>3. PlanInit /\ [][PlanNext]_planVars => [][Reason]_planVars
  BY InitInv, StepInv, <1>2, PTL
<1> QED
  BY <1>3 DEF PlanSpec, PlanIsReplacedForAReason

-----------------------------------------------------------------------------
(***************************************************************************)
(* A day asks for no more simulations than its budget, when all candidates *)
(* are of one family and the diversity caps let a day's worth through.     *)
(* Then every slice is cut from the front of what the earlier stages have  *)
(* left, by position.  So each stage has a share of its own, which its     *)
(* first slice takes whole, and from which all its later slices come, in   *)
(* whatever state deaths, torn files and replayed ledgers leave it.        *)
(***************************************************************************)
OneOrder == (\E f : Families = {f}) /\ DailyBudget <= Diverse

Sliced(s) == UNION {slices[s][n] : n \in Sizes}
Earlier(s) == UNION {Sliced(t) : t \in 1..(s - 1)}

\* How many of the candidates open come before c.
Ahead(c, open) == Cardinality({d \in open : d < c})

\* What the stages before s may spend.
Prior(s) == Cardinality(Weights(StageBudget, 1..(s - 1)))

\* The share of stage s when the earlier stages have sliced taken.
ShareOf(s, taken) ==
  {c \in (Candidates \ taken) \ Invalid :
     /\ Ahead(c, Candidates \ taken) < StageBudget[s]
     /\ Ahead(c, Candidates \ taken) + Prior(s) < DailyBudget}

\* The stage has sliced its share, or has none.
Settled(s) == Sliced(s) = ShareOf(s, Earlier(s))
SettledTo(t) == \A s \in 1..t : Settled(s)

\* Ledgers as they are written: none counts a stage that is not settled.
Goods == {l \in Ledgers :
            /\ \A s \in Stages : l.spend[s] <= StageBudget[s]
            /\ l.spent <= Total(l.spend)
            /\ \A t \in Stages : l.spend[t] > 0 => SettledTo(t)}

LedgersAreGood ==
  /\ file \in Goods /\ mem \in Goods /\ outbox \in Seq(Goods) /\ todo \in Seq(Goods)
  /\ pc = "mark" => todo # <<>>

SharesAreCut ==
  \A t \in Stages : Sliced(t) # {} =>
    SettledTo(t) /\ slices[t][Cardinality(Sliced(t))] = Sliced(t)

OnlySliced == \A s \in Stages : simulated[s] \subseteq Sliced(s) /\ rows[s] \subseteq Sliced(s)

TickKnowsItsLedger ==
  /\ pc = "plan" => /\ \A s \in Stages : Cardinality(Completed(s)) <= mem.spend[s]
                    /\ mem.spent = Smaller(DailyBudget, Total(mem.spend))
  /\ pc \in {"gate", "scan", "credited"} =>
       /\ plan.stage \in Stages /\ plan.slice # {} /\ plan.slice \subseteq Sliced(plan.stage)
       /\ Cardinality(plan.slice) <= Remaining(mem)

DayTypes ==
  /\ slices \in [Stages -> [Sizes -> SUBSET Candidates]]
  /\ rows \in [Stages -> SUBSET Candidates]
  /\ simulated \in [Stages -> SUBSET Candidates]
  /\ pc \in {"idle", "drain", "mark", "load", "report", "plan", "gate", "scan", "credited", "left"}
  /\ after \in {"idle", "load", "report"}
  /\ plan \in [stage : 0..Len(StageBudget), slice : SUBSET Candidates]
  /\ failures \in 0..MaxFailures
  /\ crashes \in 0..MaxCrashes

BudgetInv ==
  /\ DayTypes /\ LedgersAreGood /\ SharesAreCut /\ OnlySliced /\ TickKnowsItsLedger

-----------------------------------------------------------------------------
(* Counting by position                                                    *)

LEMMA AheadCounts ==
  ASSUME NEW S, S \subseteq Nat, IsFiniteSet(S)
  PROVE  /\ \A c \in Nat : Ahead(c, S) \in Nat
         /\ \A c \in S : Ahead(c, S) < Cardinality(S)
         /\ \A c, d \in S : c < d => Ahead(c, S) < Ahead(d, S)
<1> DEFINE Lower(c) == {d \in S : d < c}
<1>1. \A c : IsFiniteSet(Lower(c)) /\ Cardinality(Lower(c)) \in Nat
  <2> SUFFICES ASSUME NEW c PROVE IsFiniteSet(Lower(c)) /\ Cardinality(Lower(c)) \in Nat
    OBVIOUS
  <2>1. Lower(c) \in SUBSET S
    OBVIOUS
  <2> QED
    BY <2>1, FS_Subset, FS_CardinalityType
<1>2. ASSUME NEW c \in S PROVE Ahead(c, S) < Cardinality(S)
  <2>1. Lower(c) \subseteq S /\ c \in S /\ c \notin Lower(c)
    OBVIOUS
  <2>2. Lower(c) # S
    BY <2>1
  <2> HIDE DEF Lower
  <2>3. Cardinality(Lower(c)) < Cardinality(S)
    BY <2>1, <2>2, <1>1, FS_Subset, FS_CardinalityType
  <2> QED
    BY <2>3 DEF Ahead, Lower
<1>3. ASSUME NEW c \in S, NEW d \in S, c < d PROVE Ahead(c, S) < Ahead(d, S)
  <2>0. c \in Nat /\ d \in Nat /\ c < d
    BY <1>3
  <2>1. Lower(c) \subseteq Lower(d) /\ c \in Lower(d) /\ c \notin Lower(c)
    <3>1. ASSUME NEW e \in S, e < c PROVE e < d
      <4>1. e \in Nat
        OBVIOUS
      <4> QED
        BY <2>0, <3>1, <4>1
    <3>2. ~(c < c)
      BY <2>0
    <3> QED
      BY <2>0, <3>1, <3>2
  <2>2. Lower(c) # Lower(d)
    BY <2>1
  <2>3. IsFiniteSet(Lower(d)) /\ Cardinality(Lower(d)) \in Nat /\ Cardinality(Lower(c)) \in Nat
    BY <1>1
  <2> HIDE DEF Lower
  <2>4. Cardinality(Lower(c)) < Cardinality(Lower(d))
    BY <2>1, <2>2, <2>3, FS_Subset
  <2> QED
    BY <2>4 DEF Ahead, Lower
<1> QED
  BY <1>1, <1>2, <1>3 DEF Ahead

\* No more than n have fewer than n before them.
LEMMA FrontFits ==
  ASSUME NEW S, S \subseteq Nat, IsFiniteSet(S), NEW n \in Nat,
         NEW T \in SUBSET S, \A c \in T : Ahead(c, S) < n
  PROVE  IsFiniteSet(T) /\ Cardinality(T) \in Nat /\ Cardinality(T) <= n
<1> DEFINE place == [c \in T |-> Ahead(c, S) + 1]
<1>0. \A c \in T : c \in S /\ c \in Nat /\ Ahead(c, S) \in Nat
  BY AheadCounts
<1>1. ASSUME NEW c \in T PROVE place[c] \in 1..n
  BY <1>0
<1>2. ASSUME NEW c \in T, NEW d \in T, place[c] = place[d] PROVE c = d
  <2>1. Ahead(c, S) = Ahead(d, S) /\ Ahead(c, S) \in Nat
    BY <1>0, <1>2
  <2>2. (c < d => Ahead(c, S) < Ahead(d, S)) /\ (d < c => Ahead(d, S) < Ahead(c, S))
    BY <1>0, AheadCounts
  <2> QED
    BY <1>0, <2>1, <2>2
<1>3. place \in Injection(T, 1..n)
  BY <1>1, <1>2 DEF Injection, IsInjective
<1>4. IsFiniteSet(1..n) /\ Cardinality(1..n) = n
  BY FS_Interval
<1>5. IsFiniteSet(T) /\ Cardinality(T) \in Nat
  BY FS_Subset, FS_CardinalityType
<1> HIDE DEF place
<1> QED
  BY <1>3, <1>4, <1>5, FS_Injection

\* Taking away moves nobody back by more than what is taken.
LEMMA AheadMoves ==
  ASSUME NEW S, S \subseteq Nat, IsFiniteSet(S), NEW T \in SUBSET S, NEW c \in Nat
  PROVE  /\ Ahead(c, S \ T) <= Ahead(c, S)
         /\ Ahead(c, S) <= Ahead(c, S \ T) + Cardinality(T)
<1> DEFINE Lower == {d \in S : d < c}
           Rest == {d \in S \ T : d < c}
           Gone == {d \in T : d < c}
<1>1. Lower \in SUBSET S /\ Rest \in SUBSET S /\ Gone \in SUBSET T /\ Rest \in SUBSET Lower
  OBVIOUS
<1>2. /\ IsFiniteSet(Lower) /\ IsFiniteSet(Rest) /\ IsFiniteSet(T) /\ IsFiniteSet(Gone)
      /\ Cardinality(Lower) \in Nat /\ Cardinality(Rest) \in Nat /\ Cardinality(T) \in Nat
      /\ Cardinality(Gone) \in Nat /\ Cardinality(Rest) <= Cardinality(Lower)
      /\ Cardinality(Gone) <= Cardinality(T)
  BY <1>1, FS_Subset, FS_CardinalityType
<1>3. Lower = Rest \cup Gone /\ Rest \cap Gone = {}
  OBVIOUS
<1> HIDE DEF Lower, Rest, Gone
<1>4. Cardinality(Rest \cup Gone) = Cardinality(Rest) + Cardinality(Gone) - Cardinality(Rest \cap Gone)
  BY <1>2, FS_Union
<1>5. Cardinality(Rest \cap Gone) = 0
  BY <1>3, FS_EmptySet
<1>6. Cardinality(Lower) <= Cardinality(Rest) + Cardinality(T)
  BY <1>2, <1>3, <1>4, <1>5
<1> QED
  BY <1>2, <1>6 DEF Ahead, Lower, Rest

-----------------------------------------------------------------------------
(* Totals                                                                  *)

LEMMA StagesAre ==
  /\ Len(StageBudget) \in Nat /\ Stages = 1..Len(StageBudget) /\ IsFiniteSet(Stages)
  /\ StageBudget \in [Stages -> Nat] /\ \A s \in Stages : StageBudget[s] \in Nat \ {0}
<1>1. StageBudget \in Seq(Nat \ {0})
  BY ConstantsAssumption
<1>2. /\ Len(StageBudget) \in Nat /\ Stages = 1..Len(StageBudget)
      /\ StageBudget \in [1..Len(StageBudget) -> Nat \ {0}]
  BY <1>1, LenProperties DEF Stages
<1>3. IsFiniteSet(1..Len(StageBudget))
  BY <1>2, FS_Interval
<1> QED
  BY <1>2, <1>3

LEMMA TotalCounts ==
  ASSUME NEW f \in [Stages -> Nat]
  PROVE  /\ Total(f) = Cardinality(Weights(f, Stages)) /\ Total(f) \in Nat
         /\ IsFiniteSet(Weights(f, Stages))
BY StagesAre, SumIsCount, WeightsFinite DEF Total

LEMMA TotalGrows ==
  ASSUME NEW f \in [Stages -> Nat], NEW g \in [Stages -> Nat], \A s \in Stages : f[s] <= g[s]
  PROVE  Total(f) <= Total(g)
<1>1. Weights(f, Stages) \subseteq Weights(g, Stages)
  <2> SUFFICES ASSUME NEW w \in Weights(f, Stages) PROVE w \in Weights(g, Stages)
    OBVIOUS
  <2>1. w \in Stages \X Nat /\ w[1] \in Stages /\ w[2] \in Nat /\ w[2] \in 1..f[w[1]]
    BY DEF Weights
  <2>2. f[w[1]] \in Nat /\ g[w[1]] \in Nat /\ f[w[1]] <= g[w[1]]
    BY <2>1
  <2>3. w[2] \in 1..g[w[1]]
    BY <2>1, <2>2
  <2> QED
    BY <2>1, <2>3 DEF Weights
<1> QED
  BY <1>1, TotalCounts, FS_Subset

LEMMA TotalAdds ==
  ASSUME NEW f \in [Stages -> Nat], NEW s \in Stages, NEW n \in Nat
  PROVE  Total([f EXCEPT ![s] = n]) = Total(f) + n - f[s]
<1> DEFINE g == [f EXCEPT ![s] = n]
           others == Stages \ {s}
<1>1. g \in [Stages -> Nat] /\ g[s] = n /\ f[s] \in Nat
  OBVIOUS
<1>2. Weights(f, others) = Weights(g, others)
  <2>1. \A x \in others : f[x] = g[x]
    OBVIOUS
  <2> HIDE DEF g
  <2>2. ASSUME NEW w \in others \X Nat PROVE f[w[1]] = g[w[1]]
    <3>1. w[1] \in others
      OBVIOUS
    <3> QED
      BY <2>1, <3>1
  <2>3. Weights(f, others) \subseteq Weights(g, others)
    BY <2>2 DEF Weights
  <2>4. Weights(g, others) \subseteq Weights(f, others)
    BY <2>2 DEF Weights
  <2> QED
    BY <2>3, <2>4
<1> HIDE DEF g
<1>0. IsFiniteSet(Stages) /\ Stages \in SUBSET Stages
  BY StagesAre
<1>3. Cardinality(Weights(f, Stages)) = f[s] + Cardinality(Weights(f, others))
  BY <1>0, WeightsAdd
<1>4. Cardinality(Weights(g, Stages)) = g[s] + Cardinality(Weights(g, others))
  BY <1>0, <1>1, WeightsAdd
<1>5. Total(f) = Cardinality(Weights(f, Stages)) /\ Total(g) = Cardinality(Weights(g, Stages))
  BY <1>1, TotalCounts
<1>6. Total(f) \in Nat /\ Total(g) \in Nat
  BY <1>1, TotalCounts
<1>7. Cardinality(Weights(f, others)) = Total(f) - f[s] /\ Total(g) = n + Cardinality(Weights(g, others))
  <2>1. IsFiniteSet(others)
    BY StagesAre, FS_Subset
  <2>2. f \in [Stages -> Nat] /\ others \subseteq Stages
    OBVIOUS
  <2>3. Weights(f, others) \subseteq Weights(f, Stages)
    BY DEF Weights
  <2>4. Cardinality(Weights(f, others)) \in Nat
    BY <2>3, TotalCounts, FS_Subset, FS_CardinalityType
  <2> QED
    BY <1>1, <1>3, <1>4, <1>5, <1>6, <2>4
<1> QED
  BY <1>1, <1>2, <1>6, <1>7 DEF g

LEMMA PriorCounts ==
  ASSUME NEW s \in Stages
  PROVE  Prior(s) \in Nat /\ IsFiniteSet(Weights(StageBudget, 1..(s - 1)))
<1>1. 1..(s - 1) \subseteq Stages /\ s \in Nat
  BY StagesAre
<1>2. Weights(StageBudget, 1..(s - 1)) \subseteq Weights(StageBudget, Stages)
  BY <1>1 DEF Weights
<1>3. IsFiniteSet(Weights(StageBudget, 1..(s - 1)))
  BY <1>2, TotalCounts, StagesAre, FS_Subset
<1> QED
  BY <1>3, FS_CardinalityType DEF Prior

\* What is spent when the earlier stages are.
LEMMA TotalCovers ==
  ASSUME NEW f \in [Stages -> Nat], NEW s \in Stages,
         \A t \in 1..(s - 1) : f[t] >= StageBudget[t]
  PROVE  Total(f) >= Prior(s) + f[s]
<1> DEFINE early == Weights(StageBudget, 1..(s - 1))
           own == {s} \X (1..f[s])
<1>1. 1..(s - 1) \subseteq Stages /\ s \in Nat /\ s \notin 1..(s - 1) /\ f[s] \in Nat
  BY StagesAre
<1>2. IsFiniteSet(own) /\ Cardinality(own) = f[s]
  BY <1>1, OneWeight
<1>3. IsFiniteSet(early) /\ Cardinality(early) = Prior(s) /\ Prior(s) \in Nat
  BY PriorCounts DEF Prior
<1>4. early \cap own = {}
  BY <1>1 DEF Weights
<1>5. early \subseteq Weights(f, Stages)
  <2> SUFFICES ASSUME NEW w \in early PROVE w \in Weights(f, Stages)
    OBVIOUS
  <2>1. w \in (1..(s - 1)) \X Nat /\ w[1] \in 1..(s - 1) /\ w[2] \in Nat /\ w[2] \in 1..StageBudget[w[1]]
    BY DEF Weights
  <2>2. StageBudget[w[1]] \in Nat /\ f[w[1]] \in Nat /\ f[w[1]] >= StageBudget[w[1]]
    BY <1>1, <2>1, StagesAre
  <2>3. w[2] \in 1..f[w[1]] /\ w \in Stages \X Nat
    BY <1>1, <2>1, <2>2
  <2> QED
    BY <2>3 DEF Weights
<1>6. own \subseteq Weights(f, Stages)
  BY <1>1 DEF Weights
<1> HIDE DEF early, own
<1>7. Cardinality(early \cup own) = Cardinality(early) + Cardinality(own) - Cardinality(early \cap own)
  BY <1>2, <1>3, FS_Union
<1>8. Cardinality(early \cap own) = 0
  BY <1>4, FS_EmptySet
<1>9. Cardinality(early \cup own) <= Cardinality(Weights(f, Stages))
  <2>1. early \cup own \subseteq Weights(f, Stages)
    BY <1>5, <1>6
  <2> QED
    BY <2>1, TotalCounts, FS_Subset
<1> QED
  BY <1>1, <1>2, <1>3, <1>7, <1>8, <1>9, TotalCounts

\* And when the later ones are not begun.
LEMMA TotalIsPrior ==
  ASSUME NEW f \in [Stages -> Nat], NEW s \in Stages,
         \A t \in 1..(s - 1) : f[t] = StageBudget[t],
         \A t \in Stages : t >= s => f[t] = 0
  PROVE  Total(f) = Prior(s)
<1>1. 1..(s - 1) \subseteq Stages /\ s \in Nat /\ \A t \in Stages : t \in Nat /\ t >= 1
  BY StagesAre
<1>2. Weights(f, Stages) \subseteq Weights(StageBudget, 1..(s - 1))
  <2> SUFFICES ASSUME NEW w \in Weights(f, Stages) PROVE w \in Weights(StageBudget, 1..(s - 1))
    OBVIOUS
  <2>1. w \in Stages \X Nat /\ w[1] \in Stages /\ w[2] \in Nat /\ w[2] \in 1..f[w[1]]
    BY DEF Weights
  <2>2. f[w[1]] # 0
    BY <2>1
  <2>3. w[1] \in 1..(s - 1)
    <3>1. ~(w[1] >= s)
      BY <2>1, <2>2
    <3>2. w[1] \in Nat /\ w[1] >= 1 /\ s \in Nat
      BY <1>1, <2>1
    <3> QED
      BY <3>1, <3>2
  <2>4. w[2] \in 1..StageBudget[w[1]] /\ w \in (1..(s - 1)) \X Nat
    BY <2>1, <2>3
  <2> QED
    BY <2>4 DEF Weights
<1>3. Weights(StageBudget, 1..(s - 1)) \subseteq Weights(f, Stages)
  <2> SUFFICES ASSUME NEW w \in Weights(StageBudget, 1..(s - 1)) PROVE w \in Weights(f, Stages)
    OBVIOUS
  <2>1. w \in (1..(s - 1)) \X Nat /\ w[1] \in 1..(s - 1) /\ w[2] \in 1..StageBudget[w[1]]
    BY DEF Weights
  <2>2. w[2] \in 1..f[w[1]] /\ w \in Stages \X Nat
    BY <1>1, <2>1
  <2> QED
    BY <2>2 DEF Weights
<1>4. Weights(f, Stages) = Weights(StageBudget, 1..(s - 1))
  BY <1>2, <1>3
<1> QED
  BY <1>4, TotalCounts DEF Prior

-----------------------------------------------------------------------------
(* Ledgers                                                                 *)

LEMMA LedgerNumbers ==
  ASSUME NEW l \in Ledgers
  PROVE  /\ l.spent \in 0..DailyBudget /\ l.spend \in [Stages -> Nat] /\ l.report \in BOOLEAN
         /\ DailyBudget \in Nat \ {0} /\ Remaining(l) = DailyBudget - l.spent
BY ConstantsAssumption DEF Ledgers, Remaining

\* Writing the numbers of a ledger anew.
Written(l, f, n) == [l EXCEPT !.spend = f, !.spent = n]

LEMMA LedgerIsWritten ==
  ASSUME NEW l \in Ledgers, NEW f \in [Stages -> Nat], NEW n \in 0..DailyBudget
  PROVE  Written(l, f, n) \in Ledgers /\ Written(l, f, n).spend = f /\ Written(l, f, n).spent = n
BY DEF Ledgers, Written

LEMMA NewIsLedger ==
  /\ NewLedger \in Ledgers /\ NewLedger.spent = 0
  /\ \A s \in Stages : NewLedger.spend[s] = 0
<1>1. [s \in Stages |-> 0] \in [Stages -> Nat]
  OBVIOUS
<1>2. 0 \in 0..DailyBudget
  BY ConstantsAssumption
<1> QED
  BY <1>1, <1>2 DEF NewLedger, Ledgers

LEMMA NewIsGood == NewLedger \in Goods
<1>1. Total(NewLedger.spend) \in Nat
  BY NewIsLedger, LedgerNumbers, TotalCounts
<1>2. \A s \in Stages : NewLedger.spend[s] <= StageBudget[s]
  BY NewIsLedger, StagesAre
<1>3. \A s \in Stages : ~(NewLedger.spend[s] > 0)
  BY NewIsLedger
<1> QED
  BY <1>1, <1>2, <1>3, NewIsLedger DEF Goods

-----------------------------------------------------------------------------
(* Shares                                                                  *)

LEMMA CandidateSets ==
  ASSUME NEW S \in SUBSET Candidates
  PROVE  S \subseteq Nat /\ IsFiniteSet(S) /\ Cardinality(S) \in Nat
BY ConstantsAssumption, FS_Subset, FS_CardinalityType

LEMMA SlicedAre ==
  ASSUME DayTypes, NEW s \in Stages
  PROVE  /\ Sliced(s) \in SUBSET Candidates /\ Earlier(s) \in SUBSET Candidates
         /\ Completed(s) \in SUBSET Sliced(s)
         /\ Available(s) = (Candidates \ Earlier(s)) \ Completed(s)
<1>1. \A t \in Stages : Sliced(t) \in SUBSET Candidates
  BY DEF DayTypes, Sliced
<1>2. 1..(s - 1) \subseteq Stages
  BY StagesAre
<1>3. UNION {slices[t][n] : t \in 1..(s - 1), n \in Sizes} = Earlier(s)
  BY DEF Earlier, Sliced
<1>4. Earlier(s) \in SUBSET Candidates
  BY <1>1, <1>2 DEF Earlier
<1>5. Completed(s) \in SUBSET Sliced(s)
  BY DEF Completed, Sliced
<1> QED
  BY <1>1, <1>3, <1>4, <1>5 DEF Available

\* With one family, the first of the open candidates are the first by position.
LEMMA FirstByPlace ==
  ASSUME OneOrder, NEW open \in SUBSET Candidates, NEW k \in Nat
  PROVE  First(k, open) = {d \in open : Ahead(d, open) < k}
<1>1. PICK f : Families = {f}
  BY DEF OneOrder
<1>2. \A c \in Candidates : Family[c] = f
  BY <1>1, ConstantsAssumption
<1>3. Members(f, open) = open
  BY <1>2 DEF Members
<1>4. \A c \in open : Round(c, open) = Ahead(c, open)
  BY <1>2, <1>3 DEF Round, Ahead
<1>5. open \subseteq Nat /\ IsFiniteSet(open) /\ Cardinality(open) \in Nat
  BY CandidateSets
<1>6. ~FamilyFirst(f, f, open)
  <2>1. f \in Nat
    BY <1>1, ConstantsAssumption
  <2> QED
    BY <1>3, <1>5, <2>1 DEF FamilyFirst
<1>7. ASSUME NEW c \in open, NEW d \in open PROVE Before(c, d, open) <=> c < d
  <2>1. Before(c, d, open) <=> Ahead(c, open) < Ahead(d, open)
    BY <1>2, <1>4, <1>6 DEF Before
  <2>2. c \in Nat /\ d \in Nat /\ Ahead(c, open) \in Nat /\ Ahead(d, open) \in Nat
    BY <1>5, AheadCounts
  <2>3. (c < d => Ahead(c, open) < Ahead(d, open)) /\ (d < c => Ahead(d, open) < Ahead(c, open))
    BY <1>5, AheadCounts
  <2> QED
    BY <2>1, <2>2, <2>3
<1>8. ASSUME NEW d \in open PROVE {c \in open : Before(c, d, open)} = {c \in open : c < d}
  BY <1>7
<1> QED
  BY <1>8 DEF First, Ahead

\* A slice are the first for which there is room, without the invalid ones.
LEMMA SliceByPlace ==
  ASSUME OneOrder, DayTypes, NEW l \in Ledgers, NEW s \in Stages, l.spend[s] <= StageBudget[s]
  PROVE  /\ Room(l, s) \in Nat /\ Room(l, s) <= Remaining(l) /\ Room(l, s) + l.spend[s] <= StageBudget[s]
         /\ Room(l, s) = Smaller(StageBudget[s] - l.spend[s], DailyBudget - l.spent)
         /\ Slice(l, s) = {c \in Available(s) \ Invalid : Ahead(c, Available(s)) < Room(l, s)}
         /\ Slice(l, s) \in SUBSET Candidates /\ Cardinality(Slice(l, s)) <= Room(l, s)
<1> DEFINE open == Available(s)
           room == Room(l, s)
<1>1. /\ l.spent \in 0..DailyBudget /\ l.spend[s] \in Nat /\ StageBudget[s] \in Nat
      /\ DailyBudget \in Nat /\ Remaining(l) = DailyBudget - l.spent
  BY LedgerNumbers, StagesAre
<1>2. /\ room \in Nat /\ room <= Remaining(l) /\ room + l.spend[s] <= StageBudget[s]
      /\ room = Smaller(StageBudget[s] - l.spend[s], DailyBudget - l.spent) /\ room <= DailyBudget
  BY <1>1 DEF Room, Smaller
<1>3. open \in SUBSET Candidates
  BY DEF Available
<1>4. open \subseteq Nat /\ IsFiniteSet(open) /\ Cardinality(open) \in Nat
  BY <1>3, CandidateSets
<1>5. Smaller(room, Diverse) = room
  BY <1>1, <1>2, ConstantsAssumption DEF OneOrder, Smaller
<1>6. ASSUME Cardinality(open) <= room PROVE open = {c \in open : Ahead(c, open) < room}
  <2>1. \A c \in open : Ahead(c, open) \in Nat /\ Ahead(c, open) < Cardinality(open)
    BY <1>4, AheadCounts
  <2> QED
    BY <1>2, <1>4, <1>6, <2>1
<1>7. Chosen(l, s) = {c \in open : Ahead(c, open) < room}
  BY <1>2, <1>3, <1>5, <1>6, FirstByPlace DEF Chosen
<1>8. Slice(l, s) = {c \in open \ Invalid : Ahead(c, open) < room}
  BY <1>7 DEF Slice
<1>9. Slice(l, s) \in SUBSET open /\ \A c \in Slice(l, s) : Ahead(c, open) < room
  BY <1>8
<1> HIDE DEF open, room
<1>10. Cardinality(Slice(l, s)) <= room
  BY <1>2, <1>4, <1>9, FrontFits
<1> QED
  BY <1>2, <1>3, <1>8, <1>9, <1>10 DEF open, room

\* A share is within the stage's allocation.
LEMMA ShareFits ==
  ASSUME NEW s \in Stages, NEW taken \in SUBSET Candidates
  PROVE  /\ ShareOf(s, taken) \in SUBSET Candidates
         /\ Cardinality(ShareOf(s, taken)) <= StageBudget[s]
<1>1. /\ Candidates \ taken \subseteq Nat /\ IsFiniteSet(Candidates \ taken)
      /\ StageBudget[s] \in Nat
  BY CandidateSets, StagesAre
<1>2. /\ ShareOf(s, taken) \in SUBSET (Candidates \ taken)
      /\ \A c \in ShareOf(s, taken) : Ahead(c, Candidates \ taken) < StageBudget[s]
  BY DEF ShareOf
<1> HIDE DEF ShareOf
<1>3. Cardinality(ShareOf(s, taken)) <= StageBudget[s]
  BY <1>1, <1>2, FrontFits
<1> QED
  BY <1>2, <1>3

\* The earlier stages' slices are within what these stages may spend: a
\* candidate has its stage, and its place there.
LEMMA EarlierFits ==
  ASSUME DayTypes, NEW s \in Stages, \A t \in 1..(s - 1) : Settled(t)
  PROVE  Cardinality(Earlier(s)) <= Prior(s)
<1> DEFINE stageOf(c) == CHOOSE t \in 1..(s - 1) : c \in Sliced(t)
           pool(t) == Candidates \ Earlier(t)
           rank(c) == Ahead(c, pool(stageOf(c)))
           place == [c \in Earlier(s) |-> <<stageOf(c), rank(c) + 1>>]
           places == Weights(StageBudget, 1..(s - 1))
<1>1. 1..(s - 1) \subseteq Stages
  BY StagesAre
<1>2. ASSUME NEW c \in Earlier(s)
      PROVE  /\ stageOf(c) \in 1..(s - 1) /\ c \in pool(stageOf(c))
             /\ rank(c) \in Nat /\ rank(c) < StageBudget[stageOf(c)]
  <2>1. \E t \in 1..(s - 1) : c \in Sliced(t)
    BY DEF Earlier
  <2>2. stageOf(c) \in 1..(s - 1) /\ c \in Sliced(stageOf(c))
    BY <2>1
  <2> HIDE DEF stageOf
  <2>3. c \in ShareOf(stageOf(c), Earlier(stageOf(c)))
    BY <2>2 DEF Settled
  <2>4. c \in pool(stageOf(c)) /\ rank(c) < StageBudget[stageOf(c)]
    BY <2>3 DEF ShareOf
  <2>5. pool(stageOf(c)) \subseteq Nat /\ IsFiniteSet(pool(stageOf(c)))
    BY CandidateSets
  <2> QED
    BY <2>2, <2>4, <2>5, AheadCounts
<1>3. ASSUME NEW c \in Earlier(s) PROVE place[c] \in places
  <2>1. StageBudget[stageOf(c)] \in Nat
    BY <1>1, <1>2, StagesAre
  <2> HIDE DEF stageOf, rank
  <2>2. rank(c) + 1 \in 1..StageBudget[stageOf(c)] /\ rank(c) + 1 \in Nat
    BY <1>2, <2>1
  <2> QED
    BY <1>2, <2>2 DEF Weights
<1>4. ASSUME NEW c \in Earlier(s), NEW d \in Earlier(s), place[c] = place[d] PROVE c = d
  <2> DEFINE t == stageOf(c)
  <2>0. <<stageOf(c), rank(c) + 1>> = <<stageOf(d), rank(d) + 1>>
    <3> HIDE DEF stageOf, rank
    <3> QED
      BY <1>4
  <2>1. stageOf(d) = t /\ rank(d) + 1 = rank(c) + 1
    <3> HIDE DEF stageOf, rank
    <3> QED
      BY <2>0
  <2>2. c \in pool(t) /\ d \in pool(t) /\ Ahead(c, pool(t)) + 1 = Ahead(d, pool(t)) + 1
    BY <1>2, <2>1
  <2>3. pool(t) \subseteq Nat /\ IsFiniteSet(pool(t))
    BY CandidateSets
  <2> HIDE DEF t, pool
  <2>4. /\ c \in Nat /\ d \in Nat /\ Ahead(c, pool(t)) \in Nat /\ Ahead(d, pool(t)) \in Nat
        /\ c < d => Ahead(c, pool(t)) < Ahead(d, pool(t))
        /\ d < c => Ahead(d, pool(t)) < Ahead(c, pool(t))
    BY <2>2, <2>3, AheadCounts
  <2> QED
    BY <2>2, <2>4
<1>5. place \in Injection(Earlier(s), places)
  <2> HIDE DEF places
  <2>1. DOMAIN place = Earlier(s)
    OBVIOUS
  <2>2. place \in [Earlier(s) -> places]
    BY <1>3
  <2> HIDE DEF place
  <2> QED
    BY <1>4, <2>1, <2>2 DEF Injection, IsInjective
<1>6. IsFiniteSet(places)
  BY PriorCounts
<1> HIDE DEF place, places
<1>7. Cardinality(Earlier(s)) <= Cardinality(places)
  BY <1>5, <1>6, FS_Injection
<1> QED
  BY <1>7 DEF places, Prior

-----------------------------------------------------------------------------
(* What a tick slices and writes                                           *)

LEMMA SlicesStay ==
  ASSUME UNCHANGED slices
  PROVE  /\ \A s : Sliced(s)' = Sliced(s) /\ Earlier(s)' = Earlier(s)
         /\ \A s : Settled(s)' <=> Settled(s)
         /\ Goods' = Goods
         /\ SharesAreCut => SharesAreCut'
<1>1. \A s : Sliced(s)' = Sliced(s)
  BY DEF Sliced
<1>2. \A s : Earlier(s)' = Earlier(s)
  BY <1>1 DEF Earlier
<1>3. \A s : Settled(s)' <=> Settled(s)
  BY <1>1, <1>2 DEF Settled
<1>4. \A s : SettledTo(s)' <=> SettledTo(s)
  BY <1>3 DEF SettledTo
<1>5. Goods' = Goods
  BY <1>4 DEF Goods
<1>6. SharesAreCut => SharesAreCut'
  BY <1>1, <1>4 DEF SharesAreCut
<1> QED
  BY <1>1, <1>2, <1>3, <1>5, <1>6

\* What stages have sliced is within their allocation.
LEMMA SlicedFits ==
  ASSUME DayTypes, SharesAreCut, NEW s \in Stages
  PROVE  IsFiniteSet(Sliced(s)) /\ Cardinality(Sliced(s)) \in Nat /\ Cardinality(Sliced(s)) <= StageBudget[s]
<1>1. Sliced(s) \in SUBSET Candidates /\ Earlier(s) \in SUBSET Candidates
  BY SlicedAre
<1>2. StageBudget[s] \in Nat /\ s \in 1..s
  BY StagesAre
<1>3. Sliced(s) = {} \/ Sliced(s) = ShareOf(s, Earlier(s))
  BY <1>2 DEF SharesAreCut, SettledTo, Settled
<1> QED
  BY <1>1, <1>2, <1>3, CandidateSets, ShareFits, FS_EmptySet

\* A slice comes from the stage's share, and the first takes all of it.
LEMMA SliceIsFromShare ==
  ASSUME OneOrder, DayTypes, mem \in Goods, NEW s \in Stages,
         \A t \in 1..(s - 1) : Settled(t) /\ mem.spend[t] >= StageBudget[t],
         Cardinality(Completed(s)) <= mem.spend[s],
         mem.spent = Smaller(DailyBudget, Total(mem.spend)),
         Remaining(mem) > 0
  PROVE  /\ Slice(mem, s) \subseteq ShareOf(s, Earlier(s))
         /\ Sliced(s) = {} /\ ~Settled(s) => Slice(mem, s) = ShareOf(s, Earlier(s))
<1> DEFINE pool == Candidates \ Earlier(s)
           gone == Completed(s) \cap pool
           room == Room(mem, s)
<1>1. /\ mem \in Ledgers /\ \A t \in Stages : mem.spend[t] <= StageBudget[t]
      /\ mem.spent <= Total(mem.spend)
      /\ \A t \in Stages : mem.spend[t] > 0 => SettledTo(t)
  BY DEF Goods
<1>2. /\ mem.spent \in 0..DailyBudget /\ mem.spend \in [Stages -> Nat] /\ mem.spend[s] \in Nat
      /\ DailyBudget \in Nat \ {0} /\ Remaining(mem) = DailyBudget - mem.spent
      /\ StageBudget[s] \in Nat /\ Total(mem.spend) \in Nat /\ Prior(s) \in Nat
  BY <1>1, LedgerNumbers, StagesAre, TotalCounts, PriorCounts
<1>3. mem.spent = Total(mem.spend)
  BY <1>2 DEF Smaller
<1>4. /\ room \in Nat /\ room <= Remaining(mem) /\ room + mem.spend[s] <= StageBudget[s]
      /\ room = Smaller(StageBudget[s] - mem.spend[s], DailyBudget - mem.spent)
      /\ Slice(mem, s) = {c \in Available(s) \ Invalid : Ahead(c, Available(s)) < room}
      /\ Slice(mem, s) \in SUBSET Candidates
  BY <1>1, SliceByPlace
<1>5. /\ Available(s) = pool \ Completed(s) /\ Sliced(s) \in SUBSET Candidates
      /\ Completed(s) \in SUBSET Sliced(s)
  BY SlicedAre
<1>6. /\ pool \subseteq Nat /\ IsFiniteSet(pool)
      /\ IsFiniteSet(Completed(s)) /\ Cardinality(Completed(s)) \in Nat
      /\ IsFiniteSet(gone) /\ Cardinality(gone) \in Nat /\ Cardinality(gone) <= Cardinality(Completed(s))
  BY <1>5, CandidateSets, FS_Subset
<1>7. Available(s) = pool \ gone /\ gone \in SUBSET pool
  BY <1>5
<1>8. ASSUME NEW c \in Slice(mem, s) PROVE c \in ShareOf(s, Earlier(s))
  <2>1. c \in pool /\ c \notin Invalid /\ c \in Nat /\ Ahead(c, pool \ gone) < room
    BY <1>4, <1>6, <1>7
  <2>2. /\ Ahead(c, pool) \in Nat /\ Ahead(c, pool \ gone) \in Nat
        /\ Ahead(c, pool) <= Ahead(c, pool \ gone) + Cardinality(gone)
    <3>1. pool \ gone \subseteq Nat /\ IsFiniteSet(pool \ gone)
      BY <1>6, FS_Subset
    <3> HIDE DEF pool, gone
    <3> QED
      BY <1>6, <1>7, <2>1, <3>1, AheadCounts, AheadMoves
  <2>3. Ahead(c, pool) < room + mem.spend[s]
    BY <1>2, <1>4, <1>6, <2>1, <2>2
  <2>4. Total(mem.spend) >= Prior(s) + mem.spend[s]
    BY <1>2, TotalCovers
  <2>5. Ahead(c, pool) < StageBudget[s] /\ Ahead(c, pool) + Prior(s) < DailyBudget
    <3> HIDE DEF pool, room
    <3> QED
      BY <1>2, <1>3, <1>4, <2>2, <2>3, <2>4
  <2> QED
    BY <2>1, <2>5 DEF ShareOf
<1>9. ASSUME Sliced(s) = {}, ~Settled(s) PROVE Slice(mem, s) = ShareOf(s, Earlier(s))
  <2>1. ASSUME NEW t \in Stages, t >= s PROVE mem.spend[t] = 0
    <3>1. s \in 1..t
      BY <2>1, StagesAre
    <3>2. ~SettledTo(t)
      BY <1>9, <3>1 DEF SettledTo
    <3> QED
      BY <1>1, <1>2, <3>2
  <2>2. ASSUME NEW t \in 1..(s - 1) PROVE mem.spend[t] = StageBudget[t]
    <3>1. t \in Stages
      BY StagesAre
    <3>2. mem.spend[t] \in Nat /\ StageBudget[t] \in Nat /\ mem.spend[t] <= StageBudget[t]
          /\ mem.spend[t] >= StageBudget[t]
      BY <1>1, <1>2, <3>1, StagesAre
    <3> QED
      BY <3>2
  <2>3. Total(mem.spend) = Prior(s)
    BY <1>2, <2>1, <2>2, TotalIsPrior
  <2>4. mem.spend[s] = 0
    BY <2>1, StagesAre
  <2>5. room = Smaller(StageBudget[s], DailyBudget - Prior(s))
    BY <1>2, <1>3, <1>4, <2>3, <2>4
  <2>6. Available(s) = pool
    BY <1>5, <1>9
  <2>7. \A c \in pool : Ahead(c, pool) \in Nat
    BY <1>6, AheadCounts
  <2>8. \A c \in pool : Ahead(c, pool) < room <=>
                          Ahead(c, pool) < StageBudget[s] /\ Ahead(c, pool) + Prior(s) < DailyBudget
    <3> HIDE DEF pool, room
    <3> QED
      BY <1>2, <2>5, <2>7 DEF Smaller
  <2>9. Slice(mem, s) = {c \in pool \ Invalid : Ahead(c, pool) < room}
    BY <1>4, <2>6
  <2> QED
    BY <2>8, <2>9 DEF ShareOf
<1> QED
  BY <1>8, <1>9

\* Reconciled ledgers count what the disk shows.
LEMMA ReconciledIsGood ==
  ASSUME DayTypes, SharesAreCut, NEW l \in Goods
  PROVE  /\ Reconciled(l) \in Goods
         /\ \A s \in Stages : Cardinality(Completed(s)) <= Reconciled(l).spend[s]
         /\ Reconciled(l).spent = Smaller(DailyBudget, Total(Reconciled(l).spend))
<1> DEFINE f == [s \in Stages |-> Larger(l.spend[s], Cardinality(Completed(s)))]
           n == Smaller(DailyBudget, Larger(l.spent, Total(f)))
<1>1. /\ l \in Ledgers /\ \A s \in Stages : l.spend[s] <= StageBudget[s]
      /\ l.spent <= Total(l.spend)
      /\ \A t \in Stages : l.spend[t] > 0 => SettledTo(t)
  BY DEF Goods
<1>2. /\ l.spent \in 0..DailyBudget /\ l.spend \in [Stages -> Nat]
      /\ DailyBudget \in Nat \ {0} /\ Total(l.spend) \in Nat
  BY <1>1, LedgerNumbers, TotalCounts
<1>3. ASSUME NEW s \in Stages
      PROVE  /\ Cardinality(Completed(s)) \in Nat /\ Cardinality(Completed(s)) <= StageBudget[s]
             /\ Completed(s) \in SUBSET Sliced(s)
  <2>1. IsFiniteSet(Sliced(s)) /\ Cardinality(Sliced(s)) \in Nat /\ Cardinality(Sliced(s)) <= StageBudget[s]
    BY SlicedFits
  <2>2. Completed(s) \in SUBSET Sliced(s)
    BY SlicedAre
  <2>3. Cardinality(Completed(s)) \in Nat /\ Cardinality(Completed(s)) <= Cardinality(Sliced(s))
    BY <2>1, <2>2, FS_Subset, FS_CardinalityType
  <2> QED
    BY <2>1, <2>2, <2>3, StagesAre
<1>4. ASSUME NEW s \in Stages
      PROVE  /\ f[s] \in Nat /\ l.spend[s] <= f[s] /\ Cardinality(Completed(s)) <= f[s]
             /\ f[s] <= StageBudget[s]
             /\ f[s] > 0 => l.spend[s] > 0 \/ Cardinality(Completed(s)) > 0
  <2>1. f[s] = Larger(l.spend[s], Cardinality(Completed(s)))
    OBVIOUS
  <2> HIDE DEF f
  <2>2. l.spend[s] \in Nat /\ StageBudget[s] \in Nat /\ l.spend[s] <= StageBudget[s]
    BY <1>1, <1>2, StagesAre
  <2> QED
    BY <1>3, <2>1, <2>2 DEF Larger
<1>5. f \in [Stages -> Nat]
  <2>1. \A s \in Stages : Larger(l.spend[s], Cardinality(Completed(s))) \in Nat
    BY <1>4
  <2> QED
    BY <2>1
<1>6. Reconciled(l) = Written(l, f, n)
  BY DEF Reconciled, Written
<1> HIDE DEF f
<1>7. Total(f) \in Nat /\ Total(l.spend) <= Total(f)
  BY <1>2, <1>4, <1>5, TotalCounts, TotalGrows
<1>8. n \in 0..DailyBudget /\ n = Smaller(DailyBudget, Total(f)) /\ n <= Total(f)
  BY <1>1, <1>2, <1>7 DEF Smaller, Larger
<1> HIDE DEF n
<1>9. Reconciled(l) \in Ledgers /\ Reconciled(l).spend = f /\ Reconciled(l).spent = n
  BY <1>1, <1>5, <1>6, <1>8, LedgerIsWritten
<1>10. ASSUME NEW t \in Stages, f[t] > 0 PROVE SettledTo(t)
  <2>1. CASE l.spend[t] > 0
    BY <1>1, <2>1
  <2>2. CASE Cardinality(Completed(t)) > 0
    <3>1. Completed(t) # {}
      BY <2>2, FS_EmptySet
    <3>2. Sliced(t) # {}
      BY <1>3, <3>1
    <3> QED
      BY <3>2 DEF SharesAreCut
  <2> QED
    BY <1>4, <1>10, <2>1, <2>2
<1> QED
  BY <1>4, <1>8, <1>9, <1>10 DEF Goods

\* The report does not change the numbers.
LEMMA ReportedIsGood == ASSUME NEW l \in Goods PROVE [l EXCEPT !.report = TRUE] \in Goods
<1> DEFINE k == [l EXCEPT !.report = TRUE]
<1>1. l \in Ledgers
  BY DEF Goods
<1>2. l.spend \in [Stages -> Nat] /\ 0 \in 0..DailyBudget
  BY <1>1, LedgerNumbers
<1>3. k \in Ledgers /\ k.spend = l.spend /\ k.spent = l.spent
  BY <1>1 DEF Ledgers
<1> HIDE DEF k
<1> QED
  BY <1>3 DEF Goods, k

\* Writing a larger number for a stage that is settled.
LEMMA StageIsWritten ==
  ASSUME NEW l \in Goods, NEW s \in Stages, SettledTo(s), NEW m \in Nat, l.spend[s] <= m, m <= StageBudget[s],
         NEW n \in 0..DailyBudget, n <= l.spent + (m - l.spend[s])
  PROVE  Written(l, [l.spend EXCEPT ![s] = m], n) \in Goods
<1> DEFINE f == [l.spend EXCEPT ![s] = m]
           k == Written(l, f, n)
<1>1. /\ l \in Ledgers /\ \A t \in Stages : l.spend[t] <= StageBudget[t]
      /\ l.spent <= Total(l.spend)
      /\ \A t \in Stages : l.spend[t] > 0 => SettledTo(t)
  BY DEF Goods
<1>2. l.spent \in 0..DailyBudget /\ l.spend \in [Stages -> Nat] /\ Total(l.spend) \in Nat /\ l.spend[s] \in Nat
  BY <1>1, LedgerNumbers, TotalCounts
<1>3. f \in [Stages -> Nat] /\ f[s] = m /\ \A t \in Stages : t # s => f[t] = l.spend[t]
  BY <1>2
<1>4. Total(f) = Total(l.spend) + m - l.spend[s]
  BY <1>2, TotalAdds
<1> HIDE DEF f
<1>6. k \in Ledgers /\ k.spend = f /\ k.spent = n
  BY <1>1, <1>3, LedgerIsWritten
<1> HIDE DEF k
<1>7. n <= Total(f)
  BY <1>1, <1>2, <1>4
<1>8. k \in Goods
  BY <1>1, <1>3, <1>6, <1>7 DEF Goods
<1> QED
  BY <1>8 DEF k, f

-----------------------------------------------------------------------------
(* The steps                                                               *)

LEMMA EventsStayGood ==
  ASSUME NEW S, NEW q \in Seq(S)
  PROVE  /\ q # <<>> => Head(q) \in S /\ Tail(q) \in Seq(S)
         /\ \A i \in DOMAIN q : RemoveAt(q, i) \in Seq(S)
         /\ \A l \in S : Append(q, l) \in Seq(S)
<1>1. q # <<>> => Head(q) \in S /\ Tail(q) \in Seq(S)
  OBVIOUS
<1>2. ASSUME NEW i \in DOMAIN q PROVE RemoveAt(q, i) \in Seq(S)
  <2>1. i \in 1..Len(q)
    OBVIOUS
  <2>2. SubSeq(q, 1, i - 1) \in Seq(S) /\ SubSeq(q, i + 1, Len(q)) \in Seq(S)
    BY <2>1
  <2> QED
    BY <2>2 DEF RemoveAt
<1> QED
  BY <1>1, <1>2

LEMMA EnqueuedIsGood ==
  ASSUME outbox \in Seq(Goods), NEW l \in Goods
  PROVE  Enqueued(l) \in Seq(Goods)
BY EventsStayGood DEF Enqueued

\* What a tick that is over leaves.
LEMMA ForgetIsGood ==
  ASSUME Forget
  PROVE  /\ mem' \in Goods /\ todo' \in Seq(Goods) /\ after' = "idle"
         /\ plan' \in [stage : 0..Len(StageBudget), slice : SUBSET Candidates]
<1>1. <<>> \in Seq(Goods)
  OBVIOUS
<1>2. NoPlan \in [stage : 0..Len(StageBudget), slice : SUBSET Candidates]
  BY StagesAre DEF NoPlan
<1> QED
  BY <1>1, <1>2, NewIsGood DEF Forget

\* Steps that cut no slice change no share.
LEMMA SharesStay ==
  ASSUME BudgetInv, UNCHANGED slices, DayTypes',
         file' \in Goods, mem' \in Goods, outbox' \in Seq(Goods), todo' \in Seq(Goods),
         pc' = "mark" => todo' # <<>>,
         \A s \in Stages : simulated'[s] \subseteq Sliced(s) /\ rows'[s] \subseteq Sliced(s),
         TickKnowsItsLedger'
  PROVE  BudgetInv'
<1>1. LedgersAreGood'
  BY SlicesStay DEF LedgersAreGood
<1>2. OnlySliced'
  BY SlicesStay DEF OnlySliced
<1> QED
  BY <1>1, <1>2, SlicesStay DEF BudgetInv

LEMMA BudgetStarts == Init => BudgetInv
<1> SUFFICES ASSUME Init PROVE BudgetInv
  OBVIOUS
<1>1. <<>> \in Seq(Goods) /\ file \in Goods /\ mem \in Goods
  BY NewIsGood DEF Init
<1>2. LedgersAreGood
  BY <1>1 DEF LedgersAreGood, Init
<1>3. NoPlan \in [stage : 0..Len(StageBudget), slice : SUBSET Candidates]
  BY StagesAre DEF NoPlan
<1>4. DayTypes
  BY <1>3, ConstantsAssumption DEF DayTypes, Init
<1>5. \A s \in Stages : Sliced(s) = {}
  BY DEF Init, Sliced
<1>6. SharesAreCut /\ OnlySliced /\ TickKnowsItsLedger
  BY <1>5 DEF SharesAreCut, OnlySliced, TickKnowsItsLedger, Init
<1> QED
  BY <1>2, <1>4, <1>6 DEF BudgetInv

LEMMA DrainKeepsBudget == BudgetInv /\ Drain => BudgetInv'
<1> SUFFICES ASSUME BudgetInv, Drain PROVE BudgetInv'
  OBVIOUS
<1> USE DEF BudgetInv
<1>0. /\ file \in Goods /\ mem \in Goods /\ outbox \in Seq(Goods) /\ todo \in Seq(Goods)
      /\ \A s \in Stages : simulated[s] \subseteq Sliced(s) /\ rows[s] \subseteq Sliced(s)
  BY DEF LedgersAreGood, OnlySliced
<1>1. CASE DeliveryFails
  <2>1. todo' \in Seq(Goods)
    BY <1>0, <1>1, EventsStayGood DEF DeliveryFails
  <2>2. DayTypes' /\ TickKnowsItsLedger'
    BY <1>1, ConstantsAssumption DEF DeliveryFails, DayTypes, disk, TickKnowsItsLedger
  <2> QED
    BY <1>0, <1>1, <2>1, <2>2, SharesStay DEF DeliveryFails, disk
<1>2. CASE Deliver
  <2>1. file' \in Goods
    BY <1>0, <1>2, EventsStayGood DEF Deliver
  <2>2. DayTypes' /\ TickKnowsItsLedger'
    BY <1>2 DEF Deliver, DayTypes, tick, TickKnowsItsLedger
  <2> QED
    BY <1>0, <1>2, <2>1, <2>2, SharesStay DEF Deliver, tick
<1>3. CASE MarkDelivered
  <2>1. todo' \in Seq(Goods) /\ outbox' \in Seq(Goods)
    BY <1>0, <1>3, EventsStayGood DEF MarkDelivered, LedgersAreGood
  <2>2. DayTypes' /\ TickKnowsItsLedger'
    BY <1>3 DEF MarkDelivered, DayTypes, TickKnowsItsLedger
  <2> QED
    BY <1>0, <1>3, <2>1, <2>2, SharesStay DEF MarkDelivered
<1>4. CASE DrainEnds
  <2>1. /\ mem' \in Goods /\ todo' \in Seq(Goods) /\ after' \in {"idle", "load", "report"}
        /\ plan' \in [stage : 0..Len(StageBudget), slice : SUBSET Candidates]
    BY <1>0, <1>4, ForgetIsGood DEF DrainEnds, tick, DayTypes
  <2>2. DayTypes' /\ TickKnowsItsLedger'
    BY <1>4, <2>1 DEF DrainEnds, DayTypes, disk, TickKnowsItsLedger
  <2>3. pc' # "mark"
    BY <1>4 DEF DrainEnds, DayTypes
  <2> QED
    BY <1>0, <1>4, <2>1, <2>2, <2>3, SharesStay DEF DrainEnds, disk
<1> QED
  BY <1>1, <1>2, <1>3, <1>4 DEF Drain

\* The stage that is planned: the earlier ones are spent, so they are settled.
LEMMA PlannedStage ==
  ASSUME BudgetInv, pc = "plan", Ready(mem) # {}
  PROVE  LET s == Min(Ready(mem))
         IN  /\ s \in Stages /\ Remaining(mem) > 0 /\ mem.spend[s] < StageBudget[s]
             /\ \A t \in 1..(s - 1) : Settled(t) /\ mem.spend[t] >= StageBudget[t]
<1> DEFINE s == Min(Ready(mem))
<1>1. Ready(mem) \subseteq Stages /\ Ready(mem) \subseteq Nat
  BY StagesAre DEF Ready
<1>2. \E m \in Ready(mem) : \A n \in Ready(mem) : m <= n
  BY <1>1, LeastExists
<1>3. s \in Ready(mem) /\ \A n \in Ready(mem) : s <= n
  BY <1>2 DEF Min
<1> HIDE DEF s
<1>4. s \in Stages /\ s \in Nat /\ Remaining(mem) > 0 /\ mem.spend[s] < StageBudget[s]
  BY <1>1, <1>3 DEF Ready
<1>5. ASSUME NEW t \in 1..(s - 1) PROVE Settled(t) /\ mem.spend[t] >= StageBudget[t]
  <2>1. t \in Stages /\ t \in 1..t /\ ~(s <= t)
    BY <1>4, StagesAre
  <2>2. t \notin Ready(mem)
    BY <1>3, <2>1
  <2>3. mem \in Goods
    BY DEF BudgetInv, LedgersAreGood
  <2>4. mem.spend[t] \in Nat /\ StageBudget[t] \in Nat \ {0}
    BY <2>1, <2>3, LedgerNumbers, StagesAre DEF Goods
  <2>5. mem.spend[t] >= StageBudget[t]
    BY <1>4, <2>1, <2>2, <2>4 DEF Ready
  <2>6. mem.spend[t] > 0
    BY <2>4, <2>5
  <2>7. SettledTo(t)
    BY <2>1, <2>3, <2>6 DEF Goods
  <2> QED
    BY <2>1, <2>5, <2>7 DEF SettledTo
<1> QED
  BY <1>4, <1>5 DEF s

\* What is sliced for it.
LEMMA PlannedSlice ==
  ASSUME OneOrder, BudgetInv, pc = "plan", Ready(mem) # {}
  PROVE  LET s == Min(Ready(mem))
         IN  /\ Slice(mem, s) \subseteq ShareOf(s, Earlier(s))
             /\ Sliced(s) = {} /\ ~Settled(s) => Slice(mem, s) = ShareOf(s, Earlier(s))
             /\ Slice(mem, s) \in SUBSET Candidates /\ Cardinality(Slice(mem, s)) \in Nat
             /\ Cardinality(Slice(mem, s)) <= Remaining(mem)
<1> DEFINE s == Min(Ready(mem))
<1>1. /\ s \in Stages /\ Remaining(mem) > 0 /\ mem.spend[s] < StageBudget[s]
      /\ \A t \in 1..(s - 1) : Settled(t) /\ mem.spend[t] >= StageBudget[t]
  BY PlannedStage
<1>2. /\ DayTypes /\ mem \in Goods /\ mem \in Ledgers
      /\ Cardinality(Completed(s)) <= mem.spend[s]
      /\ mem.spent = Smaller(DailyBudget, Total(mem.spend))
      /\ mem.spend[s] <= StageBudget[s]
  BY <1>1 DEF BudgetInv, LedgersAreGood, TickKnowsItsLedger, Goods
<1> HIDE DEF s
<1>3. /\ Slice(mem, s) \subseteq ShareOf(s, Earlier(s))
      /\ Sliced(s) = {} /\ ~Settled(s) => Slice(mem, s) = ShareOf(s, Earlier(s))
  BY <1>1, <1>2, SliceIsFromShare
<1>4. /\ Room(mem, s) \in Nat /\ Room(mem, s) <= Remaining(mem)
      /\ Slice(mem, s) \in SUBSET Candidates /\ Cardinality(Slice(mem, s)) <= Room(mem, s)
  BY <1>1, <1>2, SliceByPlace
<1>5. Cardinality(Slice(mem, s)) \in Nat /\ Remaining(mem) \in Nat
  BY <1>2, <1>4, CandidateSets, LedgerNumbers
<1>6. Cardinality(Slice(mem, s)) <= Remaining(mem)
  BY <1>4, <1>5
<1> QED
  BY <1>3, <1>4, <1>5, <1>6 DEF s

\* A slice is cut: the stage's first is its share, a later one lies within it,
\* and one as large as the share is the share again.
LEMMA PrepareKeepsBudget == OneOrder /\ BudgetInv /\ PrepareSlice => BudgetInv'
<1> SUFFICES ASSUME OneOrder, BudgetInv, PrepareSlice,
                    NEW s, s = Min(Ready(mem)), NEW part, part = Slice(mem, s),
                    NEW size, size = Cardinality(part), NEW share, share = ShareOf(s, Earlier(s))
             PROVE  BudgetInv'
  OBVIOUS
<1>0. pc = "plan" /\ Ready(mem) # {}
  BY DEF PrepareSlice
<1>1. /\ part # {} /\ slices' = [slices EXCEPT ![s][size] = part]
      /\ plan' = [stage |-> s, slice |-> part] /\ pc' = "gate"
      /\ UNCHANGED <<file, outbox, rows, simulated, mem, todo, after, failures, crashes>>
  BY DEF PrepareSlice
<1>2. /\ s \in Stages /\ \A t \in 1..(s - 1) : Settled(t)
  BY <1>0, PlannedStage
<1>3. /\ part \subseteq share /\ (Sliced(s) = {} /\ ~Settled(s) => part = share)
      /\ part \in SUBSET Candidates /\ size \in Nat /\ size <= Remaining(mem)
  BY <1>0, PlannedSlice
<1>4. size \in Sizes
  <2>1. mem \in Ledgers
    BY DEF BudgetInv, LedgersAreGood, Goods
  <2>2. size # 0
    BY <1>1, <1>3, CandidateSets, FS_EmptySet
  <2> QED
    BY <1>3, <2>1, <2>2, LedgerNumbers DEF Sizes
<1>5. slices \in [Stages -> [Sizes -> SUBSET Candidates]]
  BY DEF BudgetInv, DayTypes
<1>6. slices' \in [Stages -> [Sizes -> SUBSET Candidates]]
  BY <1>1, <1>2, <1>3, <1>4, <1>5
<1>7. \A t \in Stages : \A m \in Sizes : slices'[t][m] = IF t = s /\ m = size THEN part ELSE slices[t][m]
  BY <1>1, <1>2, <1>4, <1>5
<1>8. \A t \in Stages : t # s => Sliced(t)' = Sliced(t)
  BY <1>7 DEF Sliced
<1>9. DayTypes'
  <2>1. plan' \in [stage : 0..Len(StageBudget), slice : SUBSET Candidates]
    BY <1>1, <1>2, <1>3, StagesAre
  <2> QED
    BY <1>1, <1>6, <2>1 DEF BudgetInv, DayTypes
<1>10. s \in 1..s /\ \A t \in 1..(s - 1) : t \in Stages /\ t # s
  BY <1>2, StagesAre
<1>11. Earlier(s)' = Earlier(s) /\ \A t \in 1..(s - 1) : Earlier(t)' = Earlier(t)
  <2>1. ASSUME NEW t \in 1..s PROVE Earlier(t)' = Earlier(t)
    <3>1. \A u \in 1..(t - 1) : u \in Stages /\ u # s
      BY <1>2, <2>1, StagesAre
    <3>2. \A u \in 1..(t - 1) : Sliced(u)' = Sliced(u)
      BY <1>8, <3>1
    <3> QED
      BY <3>2 DEF Earlier
  <2>2. \A t \in 1..(s - 1) : t \in 1..s
    BY <1>2, StagesAre
  <2> QED
    BY <1>10, <2>1, <2>2
<1>12. \A t \in 1..(s - 1) : Settled(t)'
  BY <1>2, <1>8, <1>10, <1>11 DEF Settled
<1>13. Sliced(s)' = share /\ slices'[s][Cardinality(share)] = share
  <2>1. CASE Sliced(s) = {}
    <3>1. ~Settled(s)
      BY <1>1, <1>3, <2>1 DEF Settled
    <3>2. part = share
      BY <1>3, <2>1, <3>1
    <3>3. \A m \in Sizes : slices[s][m] = {}
      BY <2>1 DEF Sliced
    <3>4. Sliced(s)' = part
      BY <1>2, <1>4, <1>7, <3>3 DEF Sliced
    <3> QED
      BY <1>2, <1>4, <1>7, <3>2, <3>4
  <2>2. CASE Sliced(s) # {}
    <3>1. SettledTo(s) /\ slices[s][Cardinality(Sliced(s))] = Sliced(s)
      BY <1>2, <2>2 DEF BudgetInv, SharesAreCut
    <3>2. Sliced(s) = share
      BY <1>10, <3>1 DEF SettledTo, Settled
    <3>3. share \in SUBSET Candidates /\ IsFiniteSet(share) /\ Cardinality(share) \in Nat
      BY <1>2, <3>2, SlicedAre, CandidateSets DEF BudgetInv
    <3>4. Cardinality(share) \in Sizes
      <4>1. PICK c : c \in share
        BY <1>1, <1>3
      <4>2. Cardinality(share) # 0
        BY <3>3, <4>1, FS_EmptySet
      <4>3. Cardinality(share) <= DailyBudget
        <5>1. /\ Candidates \ Earlier(s) \subseteq Nat /\ IsFiniteSet(Candidates \ Earlier(s))
              /\ DailyBudget \in Nat /\ Prior(s) \in Nat
          BY <1>2, CandidateSets, PriorCounts, ConstantsAssumption
        <5>2. /\ share \in SUBSET (Candidates \ Earlier(s))
              /\ \A d \in share : Ahead(d, Candidates \ Earlier(s)) + Prior(s) < DailyBudget
          BY DEF ShareOf
        <5>3. \A d \in share : Ahead(d, Candidates \ Earlier(s)) < DailyBudget
          <6> SUFFICES ASSUME NEW d \in share PROVE Ahead(d, Candidates \ Earlier(s)) < DailyBudget
            OBVIOUS
          <6>1. d \in Nat /\ d \in Candidates \ Earlier(s)
            BY <5>1, <5>2
          <6>2. Ahead(d, Candidates \ Earlier(s)) \in Nat
            BY <5>1, <6>1, AheadCounts
          <6> QED
            BY <5>1, <5>2, <6>2
        <5> QED
          BY <5>1, <5>2, <5>3, FrontFits
      <4> QED
        BY <3>3, <4>2, <4>3, ConstantsAssumption DEF Sizes
    <3>5. slices'[s][Cardinality(share)] = share
      <4>1. CASE Cardinality(share) = size
        <5>1. part = share
          BY <1>3, <3>3, <4>1, FS_Subset
        <5> QED
          BY <1>2, <1>7, <3>4, <4>1, <5>1
      <4>2. CASE Cardinality(share) # size
        BY <1>2, <1>7, <3>1, <3>2, <3>4, <4>2
      <4> QED
        BY <4>1, <4>2
    <3>6. Sliced(s)' = share
      <4>1. \A m \in Sizes : slices[s][m] \subseteq share
        BY <3>2 DEF Sliced
      <4>2. \A m \in Sizes : slices'[s][m] \subseteq share
        BY <1>2, <1>3, <1>7, <4>1
      <4> QED
        BY <3>4, <3>5, <4>2 DEF Sliced
    <3> QED
      BY <3>5, <3>6
  <2> QED
    BY <2>1, <2>2
<1>14. SettledTo(s)'
  <2>1. Settled(s)'
    BY <1>11, <1>13 DEF Settled
  <2>2. \A t \in 1..s : t = s \/ t \in 1..(s - 1)
    BY <1>2, StagesAre
  <2> QED
    BY <1>12, <2>1, <2>2 DEF SettledTo
<1>15. \A t \in Stages : SettledTo(t) => SettledTo(t)'
  <2> SUFFICES ASSUME NEW t \in Stages, SettledTo(t) PROVE SettledTo(t)'
    OBVIOUS
  <2>1. CASE t < s
    <3>1. \A u \in 1..t : u \in 1..(s - 1)
      BY <1>2, <2>1, StagesAre
    <3> QED
      BY <1>12, <3>1 DEF SettledTo
  <2>2. CASE s <= t
    <3>1. s \in 1..t
      BY <1>2, <2>2, StagesAre
    <3>2. Sliced(s) = share
      BY <3>1 DEF SettledTo, Settled
    <3>3. \A u \in Stages : Sliced(u)' = Sliced(u)
      BY <1>8, <1>13, <3>2
    <3>4. \A u \in 1..t : u \in Stages /\ 1..(u - 1) \subseteq Stages
      BY StagesAre
    <3>5. \A u \in 1..t : Sliced(u)' = Sliced(u)
      BY <3>3, <3>4
    <3>6. \A u \in 1..t : Earlier(u)' = Earlier(u)
      BY <3>3, <3>4 DEF Earlier
    <3> QED
      BY <3>5, <3>6 DEF SettledTo, Settled
  <2> QED
    BY <1>2, <2>1, <2>2, StagesAre
<1>16. Goods \subseteq Goods'
  BY <1>15 DEF Goods
<1>17. LedgersAreGood'
  <2>1. \A q \in Seq(Goods) : q \in Seq(Goods')
    BY <1>16
  <2> QED
    BY <1>1, <1>16, <2>1 DEF BudgetInv, LedgersAreGood
<1>18. SharesAreCut'
  <2> SUFFICES ASSUME NEW t \in Stages, Sliced(t)' # {}
               PROVE  SettledTo(t)' /\ slices'[t][Cardinality(Sliced(t)')] = Sliced(t)'
    BY DEF SharesAreCut
  <2>1. CASE t = s
    BY <1>13, <1>14, <2>1
  <2>2. CASE t # s
    <3>1. Sliced(t)' = Sliced(t) /\ Sliced(t) # {}
      BY <1>8, <2>2
    <3>2. SettledTo(t) /\ slices[t][Cardinality(Sliced(t))] = Sliced(t)
      BY <3>1 DEF BudgetInv, SharesAreCut
    <3>3. slices'[t] = slices[t]
      BY <1>1, <1>2, <1>5, <2>2
    <3> QED
      BY <1>15, <3>1, <3>2, <3>3
  <2> QED
    BY <2>1, <2>2
<1>19. OnlySliced'
  <2>1. \A t \in Stages : Sliced(t) \subseteq Sliced(t)'
    <3>1. Sliced(s) \subseteq share
      BY <1>2, <1>10 DEF BudgetInv, SharesAreCut, SettledTo, Settled
    <3> QED
      BY <1>8, <1>13, <3>1
  <2> QED
    BY <1>1, <2>1 DEF BudgetInv, OnlySliced
<1>20. TickKnowsItsLedger'
  <2>1. Remaining(mem)' = Remaining(mem)
    BY <1>1 DEF Remaining
  <2>2. plan'.stage = s /\ plan'.slice = part
    BY <1>1
  <2> QED
    BY <1>1, <1>2, <1>3, <1>13, <2>1, <2>2 DEF TickKnowsItsLedger
<1> QED
  BY <1>9, <1>17, <1>18, <1>19, <1>20 DEF BudgetInv

\* A stage is skipped only if its share is empty or sliced already.
LEMMA SkipKeepsBudget == OneOrder /\ BudgetInv /\ SkipStage => BudgetInv'
<1> SUFFICES ASSUME OneOrder, BudgetInv, SkipStage, NEW s, s = Min(Ready(mem)) PROVE BudgetInv'
  OBVIOUS
<1>0. pc = "plan" /\ Ready(mem) # {}
  BY DEF SkipStage
<1>1. /\ Slice(mem, s) = {} /\ mem' = [mem EXCEPT !.spend[s] = StageBudget[s]]
      /\ outbox' = Enqueued(mem') /\ todo' = outbox' /\ after' = "idle" /\ pc' = "drain"
      /\ UNCHANGED <<file, slices, rows, simulated, plan, failures, crashes>>
  BY DEF SkipStage, StartDrain
<1>2. /\ s \in Stages /\ mem.spend[s] < StageBudget[s] /\ \A t \in 1..(s - 1) : Settled(t)
  BY <1>0, PlannedStage
<1>3. Sliced(s) = {} /\ ~Settled(s) => Slice(mem, s) = ShareOf(s, Earlier(s))
  BY <1>0, PlannedSlice
<1>4. SettledTo(s)
  <2>1. CASE Sliced(s) = {}
    <3>1. Settled(s)
      BY <1>1, <1>3, <2>1 DEF Settled
    <3>2. \A t \in 1..s : t = s \/ t \in 1..(s - 1)
      BY <1>2, StagesAre
    <3> QED
      BY <1>2, <3>1, <3>2 DEF SettledTo
  <2>2. CASE Sliced(s) # {}
    BY <1>2, <2>2 DEF BudgetInv, SharesAreCut
  <2> QED
    BY <2>1, <2>2
<1>5. mem \in Goods /\ mem \in Ledgers
  BY DEF BudgetInv, LedgersAreGood, Goods
<1>6. /\ mem.spend \in [Stages -> Nat] /\ mem.spend[s] \in Nat /\ StageBudget[s] \in Nat
      /\ mem.spent \in 0..DailyBudget
  BY <1>2, <1>5, LedgerNumbers, StagesAre
<1>7. mem' = Written(mem, [mem.spend EXCEPT ![s] = StageBudget[s]], mem.spent)
  BY <1>1, <1>5 DEF Ledgers, Written
<1>8. mem' \in Goods
  <2>1. mem.spent <= mem.spent + (StageBudget[s] - mem.spend[s])
    BY <1>2, <1>6
  <2> QED
    BY <1>2, <1>4, <1>5, <1>6, <1>7, <2>1, StageIsWritten
<1>9. outbox' \in Seq(Goods)
  BY <1>1, <1>8, EnqueuedIsGood DEF BudgetInv, LedgersAreGood
<1>10. DayTypes' /\ TickKnowsItsLedger'
  BY <1>1 DEF BudgetInv, DayTypes, TickKnowsItsLedger
<1> QED
  BY <1>1, <1>8, <1>9, <1>10, SharesStay DEF BudgetInv, LedgersAreGood, OnlySliced

\* What is credited is within what remains.
LEMMA CreditKeepsBudget == BudgetInv /\ Credit => BudgetInv'
<1> SUFFICES ASSUME BudgetInv, Credit, NEW s, s = plan.stage, NEW part, part = plan.slice
             PROVE  BudgetInv'
  OBVIOUS
<1>1. /\ mem' = Credited(mem, s, part) /\ outbox' = Enqueued(mem') /\ todo' = outbox'
      /\ after' \in {"idle", "report"} /\ pc' = "drain" /\ pc = "credited"
      /\ UNCHANGED <<file, slices, rows, simulated, plan, failures, crashes>>
  BY DEF Credit, StartDrain
<1>2. /\ s \in Stages /\ part # {} /\ part \subseteq Sliced(s) /\ Cardinality(part) <= Remaining(mem)
      /\ mem \in Goods /\ mem \in Ledgers /\ part \in SUBSET Candidates
  BY <1>1 DEF BudgetInv, LedgersAreGood, Goods, TickKnowsItsLedger, DayTypes
<1>3. SettledTo(s)
  BY <1>2 DEF BudgetInv, SharesAreCut
<1> DEFINE done == CompletedOf(s, part)
           m == Smaller(StageBudget[s], mem.spend[s] + done)
           n == mem.spent + (m - mem.spend[s])
<1>4. /\ mem.spend \in [Stages -> Nat] /\ mem.spend[s] \in Nat /\ StageBudget[s] \in Nat
      /\ mem.spent \in 0..DailyBudget /\ mem.spend[s] <= StageBudget[s]
      /\ Remaining(mem) = DailyBudget - mem.spent /\ DailyBudget \in Nat
  BY <1>2, LedgerNumbers, StagesAre DEF Goods
<1>5. done \in Nat /\ done <= Remaining(mem)
  <2>1. IsFiniteSet(part) /\ Cardinality(part) \in Nat
    BY <1>2, CandidateSets
  <2>2. done \in Nat /\ done <= Cardinality(part)
    BY <2>1, FS_Subset, FS_CardinalityType DEF CompletedOf
  <2> HIDE DEF done
  <2> QED
    BY <1>2, <1>4, <2>1, <2>2
<1> HIDE DEF done
<1>6. m \in Nat /\ mem.spend[s] <= m /\ m <= StageBudget[s] /\ n \in 0..DailyBudget
  BY <1>4, <1>5 DEF Smaller
<1>7. mem' = Written(mem, [mem.spend EXCEPT ![s] = m], n)
  BY <1>1, <1>2 DEF Credited, Written, Ledgers, done
<1> HIDE DEF m
<1>8. mem' \in Goods
  BY <1>2, <1>3, <1>4, <1>6, <1>7, StageIsWritten
<1>9. outbox' \in Seq(Goods)
  BY <1>1, <1>8, EnqueuedIsGood DEF BudgetInv, LedgersAreGood
<1>10. DayTypes' /\ TickKnowsItsLedger'
  BY <1>1 DEF BudgetInv, DayTypes, TickKnowsItsLedger
<1> QED
  BY <1>1, <1>8, <1>9, <1>10, SharesStay DEF BudgetInv, LedgersAreGood, OnlySliced

LEMMA TickKeepsBudget == OneOrder /\ BudgetInv /\ Tick => BudgetInv'
<1> SUFFICES ASSUME OneOrder, BudgetInv, Tick PROVE BudgetInv'
  OBVIOUS
<1>0. /\ file \in Goods /\ mem \in Goods /\ outbox \in Seq(Goods) /\ todo \in Seq(Goods)
      /\ \A s \in Stages : simulated[s] \subseteq Sliced(s) /\ rows[s] \subseteq Sliced(s)
      /\ DayTypes /\ SharesAreCut /\ TickKnowsItsLedger
  BY DEF BudgetInv, LedgersAreGood, OnlySliced
<1>1. CASE TickBegins
  <2>1. DayTypes' /\ TickKnowsItsLedger'
    BY <1>0, <1>1 DEF TickBegins, StartDrain, DayTypes, disk, TickKnowsItsLedger
  <2> QED
    BY <1>0, <1>1, <2>1, SharesStay DEF TickBegins, StartDrain, disk
<1>2. CASE LoadLedger
  <2>1. /\ mem' = Reconciled(file) /\ file' = Reconciled(file) /\ pc' \in {"report", "plan"}
        /\ UNCHANGED <<outbox, slices, rows, simulated, todo, after, plan, failures, crashes>>
    BY <1>2 DEF LoadLedger
  <2>2. /\ Reconciled(file) \in Goods
        /\ \A s \in Stages : Cardinality(Completed(s)) <= Reconciled(file).spend[s]
        /\ Reconciled(file).spent = Smaller(DailyBudget, Total(Reconciled(file).spend))
    BY <1>0, ReconciledIsGood
  <2>3. DayTypes'
    BY <1>0, <2>1 DEF DayTypes
  <2>4. \A s : Completed(s)' = Completed(s)
    BY <2>1 DEF Completed
  <2>5. TickKnowsItsLedger'
    BY <2>1, <2>2, <2>4 DEF TickKnowsItsLedger
  <2> QED
    BY <1>0, <2>1, <2>2, <2>3, <2>5, SharesStay
<1>3. CASE WriteReport
  <2>1. file' \in Goods
    BY <1>0, <1>3, ReportedIsGood DEF WriteReport
  <2>2. /\ mem' \in Goods /\ todo' \in Seq(Goods) /\ after' = "idle"
        /\ plan' \in [stage : 0..Len(StageBudget), slice : SUBSET Candidates]
    BY <1>3, ForgetIsGood DEF WriteReport
  <2>3. DayTypes' /\ TickKnowsItsLedger'
    BY <1>0, <1>3, <2>2 DEF WriteReport, DayTypes, TickKnowsItsLedger
  <2> QED
    BY <1>0, <1>3, <2>1, <2>2, <2>3, SharesStay DEF WriteReport
<1>4. CASE NothingToScan
  <2>1. /\ mem' \in Goods /\ todo' \in Seq(Goods) /\ after' = "idle"
        /\ plan' \in [stage : 0..Len(StageBudget), slice : SUBSET Candidates]
    BY <1>4, ForgetIsGood DEF NothingToScan
  <2>2. DayTypes' /\ TickKnowsItsLedger'
    BY <1>0, <1>4, <2>1 DEF NothingToScan, DayTypes, disk, TickKnowsItsLedger
  <2> QED
    BY <1>0, <1>4, <2>1, <2>2, SharesStay DEF NothingToScan, disk
<1>5. CASE PrepareSlice
  BY <1>5, PrepareKeepsBudget
<1>6. CASE SkipStage
  BY <1>6, SkipKeepsBudget
<1>7. CASE Gate
  <2>1. CASE pc' = "scan" /\ UNCHANGED tick
    <3>1. DayTypes' /\ TickKnowsItsLedger'
      <4>1. Remaining(mem)' = Remaining(mem) /\ \A s \in Stages : Sliced(s)' = Sliced(s)
        BY <1>7, <2>1 DEF Gate, Remaining, Sliced, disk, tick
      <4> QED
        BY <1>0, <1>7, <2>1, <4>1 DEF Gate, DayTypes, disk, tick, TickKnowsItsLedger
    <3> QED
      BY <1>0, <1>7, <2>1, <3>1, SharesStay DEF Gate, disk, tick
  <2>2. CASE pc' = "idle" /\ Forget
    <3>1. /\ mem' \in Goods /\ todo' \in Seq(Goods) /\ after' = "idle"
          /\ plan' \in [stage : 0..Len(StageBudget), slice : SUBSET Candidates]
      BY <2>2, ForgetIsGood
    <3>2. DayTypes' /\ TickKnowsItsLedger'
      BY <1>0, <1>7, <2>2, <3>1 DEF Gate, DayTypes, disk, TickKnowsItsLedger
    <3> QED
      BY <1>0, <1>7, <2>2, <3>1, <3>2, SharesStay DEF Gate, disk
  <2> QED
    BY <1>7, <2>1, <2>2 DEF Gate
<1>8. CASE Credit
  BY <1>8, CreditKeepsBudget
<1>9. CASE ScanEnds
  <2>1. Remaining(mem)' = Remaining(mem) /\ \A s \in Stages : Sliced(s)' = Sliced(s)
    BY <1>9 DEF ScanEnds, Remaining, Sliced, disk, tick
  <2>2. DayTypes' /\ TickKnowsItsLedger'
    BY <1>0, <1>9, <2>1 DEF ScanEnds, DayTypes, disk, tick, TickKnowsItsLedger
  <2> QED
    BY <1>0, <1>9, <2>2, SharesStay DEF ScanEnds, disk, tick
<1> QED
  BY <1>1, <1>2, <1>3, <1>4, <1>5, <1>6, <1>7, <1>8, <1>9 DEF Tick

\* Scans ask and file for what is sliced only.
LEMMA ScanKeepsBudget ==
  BudgetInv /\ (Scan \/ TearResults \/ TickDies \/ LeaveDay \/ UNCHANGED vars) => BudgetInv'
<1> SUFFICES ASSUME BudgetInv, Scan \/ TearResults \/ TickDies \/ LeaveDay \/ UNCHANGED vars
             PROVE  BudgetInv'
  OBVIOUS
<1>0. /\ file \in Goods /\ mem \in Goods /\ outbox \in Seq(Goods) /\ todo \in Seq(Goods)
      /\ \A s \in Stages : simulated[s] \subseteq Sliced(s) /\ rows[s] \subseteq Sliced(s)
      /\ DayTypes /\ SharesAreCut /\ TickKnowsItsLedger /\ (pc = "mark" => todo # <<>>)
      /\ rows \in [Stages -> SUBSET Candidates] /\ simulated \in [Stages -> SUBSET Candidates]
  BY DEF BudgetInv, LedgersAreGood, OnlySliced, DayTypes
<1>1. ASSUME UNCHANGED <<slices, mem, plan>>, pc \in {"gate", "scan"}, pc' \in {"gate", "scan", "credited"}
      PROVE  TickKnowsItsLedger'
  <2>1. Remaining(mem)' = Remaining(mem) /\ \A s \in Stages : Sliced(s)' = Sliced(s)
    BY <1>1 DEF Remaining, Sliced
  <2> QED
    BY <1>0, <1>1, <2>1 DEF TickKnowsItsLedger
<1>2. ASSUME NEW c \in Candidates, Recover(c) PROVE BudgetInv'
  <2>1. PICK s \in Stages : /\ \E n \in Sizes : c \in slices[s][n]
                            /\ rows' = [rows EXCEPT ![s] = @ \cup {c}]
    BY <1>2 DEF Recover
  <2>2. c \in Sliced(s)
    BY <2>1 DEF Sliced
  <2>3. rows' \in [Stages -> SUBSET Candidates] /\ \A t \in Stages : rows'[t] \subseteq Sliced(t)
    BY <1>0, <2>1, <2>2
  <2>4. DayTypes' /\ TickKnowsItsLedger'
    BY <1>0, <1>1, <1>2, <2>3 DEF Recover, DayTypes, tick
  <2> QED
    BY <1>0, <1>2, <2>3, <2>4, SharesStay DEF Recover, tick
<1>3. ASSUME NEW c \in Candidates, Simulate(c) PROVE BudgetInv'
  <2>1. plan.stage \in Stages /\ c \in Sliced(plan.stage)
    BY <1>0, <1>3 DEF Simulate, TickKnowsItsLedger
  <2>2. /\ simulated' \in [Stages -> SUBSET Candidates]
        /\ \A t \in Stages : simulated'[t] \subseteq Sliced(t)
    BY <1>0, <1>3, <2>1 DEF Simulate
  <2>3. DayTypes' /\ TickKnowsItsLedger'
    BY <1>0, <1>1, <1>3, <2>2 DEF Simulate, DayTypes, tick, disk
  <2> QED
    BY <1>0, <1>3, <2>2, <2>3, SharesStay DEF Simulate, tick, disk
<1>4. ASSUME NEW c \in Candidates, FileRow(c) PROVE BudgetInv'
  <2>1. plan.stage \in Stages /\ c \in Sliced(plan.stage)
    BY <1>0, <1>4 DEF FileRow, TickKnowsItsLedger
  <2>2. rows' \in [Stages -> SUBSET Candidates] /\ \A t \in Stages : rows'[t] \subseteq Sliced(t)
    BY <1>0, <1>4, <2>1 DEF FileRow
  <2>3. DayTypes' /\ TickKnowsItsLedger'
    BY <1>0, <1>1, <1>4, <2>2 DEF FileRow, DayTypes, tick
  <2> QED
    BY <1>0, <1>4, <2>2, <2>3, SharesStay DEF FileRow, tick
<1>5. CASE TearResults
  <2>1. rows' \in [Stages -> SUBSET Candidates] /\ \A t \in Stages : rows'[t] \subseteq Sliced(t)
    BY <1>0, <1>5 DEF TearResults
  <2>2. crashes' \in 0..MaxCrashes
    BY <1>0, <1>5, ConstantsAssumption DEF TearResults, DayTypes
  <2>3. DayTypes' /\ TickKnowsItsLedger'
    BY <1>0, <1>1, <1>5, <2>1, <2>2 DEF TearResults, DayTypes, tick
  <2> QED
    BY <1>0, <1>5, <2>1, <2>3, SharesStay DEF TearResults, tick
<1>6. CASE TickDies
  <2>1. /\ mem' \in Goods /\ todo' \in Seq(Goods) /\ after' = "idle"
        /\ plan' \in [stage : 0..Len(StageBudget), slice : SUBSET Candidates]
    BY <1>6, ForgetIsGood DEF TickDies
  <2>2. crashes' \in 0..MaxCrashes
    BY <1>0, <1>6, ConstantsAssumption DEF TickDies, DayTypes
  <2>3. DayTypes' /\ TickKnowsItsLedger'
    BY <1>0, <1>6, <2>1, <2>2 DEF TickDies, DayTypes, disk, TickKnowsItsLedger
  <2> QED
    BY <1>0, <1>6, <2>1, <2>3, SharesStay DEF TickDies, disk
<1>7. CASE UNCHANGED vars
  <2>1. DayTypes'
    BY <1>0, <1>7 DEF vars, disk, tick, DayTypes
  <2>2. TickKnowsItsLedger'
    <3>1. /\ Remaining(mem)' = Remaining(mem) /\ \A s \in Stages : Sliced(s)' = Sliced(s)
          /\ \A s \in Stages : Completed(s)' = Completed(s)
      BY <1>7 DEF vars, disk, tick, Remaining, Sliced, Completed
    <3> QED
      BY <1>0, <1>7, <3>1 DEF vars, disk, tick, TickKnowsItsLedger
  <2> QED
    BY <1>0, <1>7, <2>1, <2>2, SharesStay DEF vars, disk, tick
<1>8. CASE LeaveDay
  <2>1. DayTypes' /\ TickKnowsItsLedger' /\ pc' # "mark"
    BY <1>0, <1>8 DEF LeaveDay, DayTypes, disk, tick, TickKnowsItsLedger
  <2> QED
    BY <1>0, <1>8, <2>1, SharesStay DEF LeaveDay, disk, tick
<1> QED
  BY <1>2, <1>3, <1>4, <1>5, <1>6, <1>7, <1>8 DEF Scan

LEMMA BudgetStep == OneOrder /\ BudgetInv /\ [Next]_vars => BudgetInv'
BY DrainKeepsBudget, TickKeepsBudget, ScanKeepsBudget DEF Next

\* Every candidate asked for has fewer than a day's budget before it.
LEMMA SharesAreWithinBudget == BudgetInv => TypeOK /\ SimulationsWithinBudget
<1> SUFFICES ASSUME BudgetInv PROVE TypeOK /\ SimulationsWithinBudget
  OBVIOUS
<1>0. DayTypes /\ SharesAreCut /\ OnlySliced
  BY DEF BudgetInv
<1>1. TypeOK
  <2>1. /\ file \in Goods /\ mem \in Goods /\ outbox \in Seq(Goods) /\ todo \in Seq(Goods)
        /\ Goods \subseteq Ledgers
    BY DEF BudgetInv, LedgersAreGood, Goods
  <2>2. outbox \in Seq(Ledgers) /\ todo \in Seq(Ledgers)
    <3>1. \A q \in Seq(Goods) : q \in Seq(Ledgers)
      BY <2>1
    <3> QED
      BY <2>1, <3>1
  <2>3. \A s \in Stages : file.spend[s] <= StageBudget[s]
    BY <2>1 DEF Goods
  <2> QED
    BY <1>0, <2>1, <2>2, <2>3 DEF TypeOK, DayTypes
<1>2. ASSUME NEW s \in Stages PROVE Cardinality(simulated[s]) <= StageBudget[s]
  <2>1. IsFiniteSet(Sliced(s)) /\ Cardinality(Sliced(s)) \in Nat /\ Cardinality(Sliced(s)) <= StageBudget[s]
    BY <1>0, SlicedFits
  <2>2. simulated[s] \subseteq Sliced(s)
    BY <1>0 DEF OnlySliced
  <2>3. Cardinality(simulated[s]) \in Nat /\ Cardinality(simulated[s]) <= Cardinality(Sliced(s))
    BY <2>1, <2>2, FS_Subset, FS_CardinalityType
  <2> QED
    BY <2>1, <2>3, StagesAre
<1>3. ASSUME NEW c \in AllSimulated PROVE c \in Candidates /\ Ahead(c, Candidates) < DailyBudget
  <2>1. PICK s \in Stages : c \in Sliced(s)
    BY <1>0 DEF AllSimulated, OnlySliced
  <2>2. SettledTo(s) /\ s \in 1..s
    BY <1>0, <2>1, StagesAre DEF SharesAreCut
  <2> DEFINE pool == Candidates \ Earlier(s)
  <2>3. c \in pool /\ Ahead(c, pool) + Prior(s) < DailyBudget
    <3>1. c \in ShareOf(s, Earlier(s))
      BY <2>1, <2>2 DEF SettledTo, Settled
    <3> QED
      BY <3>1 DEF ShareOf
  <2>4. Cardinality(Earlier(s)) <= Prior(s)
    <3>1. \A t \in 1..(s - 1) : t \in 1..s
      BY <2>2, StagesAre
    <3> QED
      BY <1>0, <2>2, <3>1, EarlierFits DEF SettledTo
  <2>5. /\ Earlier(s) \in SUBSET Candidates /\ Cardinality(Earlier(s)) \in Nat /\ Prior(s) \in Nat
        /\ pool \subseteq Nat /\ IsFiniteSet(pool) /\ Candidates \subseteq Nat /\ IsFiniteSet(Candidates)
    BY <1>0, SlicedAre, CandidateSets, PriorCounts
  <2>6. c \in Nat /\ c \in Candidates /\ Ahead(c, pool) \in Nat /\ Ahead(c, Candidates) \in Nat
    <3>1. c \in Nat /\ c \in Candidates
      BY <2>3, <2>5
    <3> HIDE DEF pool
    <3> QED
      BY <2>5, <3>1, AheadCounts
  <2>7. Ahead(c, Candidates) <= Ahead(c, pool) + Cardinality(Earlier(s))
    BY <2>5, <2>6, AheadMoves
  <2> HIDE DEF pool
  <2> QED
    BY <2>3, <2>4, <2>5, <2>6, <2>7, ConstantsAssumption
<1>4. Cardinality(AllSimulated) <= DailyBudget
  <2>1. AllSimulated \in SUBSET Candidates
    BY <1>3
  <2>2. Candidates \subseteq Nat /\ IsFiniteSet(Candidates) /\ DailyBudget \in Nat
    BY ConstantsAssumption
  <2> QED
    BY <1>3, <2>1, <2>2, FrontFits
<1> QED
  BY <1>1, <1>2, <1>4 DEF SimulationsWithinBudget

\* engine.py:1493: for any stages, allocations, day's budget and candidates, and
\* whatever dies, fails or is replayed: a day asks for no more simulations than its
\* budget and a stage for no more than its allocation, if no candidate is of another
\* family than the rest and the diversity caps let as many through as a day may ask for.
THEOREM BudgetIsKept == OneOrder /\ Spec => [](TypeOK /\ SimulationsWithinBudget)
<1> SUFFICES ASSUME OneOrder PROVE Spec => [](TypeOK /\ SimulationsWithinBudget)
  OBVIOUS
<1>1. BudgetInv /\ [Next]_vars => BudgetInv'
  BY BudgetStep
<1>2. Init /\ [][Next]_vars => []BudgetInv
  BY <1>1, BudgetStarts, PTL
<1> QED
  BY <1>2, SharesAreWithinBudget, PTL DEF Spec

-----------------------------------------------------------------------------
(***************************************************************************)
(* Control is earned.  A score counts only candidates that were advised    *)
(* and have a row, so the gate's totals cannot exceed what was tried; and  *)
(* a gate that wants the share of low results to fall cannot open before   *)
(* there are some.                                                         *)
(***************************************************************************)
Scores == [tested : Nat, ready : Nat, low : Nat, families : Nat]
Decisions == [baseline : SUBSET Candidate, recommended : SUBSET Candidate]

\* Fewer candidates are recommended at a time than the stage may simulate, and
\* what the file recommends has been advised.
ShadowIsAdvice ==
  \/ shadow = <<>>
  \/ \E d \in Decisions :
       /\ shadow = <<d>> /\ d.recommended \subseteq advice[day]
       /\ Cardinality(d.recommended) <= Allocation

\* A score counts what was advised and tested, and low results that are there.
ScoresAreEarned ==
  \A d \in 1..Days :
    /\ scored[d].recommended.tested <= Allocation
    /\ scored[d].recommended.tested <= Cardinality(Advised(d))
    /\ scored[d].baseline.low >= 1 => \E c \in tested[d] : Pool[c].worth = "low"

FeedbackTypes ==
  /\ day \in 1..Days /\ requested \in RequestedModes /\ boundary \in Boundaries
  /\ phase \in {"plan", "scan", "over"} /\ spend \in 0..Allocation
  /\ cut \in [0..Allocation -> SUBSET Candidate] /\ slice \subseteq Candidate
  /\ tested \in [1..Days -> SUBSET Candidate]
  /\ advice \in [1..Days -> SUBSET Candidate]
  /\ scored \in [1..Days -> [baseline : Scores, recommended : Scores]]
  /\ owed \in BOOLEAN /\ breaks \in 0..MaxBreaks

FeedbackInv == FeedbackTypes /\ ShadowIsAdvice /\ ScoresAreEarned

-----------------------------------------------------------------------------
(* Sums of scores                                                          *)

\* The partial sums that FoldSet and FoldSeq build with Plus.
PartialScores(g, e, S) ==
  g = [s \in SUBSET S |-> IF s = {} THEN NoScore ELSE Plus(e[AnyOf(s)], g[s \ {AnyOf(s)}])]

\* The sum, field by field.
SumOf(e, s) ==
  [tested   |-> Cardinality(Weights([x \in DOMAIN e |-> e[x].tested], s)),
   ready    |-> Cardinality(Weights([x \in DOMAIN e |-> e[x].ready], s)),
   low      |-> Cardinality(Weights([x \in DOMAIN e |-> e[x].low], s)),
   families |-> Cardinality(Weights([x \in DOMAIN e |-> e[x].families], s))]

LEMMA PlusAdds ==
  ASSUME NEW s \in Scores, NEW t \in Scores
  PROVE  Plus(s, t) = [tested   |-> s.tested + t.tested,
                       ready    |-> s.ready + t.ready,
                       low      |-> s.low + t.low,
                       families |-> s.families + t.families]
<1>1. DOMAIN s = {"tested", "ready", "low", "families"}
  BY DEF Scores
<1> QED
  BY <1>1 DEF Plus

LEMMA SumsAreScores ==
  ASSUME NEW S, IsFiniteSet(S), NEW e \in [S -> Scores], NEW s \in SUBSET S
  PROVE  SumOf(e, s) \in Scores
<1>1. ASSUME NEW f \in [S -> Nat] PROVE Cardinality(Weights(f, s)) \in Nat
  <2>1. IsFiniteSet(Weights(f, S)) /\ Weights(f, s) \in SUBSET Weights(f, S)
    BY WeightsFinite DEF Weights
  <2> QED
    BY <2>1, FS_Subset, FS_CardinalityType
<1>2. /\ [x \in DOMAIN e |-> e[x].tested] \in [S -> Nat]
      /\ [x \in DOMAIN e |-> e[x].ready] \in [S -> Nat]
      /\ [x \in DOMAIN e |-> e[x].low] \in [S -> Nat]
      /\ [x \in DOMAIN e |-> e[x].families] \in [S -> Nat]
  BY DEF Scores
<1> QED
  BY <1>1, <1>2 DEF SumOf, Scores

LEMMA NoScoresSum == ASSUME NEW e PROVE SumOf(e, {}) = NoScore
  BY NoWeights DEF SumOf, NoScore

LEMMA SumsAdd ==
  ASSUME NEW S, IsFiniteSet(S), NEW e \in [S -> Scores], NEW s \in SUBSET S, NEW x \in s
  PROVE  SumOf(e, s) = Plus(e[x], SumOf(e, s \ {x}))
<1> DEFINE t == s \ {x}
           te == [y \in DOMAIN e |-> e[y].tested]
           re == [y \in DOMAIN e |-> e[y].ready]
           lo == [y \in DOMAIN e |-> e[y].low]
           fa == [y \in DOMAIN e |-> e[y].families]
<1>1. te \in [S -> Nat] /\ re \in [S -> Nat] /\ lo \in [S -> Nat] /\ fa \in [S -> Nat]
  BY DEF Scores
<1>2. te[x] = e[x].tested /\ re[x] = e[x].ready /\ lo[x] = e[x].low /\ fa[x] = e[x].families
  OBVIOUS
<1>3. e[x] \in Scores /\ SumOf(e, t) \in Scores
  BY SumsAreScores
<1>4. Plus(e[x], SumOf(e, t)) =
        [tested |-> e[x].tested + SumOf(e, t).tested, ready |-> e[x].ready + SumOf(e, t).ready,
         low |-> e[x].low + SumOf(e, t).low, families |-> e[x].families + SumOf(e, t).families]
  BY <1>3, PlusAdds
<1> HIDE DEF te, re, lo, fa
<1>5. /\ Cardinality(Weights(te, s)) = te[x] + Cardinality(Weights(te, t))
      /\ Cardinality(Weights(re, s)) = re[x] + Cardinality(Weights(re, t))
      /\ Cardinality(Weights(lo, s)) = lo[x] + Cardinality(Weights(lo, t))
      /\ Cardinality(Weights(fa, s)) = fa[x] + Cardinality(Weights(fa, t))
  BY <1>1, WeightsAdd
<1>6. \A r \in {s, t} :
        SumOf(e, r) = [tested   |-> Cardinality(Weights(te, r)),
                       ready    |-> Cardinality(Weights(re, r)),
                       low      |-> Cardinality(Weights(lo, r)),
                       families |-> Cardinality(Weights(fa, r))]
  BY DEF SumOf, te, re, lo, fa
<1> HIDE DEF t
<1>7. SumOf(e, t) = [tested   |-> Cardinality(Weights(te, t)),
                     ready    |-> Cardinality(Weights(re, t)),
                     low      |-> Cardinality(Weights(lo, t)),
                     families |-> Cardinality(Weights(fa, t))]
  BY <1>6
<1>8. /\ SumOf(e, t).tested = Cardinality(Weights(te, t))
      /\ SumOf(e, t).ready = Cardinality(Weights(re, t))
      /\ SumOf(e, t).low = Cardinality(Weights(lo, t))
      /\ SumOf(e, t).families = Cardinality(Weights(fa, t))
  BY <1>7
<1>9. SumOf(e, s) = [tested   |-> Cardinality(Weights(te, s)),
                     ready    |-> Cardinality(Weights(re, s)),
                     low      |-> Cardinality(Weights(lo, s)),
                     families |-> Cardinality(Weights(fa, s))]
  BY <1>6
<1> QED
  BY <1>2, <1>4, <1>5, <1>8, <1>9 DEF t

LEMMA PartialScoresExist ==
  ASSUME NEW S, IsFiniteSet(S), NEW e \in [S -> Scores]
  PROVE  \E g : PartialScores(g, e, S)
<1> DEFINE g == [s \in SUBSET S |-> SumOf(e, s)]
           h == [s \in SUBSET S |->
                   IF s = {} THEN NoScore ELSE Plus(e[AnyOf(s)], g[s \ {AnyOf(s)}])]
<1>1. ASSUME NEW s \in SUBSET S PROVE g[s] = h[s]
  <2>1. CASE s = {}
    BY <2>1, NoScoresSum
  <2>2. CASE s # {}
    <3>1. AnyOf(s) \in s
      BY <2>2, AnyIsOneOf
    <3>2. SumOf(e, s) = Plus(e[AnyOf(s)], SumOf(e, s \ {AnyOf(s)}))
      BY <3>1, SumsAdd
    <3> QED
      BY <2>2, <3>2
  <2> QED
    BY <2>1, <2>2
<1>2. g = h
  BY <1>1
<1> QED
  BY <1>2 DEF PartialScores

LEMMA PartialScoresSum ==
  ASSUME NEW S, IsFiniteSet(S), NEW e \in [S -> Scores], NEW g, PartialScores(g, e, S)
  PROVE  g[S] = SumOf(e, S)
<1> DEFINE Other == {s \in SUBSET S : g[s] # SumOf(e, s)}
<1> SUFFICES ASSUME Other # {} PROVE FALSE
  OBVIOUS
<1>1. IsWellFoundedOn(StrictSubsetOrdering(S), SUBSET S)
  BY FS_StrictSubsetOrderingWellFounded, FS_FiniteSubsetsOfFinite
<1>2. PICK s \in Other : \A t \in Other : ~(<<t, s>> \in StrictSubsetOrdering(S))
  BY <1>1, WFMin
<1>3. g[s] = IF s = {} THEN NoScore ELSE Plus(e[AnyOf(s)], g[s \ {AnyOf(s)}])
  BY DEF PartialScores
<1>4. CASE s = {}
  BY <1>3, <1>4, NoScoresSum
<1>5. CASE s # {}
  <2>1. AnyOf(s) \in s
    BY <1>5, AnyIsOneOf
  <2> DEFINE t == s \ {AnyOf(s)}
  <2>2. t \in SUBSET S /\ <<t, s>> \in StrictSubsetOrdering(S)
    BY <2>1 DEF StrictSubsetOrdering
  <2>3. g[t] = SumOf(e, t)
    BY <1>2, <2>2
  <2>4. SumOf(e, s) = Plus(e[AnyOf(s)], SumOf(e, t))
    BY <2>1, SumsAdd
  <2> QED
    BY <1>3, <1>5, <2>3, <2>4
<1> QED
  BY <1>4, <1>5

\* What the partial sums are chosen to be ends in the sum.
LEMMA ScoresAreSummed ==
  ASSUME NEW S, IsFiniteSet(S), NEW e \in [S -> Scores]
  PROVE  (CHOOSE g : PartialScores(g, e, S))[S] = SumOf(e, S)
<1> DEFINE g == CHOOSE g : PartialScores(g, e, S)
<1>1. PartialScores(g, e, S)
  BY PartialScoresExist
<1> HIDE DEF g
<1>2. g[S] = SumOf(e, S)
  BY <1>1, PartialScoresSum
<1> QED
  BY <1>2 DEF g

\* What aggregate_shadow_evidence adds up.
LEMMA EvidenceIsSum ==
  ASSUME FeedbackTypes
  PROVE  /\ Evidence.runs = Cardinality(Counted)
         /\ Evidence.baseline = SumOf([d \in Counted |-> scored[d].baseline], Counted)
         /\ Evidence.recommended = SumOf([d \in Counted |-> scored[d].recommended], Counted)
<1> DEFINE bs == [d \in Counted |-> scored[d].baseline]
           rs == [d \in Counted |-> scored[d].recommended]
<1>1. Counted \in SUBSET (1..Days) /\ IsFiniteSet(1..Days)
  BY FS_Interval, FeedbackConstants DEF Counted
<1>2. IsFiniteSet(Counted)
  BY <1>1, FS_Subset
<1>3. bs \in [Counted -> Scores] /\ rs \in [Counted -> Scores]
  BY <1>1 DEF FeedbackTypes
<1>4. FoldSet(LAMBDA d, s : Plus(scored[d].baseline, s), NoScore, Counted)
        = (CHOOSE g : PartialScores(g, bs, Counted))[Counted]
  BY DEF FoldSet, MapThenFoldSet, PartialScores, AnyOf
<1>5. FoldSet(LAMBDA d, s : Plus(scored[d].recommended, s), NoScore, Counted)
        = (CHOOSE g : PartialScores(g, rs, Counted))[Counted]
  BY DEF FoldSet, MapThenFoldSet, PartialScores, AnyOf
<1> QED
  BY <1>2, <1>3, <1>4, <1>5, ScoresAreSummed DEF Evidence

\* A score of one decision is that decision's.
LEMMA OneScore ==
  ASSUME NEW x, NEW e \in [{x} -> Scores]
  PROVE  SumOf(e, {x}) = e[x]
<1>1. IsFiniteSet({x}) /\ {x} \ {x} = {} /\ e[x] \in Scores
  BY FS_Singleton
<1>2. SumOf(e, {x}) = Plus(e[x], NoScore)
  BY <1>1, SumsAdd, NoScoresSum
<1>3. NoScore \in Scores
  BY DEF NoScore, Scores
<1>4. Plus(e[x], NoScore) = [tested   |-> e[x].tested + 0,
                             ready    |-> e[x].ready + 0,
                             low      |-> e[x].low + 0,
                             families |-> e[x].families + 0]
  BY <1>1, <1>3, PlusAdds DEF NoScore
<1> QED
  BY <1>1, <1>2, <1>4 DEF Scores

LEMMA CandidatesAre ==
  /\ Candidate \subseteq Nat /\ IsFiniteSet(Candidate)
  /\ \A S \in SUBSET Candidate : S \subseteq Nat /\ IsFiniteSet(S) /\ Cardinality(S) \in Nat
<1>1. Candidate = 1..Len(Pool) /\ Len(Pool) \in Nat
  BY FeedbackConstants, LenProperties DEF Candidate, FeedbackConstants
<1>2. IsFiniteSet(Candidate)
  BY <1>1, FS_Interval
<1>3. ASSUME NEW S \in SUBSET Candidate
      PROVE  S \subseteq Nat /\ IsFiniteSet(S) /\ Cardinality(S) \in Nat
  <2>1. S \subseteq Nat
    BY <1>1
  <2> QED
    BY <1>2, <2>1, FS_Subset, FS_CardinalityType
<1> QED
  BY <1>1, <1>2, <1>3

\* _outcome_metrics counts rows of the candidates.
LEMMA ScoreCounts ==
  ASSUME NEW cs \in SUBSET Candidate, NEW found \in SUBSET Candidate
  PROVE  /\ Score(cs, found) \in Scores
         /\ Score(cs, found).tested = Cardinality(cs \cap found)
         /\ Score(cs, found).low >= 1 => \E c \in found : Pool[c].worth = "low"
<1> DEFINE low == {c \in cs \cap found : Pool[c].worth = "low"}
<1>1. /\ cs \cap found \in SUBSET Candidate /\ low \in SUBSET Candidate
      /\ {c \in cs \cap found : Pool[c].worth = "ready"} \in SUBSET Candidate
  OBVIOUS
<1>2. IsFiniteSet({Pool[c].family : c \in cs})
  <2> DEFINE h == [c \in cs |-> Pool[c].family]
  <2>1. h \in Surjection(cs, {Pool[c].family : c \in cs})
    BY DEF Surjection
  <2> QED
    BY <2>1, CandidatesAre, FS_Surjection
<1>3. Cardinality({Pool[c].family : c \in cs}) \in Nat
  BY <1>2, FS_CardinalityType
<1>4. Score(cs, found) \in Scores
  BY <1>1, <1>3, CandidatesAre DEF Score, Scores
<1>5. low = {} => Cardinality(low) = 0
  BY FS_EmptySet
<1>6. Score(cs, found).low >= 1 => low # {}
  BY <1>5 DEF Score
<1> QED
  BY <1>4, <1>6 DEF Score

\* _aggregate_scored, of the one decision that a stage has.
LEMMA AggregateIsScore ==
  ASSUME NEW d \in Decisions, NEW found \in SUBSET Candidate
  PROVE  Aggregate(<<d>>, found) =
           [baseline |-> Score(d.baseline, found), recommended |-> Score(d.recommended, found)]
<1> DEFINE bs == [i \in {1} |-> Score(d.baseline, found)]
           rs == [i \in {1} |-> Score(d.recommended, found)]
<1>1. bs \in [{1} -> Scores] /\ rs \in [{1} -> Scores] /\ IsFiniteSet({1})
  BY ScoreCounts, FS_Singleton DEF Decisions
<1>2. DOMAIN <<d>> = {1}
  OBVIOUS
<1>3. ASSUME NEW s \in SUBSET {1}, s # {} PROVE AnyOf(s) = 1
  BY <1>3, AnyIsOneOf
<1> DEFINE Base(g) == [s \in SUBSET {1} |->
                         IF s = {} THEN NoScore
                         ELSE Plus(Score(<<d>>[AnyOf(s)].baseline, found), g[s \ {AnyOf(s)}])]
           Rec(g) == [s \in SUBSET {1} |->
                        IF s = {} THEN NoScore
                        ELSE Plus(Score(<<d>>[AnyOf(s)].recommended, found), g[s \ {AnyOf(s)}])]
<1>4. FoldSeq(LAMBDA x, s : Plus(Score(x.baseline, found), s), NoScore, <<d>>)
        = (CHOOSE g : PartialScores(g, bs, {1}))[{1}]
  <2>1. FoldSeq(LAMBDA x, s : Plus(Score(x.baseline, found), s), NoScore, <<d>>)
          = (CHOOSE g : g = Base(g))[{1}]
    BY <1>2 DEF FoldSeq, FoldFunction, FoldFunctionOnSet, MapThenFoldSet, AnyOf
  <2>2. ASSUME NEW g PROVE g = Base(g) <=> PartialScores(g, bs, {1})
    <3>1. ASSUME NEW s \in SUBSET {1}, s # {}
          PROVE  Score(<<d>>[AnyOf(s)].baseline, found) = bs[AnyOf(s)]
      BY <1>3, <3>1
    <3> HIDE DEF bs
    <3> QED
      BY <3>1 DEF PartialScores
  <2> HIDE DEF Base
  <2> QED
    BY <2>1, <2>2, Zenon
<1>5. FoldSeq(LAMBDA x, s : Plus(Score(x.recommended, found), s), NoScore, <<d>>)
        = (CHOOSE g : PartialScores(g, rs, {1}))[{1}]
  <2>1. FoldSeq(LAMBDA x, s : Plus(Score(x.recommended, found), s), NoScore, <<d>>)
          = (CHOOSE g : g = Rec(g))[{1}]
    BY <1>2 DEF FoldSeq, FoldFunction, FoldFunctionOnSet, MapThenFoldSet, AnyOf
  <2>2. ASSUME NEW g PROVE g = Rec(g) <=> PartialScores(g, rs, {1})
    <3>1. ASSUME NEW s \in SUBSET {1}, s # {}
          PROVE  Score(<<d>>[AnyOf(s)].recommended, found) = rs[AnyOf(s)]
      BY <1>3, <3>1
    <3> HIDE DEF rs
    <3> QED
      BY <3>1 DEF PartialScores
  <2> HIDE DEF Rec
  <2> QED
    BY <2>1, <2>2, Zenon
<1>6. SumOf(bs, {1}) = Score(d.baseline, found) /\ SumOf(rs, {1}) = Score(d.recommended, found)
  BY <1>1, OneScore
<1> QED
  BY <1>1, <1>4, <1>5, <1>6, ScoresAreSummed DEF Aggregate

\* The first k are no more than k.
LEMMA FirstOfFits ==
  ASSUME NEW cs \in SUBSET Candidate, NEW k \in Nat
  PROVE  FirstOf(k, cs) \in SUBSET cs /\ Cardinality(FirstOf(k, cs)) <= k
<1>1. FirstOf(k, cs) \in SUBSET cs /\ \A c \in FirstOf(k, cs) : Ahead(c, cs) < k
  BY DEF FirstOf, Ahead
<1> QED
  BY <1>1, CandidatesAre, FrontFits

\* prepare_budgeted_scan recommends what is among the first, and selects no others.
LEMMA ControlsFit ==
  ASSUME NEW cs \in SUBSET Candidate, NEW n
  PROVE  /\ Controls(cs, n).baseline = cs /\ Controls(cs, n).recommended \in SUBSET cs
         /\ Controls(cs, n).selected \in SUBSET cs
<1>1. Overflow(cs, n) \in SUBSET cs /\ \A k, S : FirstOf(k, S) \in SUBSET S
  BY DEF Overflow, FirstOf
<1> QED
  BY <1>1 DEF Controls

-----------------------------------------------------------------------------
(* Every step keeps the invariant.                                         *)

LEMMA FeedbackStarts == FeedbackInit => FeedbackInv
<1> SUFFICES ASSUME FeedbackInit PROVE FeedbackInv
  OBVIOUS
<1>1. 1 \in 1..Days /\ Allocation \in Nat \ {0} /\ MaxBreaks \in Nat
  BY FeedbackConstants
<1>2. NoEvidence \in [baseline : Scores, recommended : Scores]
  BY DEF NoEvidence, NoScore, Scores
<1>3. FeedbackTypes
  BY <1>1, <1>2 DEF FeedbackInit, FeedbackTypes
<1>4. ScoresAreEarned
  <2> SUFFICES ASSUME NEW d \in 1..Days
               PROVE  /\ scored[d].recommended.tested <= Allocation
                      /\ scored[d].recommended.tested <= Cardinality(Advised(d))
                      /\ ~(scored[d].baseline.low >= 1)
    BY DEF ScoresAreEarned
  <2>1. scored[d].recommended.tested = 0 /\ scored[d].baseline.low = 0
    BY DEF FeedbackInit, NoEvidence, NoScore
  <2>2. Advised(d) = {}
    BY DEF FeedbackInit, Advised
  <2>3. Cardinality(Advised(d)) = 0
    BY <2>2, FS_EmptySet
  <2> QED
    BY <1>1, <2>1, <2>3
<1> QED
  BY <1>3, <1>4 DEF FeedbackInit, FeedbackInv, ShadowIsAdvice

\* A score stays earned while rows and advice are added.
LEMMA EarnedStays ==
  ASSUME FeedbackInv, FeedbackTypes', scored' = scored,
         \A d \in 1..Days : tested[d] \subseteq tested'[d] /\ advice[d] \subseteq advice'[d]
  PROVE  ScoresAreEarned'
<1> SUFFICES ASSUME NEW d \in 1..Days
             PROVE  /\ scored[d].recommended.tested <= Allocation
                    /\ scored[d].recommended.tested <= Cardinality(Advised(d)')
                    /\ scored[d].baseline.low >= 1 => \E c \in tested'[d] : Pool[c].worth = "low"
  BY DEF ScoresAreEarned
<1>1. /\ scored[d].recommended.tested <= Allocation
      /\ scored[d].recommended.tested <= Cardinality(Advised(d))
      /\ scored[d].baseline.low >= 1 => \E c \in tested[d] : Pool[c].worth = "low"
  BY DEF FeedbackInv, ScoresAreEarned
<1>2. Advised(d)' \in SUBSET Candidate /\ Advised(d) \in SUBSET Advised(d)'
  BY DEF Advised, FeedbackTypes
<1>3. Cardinality(Advised(d)) <= Cardinality(Advised(d)')
  BY <1>2, CandidatesAre, FS_Subset
<1>4. /\ Cardinality(Advised(d)) \in Nat /\ Cardinality(Advised(d)') \in Nat
      /\ scored[d].recommended.tested \in Nat
  <2>1. scored[d] \in [baseline : Scores, recommended : Scores]
    BY DEF FeedbackInv, FeedbackTypes
  <2>2. Advised(d) \in SUBSET Candidate
    BY <1>2
  <2> QED
    BY <1>2, <2>1, <2>2, CandidatesAre DEF Scores
<1> QED
  BY <1>1, <1>3, <1>4

LEMMA SpendSoFarIs ==
  ASSUME FeedbackTypes
  PROVE  SpendSoFar \in Nat /\ SpendSoFar >= spend
<1>1. Done \in SUBSET Candidate
  BY DEF FeedbackTypes, Done
<1>2. Cardinality(Done) \in Nat /\ spend \in Nat
  BY <1>1, CandidatesAre, FeedbackConstants DEF FeedbackTypes
<1> QED
  BY <1>2 DEF SpendSoFar, Most

LEMMA PrepareKeepsFeedback == FeedbackInv /\ Prepare => FeedbackInv'
<1> SUFFICES ASSUME FeedbackInv, Prepare PROVE FeedbackInv'
  OBVIOUS
<1> DEFINE budget == Least(Allocation - SpendSoFar, Cardinality(Open))
           first == FirstOf(budget, Open)
           chosen == Controls(first, budget)
           decision == [baseline |-> chosen.baseline, recommended |-> chosen.recommended]
<1>1. FeedbackTypes /\ ShadowIsAdvice /\ ScoresAreEarned
  BY DEF FeedbackInv
<1>2. Open \in SUBSET Candidate
  BY DEF Open
<1>3. budget \in Nat /\ budget <= Allocation /\ SpendSoFar \in 0..Allocation
  <2>1. Cardinality(Open) \in Nat /\ Allocation \in Nat /\ SpendSoFar \in Nat /\ SpendSoFar < Allocation
    BY <1>1, <1>2, CandidatesAre, SpendSoFarIs, FeedbackConstants DEF Prepare
  <2> QED
    BY <2>1 DEF Least
<1> HIDE DEF budget
<1>4. first \in SUBSET Candidate /\ Cardinality(first) <= budget
  BY <1>2, <1>3, FirstOfFits
<1> HIDE DEF first
<1>5. /\ chosen.baseline = first /\ chosen.recommended \in SUBSET first
      /\ chosen.selected \in SUBSET first
  BY <1>4, ControlsFit
<1>6. /\ phase' = "scan" /\ spend' = SpendSoFar /\ slice' = chosen.selected
      /\ cut' = [cut EXCEPT ![Cardinality(slice')] = slice']
      /\ UNCHANGED <<dayVars, tested, scored, owed, breaks>>
      /\ \/ UNCHANGED <<shadow, advice>>
         \/ /\ shadow' = <<decision>>
            /\ advice' = [advice EXCEPT ![day] = @ \cup chosen.recommended]
  BY DEF Prepare, RecordedIn, budget, first
<1> HIDE DEF chosen
<1>7. FeedbackTypes'
  <2>1. slice' \in SUBSET Candidate
    BY <1>4, <1>5, <1>6
  <2>2. cut' \in [0..Allocation -> SUBSET Candidate]
    BY <1>1, <1>6, <2>1 DEF FeedbackTypes
  <2>3. advice' \in [1..Days -> SUBSET Candidate]
    BY <1>1, <1>4, <1>5, <1>6 DEF FeedbackTypes
  <2> QED
    BY <1>1, <1>3, <1>6, <2>1, <2>2, <2>3 DEF FeedbackTypes, dayVars
<1>8. ShadowIsAdvice'
  <2>1. CASE UNCHANGED <<shadow, advice>>
    BY <1>1, <1>6, <2>1 DEF ShadowIsAdvice, dayVars
  <2>2. CASE shadow' = <<decision>> /\ advice' = [advice EXCEPT ![day] = @ \cup chosen.recommended]
    <3>1. decision \in Decisions
      BY <1>4, <1>5 DEF Decisions
    <3>2. chosen.recommended \subseteq advice'[day']
      BY <1>1, <1>6, <2>2 DEF FeedbackTypes, dayVars
    <3>3. Cardinality(chosen.recommended) <= Allocation
      <4>1. Cardinality(chosen.recommended) <= Cardinality(first)
        BY <1>4, <1>5, CandidatesAre, FS_Subset
      <4>2. Cardinality(chosen.recommended) \in Nat /\ Cardinality(first) \in Nat
        BY <1>4, <1>5, CandidatesAre
      <4> QED
        BY <1>3, <1>4, <4>1, <4>2, FeedbackConstants
    <3> QED
      BY <2>2, <3>1, <3>2, <3>3 DEF ShadowIsAdvice
  <2> QED
    BY <1>6, <2>1, <2>2
<1>9. ScoresAreEarned'
  <2>1. \A d \in 1..Days : tested[d] \subseteq tested'[d] /\ advice[d] \subseteq advice'[d]
    BY <1>1, <1>6 DEF FeedbackTypes
  <2> QED
    BY <1>6, <1>7, <2>1, EarnedStays
<1> QED
  BY <1>7, <1>8, <1>9 DEF FeedbackInv

LEMMA TestKeepsFeedback ==
  ASSUME FeedbackInv, NEW c \in Candidate, TestCandidate(c)
  PROVE  FeedbackInv'
<1>1. FeedbackTypes /\ ShadowIsAdvice
  BY DEF FeedbackInv
<1>2. /\ tested' = [tested EXCEPT ![day] = @ \cup {c}]
      /\ UNCHANGED <<dayVars, phase, spend, cut, slice, shadow, scored, owed, advice, breaks>>
  BY DEF TestCandidate
<1>3. FeedbackTypes'
  BY <1>1, <1>2 DEF FeedbackTypes, dayVars
<1>4. \A d \in 1..Days : tested[d] \subseteq tested'[d] /\ advice[d] \subseteq advice'[d]
  BY <1>1, <1>2 DEF FeedbackTypes
<1>5. ScoresAreEarned'
  BY <1>2, <1>3, <1>4, EarnedStays
<1> QED
  BY <1>1, <1>2, <1>3, <1>5 DEF FeedbackInv, ShadowIsAdvice, dayVars

LEMMA FinishKeepsFeedback ==
  ASSUME FeedbackInv, Finish, breaks' \in 0..MaxBreaks
  PROVE  FeedbackInv'
<1>1. FeedbackTypes /\ ShadowIsAdvice
  BY DEF FeedbackInv
<1>2. UNCHANGED <<dayVars, cut, slice, tested, shadow, scored, advice>> /\ phase' = "plan" /\ owed' = TRUE
  BY DEF Finish
<1>3. spend' \in 0..Allocation
  <2>1. slice \cap tested[day] \in SUBSET Candidate
    BY <1>1 DEF FeedbackTypes
  <2>2. /\ Cardinality(slice \cap tested[day]) \in Nat /\ spend \in 0..Allocation /\ Allocation \in Nat
    BY <1>1, <2>1, CandidatesAre, FeedbackConstants DEF FeedbackTypes
  <2> QED
    BY <2>2 DEF Finish, Least
<1>4. FeedbackTypes'
  BY <1>1, <1>2, <1>3 DEF FeedbackTypes, dayVars
<1>5. ScoresAreEarned'
  BY <1>2, <1>4, EarnedStays
<1> QED
  BY <1>1, <1>2, <1>4, <1>5 DEF FeedbackInv, ShadowIsAdvice, dayVars

LEMMA DeliverKeepsFeedback == FeedbackInv /\ DeliverScore => FeedbackInv'
<1> SUFFICES ASSUME FeedbackInv, DeliverScore PROVE FeedbackInv'
  OBVIOUS
<1>1. FeedbackTypes /\ ShadowIsAdvice /\ ScoresAreEarned
  BY DEF FeedbackInv
<1>2. /\ UNCHANGED <<dayVars, phase, spend, cut, slice, tested, shadow, advice, breaks>>
      /\ owed' = FALSE
  BY DEF DeliverScore
<1>3. ShadowIsAdvice'
  BY <1>1, <1>2 DEF ShadowIsAdvice, dayVars
<1>4. CASE shadow = <<>>
  <2>1. scored' = scored
    BY <1>4 DEF DeliverScore
  <2>2. FeedbackTypes'
    BY <1>1, <1>2, <2>1 DEF FeedbackTypes, dayVars
  <2>3. ScoresAreEarned'
    BY <1>2, <2>1, <2>2, EarnedStays
  <2> QED
    BY <1>3, <2>2, <2>3 DEF FeedbackInv
<1>5. CASE shadow # <<>>
  <2>1. PICK d \in Decisions :
          /\ shadow = <<d>> /\ d.recommended \subseteq advice[day]
          /\ Cardinality(d.recommended) <= Allocation
    BY <1>1, <1>5 DEF ShadowIsAdvice
  <2>2. /\ d.baseline \in SUBSET Candidate /\ d.recommended \in SUBSET Candidate
        /\ tested[day] \in SUBSET Candidate /\ day \in 1..Days
    BY <1>1 DEF Decisions, FeedbackTypes
  <2> DEFINE b == Score(d.baseline, tested[day])
             r == Score(d.recommended, tested[day])
  <2>3. /\ b \in Scores /\ r \in Scores
        /\ r.tested = Cardinality(d.recommended \cap tested[day])
        /\ b.low >= 1 => \E c \in tested[day] : Pool[c].worth = "low"
    BY <2>2, ScoreCounts
  <2> HIDE DEF b, r
  <2>4. scored' = [scored EXCEPT ![day] = [baseline |-> b, recommended |-> r]]
    BY <1>5, <2>1, <2>2, AggregateIsScore DEF DeliverScore, b, r
  <2>5. FeedbackTypes'
    BY <1>1, <1>2, <2>3, <2>4 DEF FeedbackTypes, dayVars
  <2>6. r.tested <= Allocation /\ r.tested <= Cardinality(Advised(day))
    <3>1. /\ d.recommended \cap tested[day] \in SUBSET d.recommended
          /\ d.recommended \cap tested[day] \in SUBSET Advised(day)
          /\ Advised(day) \in SUBSET Candidate
      BY <2>1, <2>2 DEF Advised
    <3>2. /\ IsFiniteSet(d.recommended) /\ IsFiniteSet(Advised(day))
          /\ Cardinality(d.recommended) \in Nat
      BY <2>2, <3>1, CandidatesAre
    <3>3. /\ Cardinality(d.recommended \cap tested[day]) <= Cardinality(d.recommended)
          /\ Cardinality(d.recommended \cap tested[day]) <= Cardinality(Advised(day))
      BY <3>1, <3>2, FS_Subset
    <3>4. r.tested \in Nat /\ Allocation \in Nat
      BY <2>3, FeedbackConstants DEF Scores
    <3> QED
      BY <2>1, <2>3, <3>2, <3>3, <3>4
  <2>7. ScoresAreEarned'
    <3> SUFFICES ASSUME NEW e \in 1..Days
                 PROVE  /\ scored'[e].recommended.tested <= Allocation
                        /\ scored'[e].recommended.tested <= Cardinality(Advised(e)')
                        /\ scored'[e].baseline.low >= 1 =>
                             \E c \in tested'[e] : Pool[c].worth = "low"
      BY DEF ScoresAreEarned
    <3>1. Advised(e)' = Advised(e) /\ tested' = tested
      BY <1>2 DEF Advised
    <3>2. CASE e = day
      <4>1. scored'[e] = [baseline |-> b, recommended |-> r]
        BY <1>1, <2>4, <3>2 DEF FeedbackTypes
      <4> QED
        BY <2>3, <2>6, <3>1, <3>2, <4>1
    <3>3. CASE e # day
      <4>1. scored'[e] = scored[e]
        BY <1>1, <2>4, <3>3 DEF FeedbackTypes
      <4> QED
        BY <1>1, <3>1, <4>1 DEF ScoresAreEarned
    <3> QED
      BY <3>2, <3>3
  <2> QED
    BY <1>3, <2>5, <2>7 DEF FeedbackInv
<1> QED
  BY <1>4, <1>5

LEMMA NextDayKeepsFeedback == FeedbackInv /\ NextDay => FeedbackInv'
<1> SUFFICES ASSUME FeedbackInv, NextDay PROVE FeedbackInv'
  OBVIOUS
<1>1. FeedbackTypes /\ ShadowIsAdvice
  BY DEF FeedbackInv
<1>2. UNCHANGED <<tested, scored, owed, advice, breaks>>
  BY DEF NextDay
<1>3. FeedbackTypes' /\ ShadowIsAdvice'
  <2>1. CASE day = Days
    BY <1>1, <1>2, <2>1 DEF NextDay, FeedbackTypes, ShadowIsAdvice, dayVars
  <2>2. CASE day # Days
    <3>1. /\ day' = day + 1 /\ requested' \in RequestedModes /\ boundary' \in Boundaries
          /\ spend' = 0 /\ cut' = [n \in DOMAIN cut |-> {}] /\ slice' = {} /\ shadow' = <<>>
          /\ phase' = phase
      BY <2>2 DEF NextDay
    <3>2. day' \in 1..Days /\ spend' \in 0..Allocation
      BY <1>1, <2>2, <3>1, FeedbackConstants DEF FeedbackTypes
    <3>3. cut' \in [0..Allocation -> SUBSET Candidate]
      BY <1>1, <3>1 DEF FeedbackTypes
    <3> QED
      BY <1>1, <1>2, <3>1, <3>2, <3>3 DEF FeedbackTypes, ShadowIsAdvice
  <2> QED
    BY <2>1, <2>2
<1>4. ScoresAreEarned'
  BY <1>2, <1>3, EarnedStays
<1> QED
  BY <1>3, <1>4 DEF FeedbackInv

LEMMA FeedbackStep == FeedbackInv /\ [FeedbackNext]_feedbackVars => FeedbackInv'
<1> SUFFICES ASSUME FeedbackInv, [FeedbackNext]_feedbackVars PROVE FeedbackInv'
  OBVIOUS
<1>1. breaks \in 0..MaxBreaks /\ MaxBreaks \in Nat
  BY FeedbackConstants DEF FeedbackInv, FeedbackTypes
<1>2. CASE Prepare
  BY <1>2, PrepareKeepsFeedback
<1>3. CASE \E c \in Candidate : TestCandidate(c)
  BY <1>3, TestKeepsFeedback
<1>4. CASE SliceEnds
  BY <1>1, <1>4, FinishKeepsFeedback DEF SliceEnds
<1>5. CASE SliceEndsEarly
  BY <1>1, <1>5, FinishKeepsFeedback DEF SliceEndsEarly, Break
<1>6. CASE SliceDies
  <2>1. FeedbackTypes'
    BY <1>1, <1>6 DEF SliceDies, Break, FeedbackInv, FeedbackTypes, dayVars
  <2>2. ScoresAreEarned'
    BY <1>6, <2>1, EarnedStays DEF SliceDies
  <2> QED
    BY <1>6, <2>1, <2>2 DEF SliceDies, FeedbackInv, ShadowIsAdvice, dayVars
<1>7. CASE DeliverScore
  BY <1>7, DeliverKeepsFeedback
<1>8. CASE NextDay
  BY <1>8, NextDayKeepsFeedback
<1>9. CASE UNCHANGED feedbackVars
  BY <1>9 DEF feedbackVars, dayVars, FeedbackInv, FeedbackTypes, ShadowIsAdvice, ScoresAreEarned, Advised
<1> QED
  BY <1>2, <1>3, <1>4, <1>5, <1>6, <1>7, <1>8, <1>9 DEF FeedbackNext

LEMMA FeedbackInvariant == FeedbackSpec => []FeedbackInv
<1>1. FeedbackInit /\ [][FeedbackNext]_feedbackVars => []FeedbackInv
  BY FeedbackStarts, FeedbackStep, PTL
<1> QED
  BY <1>1 DEF FeedbackSpec

-----------------------------------------------------------------------------
(* What an open gate shows.                                                *)

\* evaluate_promotion_gate asks the share of low results to fall, and a share
\* that is zero cannot.
LEMMA LowIsMeasured ==
  ASSUME NEW bl \in Nat, NEW rl \in Nat, NEW n \in Nat \ {0}, NEW m \in Nat \ {0},
         100 * (rl * n - bl * m) <= (-2) * n * m
  PROVE  bl >= 1
<1> SUFFICES ASSUME bl = 0 PROVE FALSE
  OBVIOUS
<1> DEFINE x == rl * n
           y == n * m
<1>1. x \in Nat /\ y \in Nat \ {0}
  OBVIOUS
<1>2. bl * m = 0 /\ (-2) * n * m = (-2) * y
  OBVIOUS
<1>3. 100 * x <= (-2) * y
  BY <1>2
<1> HIDE DEF x, y
<1> QED
  BY <1>1, <1>3

LEMMA GateShows == FeedbackInv /\ GateOpens => Earned
<1> SUFFICES ASSUME FeedbackInv, GateOpens PROVE Earned
  OBVIOUS
<1> DEFINE days == 1..Days
           tries == [d \in days |-> Cardinality(Advised(d))]
           counts == [d \in Counted |-> scored[d].recommended.tested]
           lows == [d \in Counted |-> scored[d].baseline.low]
           rs == [d \in Counted |-> scored[d].recommended]
           bs == [d \in Counted |-> scored[d].baseline]
<1>1. FeedbackTypes /\ ScoresAreEarned
  BY DEF FeedbackInv
<1>2. IsFiniteSet(days) /\ Counted \in SUBSET days /\ IsFiniteSet(Counted)
  <2>1. IsFiniteSet(days) /\ Counted \in SUBSET days
    BY FS_Interval, FeedbackConstants DEF Counted
  <2> QED
    BY <2>1, FS_Subset
<1>3. \A d \in days : /\ scored[d].recommended \in Scores /\ scored[d].baseline \in Scores
                      /\ scored[d].recommended.tested \in Nat /\ scored[d].baseline.low \in Nat
  <2> SUFFICES ASSUME NEW d \in days
               PROVE  scored[d].recommended \in Scores /\ scored[d].baseline \in Scores
    BY DEF Scores
  <2> QED
    BY <1>1 DEF FeedbackTypes
<1>4. \A d \in days : Advised(d) \in SUBSET Candidate /\ Cardinality(Advised(d)) \in Nat
  <2> SUFFICES ASSUME NEW d \in days
               PROVE  Advised(d) \in SUBSET Candidate /\ Cardinality(Advised(d)) \in Nat
    OBVIOUS
  <2>1. Advised(d) \in SUBSET Candidate
    BY <1>1 DEF FeedbackTypes, Advised
  <2> QED
    BY <2>1, CandidatesAre
<1>5. tries \in [days -> Nat]
  BY <1>4
<1>6. counts \in [Counted -> Nat] /\ lows \in [Counted -> Nat]
  BY <1>2, <1>3
<1>7. \A d \in Counted : counts[d] <= tries[d] /\ Advised(d) # {}
  <2> SUFFICES ASSUME NEW d \in Counted PROVE counts[d] <= tries[d] /\ Advised(d) # {}
    OBVIOUS
  <2>1. d \in days /\ scored[d].recommended.tested > 0
    BY DEF Counted
  <2>2. scored[d].recommended.tested <= Cardinality(Advised(d))
    BY <1>1, <2>1 DEF ScoresAreEarned
  <2>3. Advised(d) = {} => Cardinality(Advised(d)) = 0
    BY FS_EmptySet
  <2> QED
    BY <1>3, <2>1, <2>2, <2>3
<1>8. /\ Evidence.runs = Cardinality(Counted)
      /\ Evidence.baseline.low = Cardinality(Weights(lows, Counted))
      /\ Evidence.recommended.tested = Cardinality(Weights(counts, Counted))
  <2>1. /\ Evidence.runs = Cardinality(Counted)
        /\ Evidence.baseline = SumOf(bs, Counted)
        /\ Evidence.recommended = SumOf(rs, Counted)
    BY <1>1, EvidenceIsSum
  <2>2. [x \in DOMAIN bs |-> bs[x].low] = lows /\ [x \in DOMAIN rs |-> rs[x].tested] = counts
    OBVIOUS
  <2> HIDE DEF bs, rs, lows, counts
  <2> QED
    BY <2>1, <2>2 DEF SumOf
<1>9. Evidence.baseline \in Scores /\ Evidence.recommended \in Scores
  <2>1. bs \in [Counted -> Scores] /\ rs \in [Counted -> Scores]
    BY <1>2, <1>3
  <2> QED
    BY <1>1, <1>2, <2>1, EvidenceIsSum, SumsAreScores
<1>10. /\ Evidence.runs >= MinRuns /\ Evidence.recommended.tested >= MinSimulations
       /\ Evidence.baseline.low >= 1
  <2> DEFINE b == Evidence.baseline
             r == Evidence.recommended
             n == Most(b.tested, 1)
             m == Most(r.tested, 1)
  <2>1. n \in Nat \ {0} /\ m \in Nat \ {0} /\ b.low \in Nat /\ r.low \in Nat
    BY <1>9 DEF Most, Scores
  <2>2. /\ Evidence.runs >= MinRuns /\ r.tested >= MinSimulations
        /\ 100 * (r.low * n - b.low * m) <= (-2) * n * m
    BY DEF GateOpens
  <2> HIDE DEF n, m
  <2> QED
    BY <2>1, <2>2, LowIsMeasured
<1> HIDE DEF tries, counts, lows
<1>11. Cardinality({d \in days : Advised(d) # {}}) >= MinRuns
  <2> DEFINE tried == {d \in days : Advised(d) # {}}
  <2>1. tried \in SUBSET days /\ Counted \in SUBSET tried
    BY <1>2, <1>7
  <2>2. IsFiniteSet(tried) /\ Cardinality(tried) \in Nat /\ Cardinality(Counted) \in Nat
    BY <1>2, <2>1, FS_Subset, FS_CardinalityType
  <2>3. Cardinality(Counted) <= Cardinality(tried)
    BY <2>1, <2>2, FS_Subset
  <2> QED
    BY <1>8, <1>10, <2>2, <2>3, FeedbackConstants
<1>12. MapThenSumSet(LAMBDA d : Cardinality(Advised(d)), days) >= MinSimulations
  <2>1. MapThenSumSet(LAMBDA d : Cardinality(Advised(d)), days)
          = MapThenSumSet(LAMBDA d : tries[d], days)
    <3> DEFINE Tried(g) == [s \in SUBSET days |->
                              IF s = {} THEN 0
                              ELSE Cardinality(Advised(AnyOf(s))) + g[s \ {AnyOf(s)}]]
    <3>1. MapThenSumSet(LAMBDA d : Cardinality(Advised(d)), days)
            = (CHOOSE g : g = Tried(g))[days]
      BY DEF MapThenSumSet, MapThenFoldSet, AnyOf
    <3>2. MapThenSumSet(LAMBDA d : tries[d], days) = (CHOOSE g : Partial(g, tries, days))[days]
      BY DEF MapThenSumSet, MapThenFoldSet, AnyOf, Partial
    <3>3. ASSUME NEW g PROVE g = Tried(g) <=> Partial(g, tries, days)
      <4>1. ASSUME NEW s \in SUBSET days, s # {}
            PROVE  tries[AnyOf(s)] = Cardinality(Advised(AnyOf(s)))
        BY <4>1, AnyIsOneOf DEF tries
      <4> QED
        BY <4>1 DEF Partial
    <3> HIDE DEF Tried
    <3> QED
      BY <3>1, <3>2, <3>3, Zenon
  <2>2. MapThenSumSet(LAMBDA d : tries[d], days) = Cardinality(Weights(tries, days))
    BY <1>2, <1>5, SumIsCount
  <2>3. Cardinality(Weights(counts, Counted)) <= Cardinality(Weights(tries, days))
    <3> DEFINE self == [d \in Counted |-> d]
    <3>1. /\ self \in [Counted -> days] /\ \A c, d \in Counted : self[c] = self[d] => c = d
          /\ \A d \in Counted : counts[d] <= tries[self[d]]
      BY <1>2, <1>7
    <3> HIDE DEF self
    <3> QED
      BY <1>2, <1>5, <1>6, <3>1, PartnersWeigh
  <2>4. Cardinality(Weights(counts, Counted)) \in Nat /\ Cardinality(Weights(tries, days)) \in Nat
    BY <1>2, <1>5, <1>6, WeightsFinite
  <2> QED
    BY <1>8, <1>10, <2>1, <2>2, <2>3, <2>4, FeedbackConstants
<1>13. \E d \in 1..Days : \E c \in tested[d] : Pool[c].worth = "low"
  <2>1. PICK d \in Counted : lows[d] >= 1
    BY <1>2, <1>6, <1>8, <1>10, SomeWeight
  <2>2. scored[d].baseline.low >= 1 /\ d \in 1..Days
    BY <1>2, <2>1 DEF lows
  <2> QED
    BY <1>1, <2>2 DEF ScoresAreEarned
<1> QED
  BY <1>11, <1>12, <1>13 DEF Earned

LEMMA FeedbackIsTyped == FeedbackInv => FeedbackTypeOK
<1> SUFFICES ASSUME FeedbackInv PROVE FeedbackTypeOK
  OBVIOUS
<1>1. FeedbackTypes
  BY DEF FeedbackInv
<1>2. Len(shadow) <= 1
  <2>1. \A d : Len(<<d>>) <= 1
    OBVIOUS
  <2>2. shadow = <<>> => Len(shadow) <= 1
    OBVIOUS
  <2> QED
    BY <2>1, <2>2 DEF FeedbackInv, ShadowIsAdvice
<1>3. ASSUME NEW d \in 1..Days PROVE scored[d].recommended.tested \in 0..Allocation
  <2>1. scored[d] \in [baseline : Scores, recommended : Scores]
    BY <1>1 DEF FeedbackTypes
  <2>2. scored[d].recommended.tested \in Nat /\ scored[d].recommended.tested <= Allocation
    BY <2>1 DEF Scores, FeedbackInv, ScoresAreEarned
  <2> QED
    BY <2>2, FeedbackConstants
<1> QED
  BY <1>1, <1>2, <1>3 DEF FeedbackTypes, FeedbackTypeOK

-----------------------------------------------------------------------------
(* The theorems.                                                           *)

\* policy_feedback.py: a stage has at most one shadow decision, which recommends
\* no more than it may simulate, and no score counts more.
THEOREM FeedbackTypeCorrect == FeedbackSpec => []FeedbackTypeOK
  BY FeedbackInvariant, FeedbackIsTyped, PTL

\* evaluate_promotion_gate, engine.py: a slice is cut under control only if the
\* recommendations were tried in enough runs, on enough candidates that were
\* advised and have a row of their own, and some result was of low value.
THEOREM ControlHasBeenEarned == FeedbackSpec => ControlIsEarned
<1>1. FeedbackInv /\ EffectiveMode = "control" => Earned
  <2>1. EffectiveMode = "control" => GateOpens
    <3>1. "shadow" # "control"
      OBVIOUS
    <3> QED
      BY <3>1 DEF EffectiveMode
  <2> QED
    BY <2>1, GateShows
<1>2. FeedbackInv => [Prepare /\ EffectiveMode = "control" => Earned]_feedbackVars
  BY <1>1
<1>3. FeedbackSpec => [][Prepare /\ EffectiveMode = "control" => Earned]_feedbackVars
  BY <1>2, FeedbackInvariant, PTL
<1> QED
  BY <1>3 DEF ControlIsEarned

-----------------------------------------------------------------------------
(* The three parts together, as the run checks them.                       *)

\* A step of the run is a step of each part, or leaves the part alone.
LEMMA PartsStep ==
  [MCNext]_MCVars =>
    [Next]_vars /\ [FeedbackNext]_feedbackVars /\ [PlanNext]_planVars
BY DEF MCNext, MCVars

\* The types that the run checks, for pools, budgets and days of any size.
THEOREM DayTypesCorrect == OneOrder /\ MCSpec => []DayTypeOK
<1> DEFINE DayInv == BudgetInv /\ FeedbackInv /\ PlanInv
<1>1. MCInit => DayInv
  BY BudgetStarts, FeedbackStarts, InitInv DEF MCInit
<1>2. ASSUME OneOrder, DayInv, [MCNext]_MCVars PROVE DayInv'
  BY <1>2, PartsStep, BudgetStep, FeedbackStep, StepInv
<1>3. DayInv => DayTypeOK
  BY SharesAreWithinBudget, FeedbackIsTyped DEF DayTypeOK, PlanInv
<1> SUFFICES ASSUME OneOrder PROVE MCSpec => []DayTypeOK
  OBVIOUS
<1>4. DayInv /\ [MCNext]_MCVars => DayInv'
  BY <1>2
<1>5. MCInit /\ [][MCNext]_MCVars => []DayTypeOK
  BY <1>1, <1>3, <1>4, PTL
<1> QED
  BY <1>5 DEF MCSpec
=============================================================================
