------------------------ MODULE SimulationScanProofs -------------------------
(***************************************************************************)
(* The platform creates at most one simulation per candidate, for any      *)
(* number of candidates, clients, tries and deaths, as long as no          *)
(* subprocess outlives its engine.  The argument: a candidate has at most  *)
(* one operation that the reconciler still looks for, and only such an     *)
(* operation can be on the wire or created.  A new one is begun only after *)
(* the others are known to be dead: by this thread's own tries, or because *)
(* the reconciliation before the scan gave every candidate with a live     *)
(* operation a row, and a candidate with a row is skipped.                 *)
(*                                                                         *)
(* The second half proves that no possible simulation is written off when  *)
(* none of the four faults occurs.                                         *)
(***************************************************************************)
EXTENDS SimulationScan, TLAPS

Reconciling == {"reconcile_only", "reconcile"}

Live(i) == journal[i].outcome \in LiveOutcomes

\* No operation of the candidate is looked for any more.
NoneLive(c) == \A i \in DOMAIN journal : journal[i].candidate = c => ~Live(i)

-----------------------------------------------------------------------------
(* The invariant.                                                          *)

\* The subprocess that the engine waits for is the only one.
OneProcess == \A p \in Processes :
  proc[p].mode # "off" => p = child /\ epc \in {"gate", "elsewhere", "scan"}

\* Threads run in a scan only, and a reconciliation comes before it.
Phases == \A p \in Processes :
  /\ proc[p].mode # "scan" => thread[p] = NoThreads
  /\ proc[p].mode \notin Reconciling => proc[p].todo = {} /\ proc[p].recovering = 0

\* What a subprocess has read of an operation stays true until it turns to it.
RecordsAreTrue == \A p \in Processes :
  /\ \A r \in proc[p].todo :
       /\ r.id \in DOMAIN journal /\ r.id # proc[p].recovering
       /\ journal[r.id].outcome = r.outcome
       /\ \A s \in proc[p].todo : r.id = s.id => r = s
  /\ proc[p].recovering # 0 =>
       /\ proc[p].recovering \in DOMAIN journal
       /\ journal[proc[p].recovering].outcome \in LiveOutcomes \ {"manual_review"}

\* Of a candidate's operations one is live, and only a live one is under way.
OneLive ==
  /\ \A i, j \in DOMAIN journal :
       journal[i].candidate = journal[j].candidate /\ Live(i) /\ Live(j) => i = j
  /\ \A i \in wire \cup created : Live(i)
  /\ wire \cap created = {}

\* The last attempt of an observation hands the operation to a person.
AttemptIsLeft == \A i \in DOMAIN journal :
  journal[i].outcome \in LiveOutcomes \ {"manual_review"} => journal[i].attempts < MaxAttempts

\* What a thread knows of its operation.
ThreadKnows(t, c) ==
  /\ t.pc = "begin" => t.tries < MaxTries /\ NoneLive(c)
  /\ t.pc \in {"send", "await", "decide_accepted", "decide_other", "poll", "alpha"} =>
       t.op \in DOMAIN journal /\ journal[t.op].candidate = c
  /\ t.pc \in {"send", "await"} => journal[t.op].outcome = "started"
  /\ t.pc = "send" \/ (t.pc = "await" /\ t.reply \in {"retry", "refused"}) =>
       t.op \notin wire \cup created
  /\ t.pc = "send" => t.reply = "none"
  /\ t.pc = "alpha" => t.op \in visible

ThreadsKnow == \A p \in Processes, c \in Candidates : ThreadKnows(thread[p][c], c)

\* A candidate without a row has no live operation, once its reconciliation is over.
RowsShowLive == \A p \in Processes, c \in Candidates :
  /\ proc[p].mode = "scan" /\ Unseen(p, c) => NoneLive(c)
  /\ proc[p].mode = "scan" /\ proc[p].rows[c] = "result" => Matches(c) # {}
  /\ proc[p].mode \in Reconciling /\ file[c] = "none" =>
       \A i \in DOMAIN journal :
         journal[i].candidate = c /\ Live(i) => \E r \in proc[p].todo : r.id = i

ScanInv ==
  /\ TypeOK /\ OneProcess /\ Phases /\ RecordsAreTrue /\ OneLive /\ AttemptIsLeft
  /\ ThreadsKnow /\ RowsShowLive /\ ResultHasAlpha

-----------------------------------------------------------------------------
(* Lemmas on the data.                                                     *)

LEMMA OffIsProcess == Off \in Process /\ Idle \in Thread /\ NoThreads \in [Candidates -> Thread]
<1>1. Idle \in Thread
  BY ConstantsAssumption DEF ConstantsAssumption, Idle, Thread, InCreate, Ended, Replies
<1>2. Off \in Process
  BY DEF Off, Process, Row, FinalRows
<1> QED
  BY <1>1, <1>2 DEF NoThreads

\* A thread that has not started knows nothing.
LEMMA IdleKnows ==
  \A c \in Candidates :
    ThreadKnows(NoThreads[c], c) /\ ThreadKnows(NoThreads[c], c)' /\ NoThreads[c].pc = "idle"
BY DEF NoThreads, ThreadKnows, Idle

\* What is known of an operation that nobody touches stays known.
LEMMA KnowledgeStays ==
  ASSUME NEW t, NEW c, ThreadKnows(t, c), UNCHANGED <<journal, wire, created, visible>>
  PROVE  ThreadKnows(t, c)'
BY DEF ThreadKnows, NoneLive, Live

\* A row of the journal is rewritten.
Rewritten(k, o) ==
  /\ k \in DOMAIN journal /\ o \in Operation /\ o.candidate = journal[k].candidate
  /\ journal' = [journal EXCEPT ![k] = o]

LEMMA RewrittenJournal ==
  ASSUME TypeOK, NEW k, NEW o, Rewritten(k, o)
  PROVE  /\ journal' \in Seq(Operation) /\ DOMAIN journal' = DOMAIN journal
         /\ Len(journal') = Len(journal)
         /\ \A i \in DOMAIN journal : journal'[i] = IF i = k THEN o ELSE journal[i]
         /\ \A i \in DOMAIN journal : journal'[i].candidate = journal[i].candidate
BY DEF Rewritten, TypeOK

\* Outcomes and candidates are what they are declared to be.
LEMMA JournalRow ==
  ASSUME TypeOK, NEW i \in DOMAIN journal
  PROVE  /\ journal[i] \in Operation /\ i \in Nat /\ i # 0
         /\ journal[i].candidate \in Candidates
         /\ journal[i].outcome \in LiveOutcomes \cup DeadOutcomes
         /\ journal[i].attempts \in 0..MaxAttempts /\ journal[i].location \in BOOLEAN
<1>1. journal \in Seq(Operation)
  BY DEF TypeOK
<1>2. i \in 1..Len(journal) /\ journal[i] \in Operation
  BY <1>1
<1> QED
  BY <1>2 DEF Operation

\* Alphas stay, and so does the candidate of an operation.
LEMMA MatchesStay ==
  ASSUME NEW c, visible \subseteq visible', visible \subseteq DOMAIN journal,
         \A i \in visible : journal'[i].candidate = journal[i].candidate
  PROVE  Matches(c) # {} => Matches(c)' # {}
<1> SUFFICES ASSUME Matches(c) # {} PROVE Matches(c)' # {}
  OBVIOUS
<1>1. CASE c \in Twins
  <2>1. 0 \in Matches(c)'
    BY <1>1 DEF Matches
  <2> QED
    BY <2>1
<1>2. CASE c \notin Twins
  <2>1. PICK i \in visible : journal[i].candidate = c
    BY <1>2 DEF Matches
  <2>2. i \in Matches(c)'
    BY <2>1 DEF Matches
  <2> QED
    BY <2>2
<1> QED
  BY <1>1, <1>2

-----------------------------------------------------------------------------
(* The start, the engine and deaths.                                       *)

LEMMA InitScan == Init => ScanInv
<1> SUFFICES ASSUME Init PROVE ScanInv
  OBVIOUS
<1> USE DEF Init
<1>1. TypeOK
  BY OffIsProcess DEF TypeOK, Row, FinalRows
<1>2. OneProcess /\ Phases /\ RecordsAreTrue
  BY DEF OneProcess, Phases, RecordsAreTrue, Off
<1>3. OneLive /\ AttemptIsLeft /\ ResultHasAlpha
  BY DEF OneLive, AttemptIsLeft, ResultHasAlpha
<1>4. ThreadsKnow
  BY IdleKnows DEF ThreadsKnow
<1>5. RowsShowLive
  BY DEF RowsShowLive, Off, Reconciling
<1> QED
  BY <1>1, <1>2, <1>3, <1>4, <1>5 DEF ScanInv

\* A new subprocess starts with what the journal shows.
LEMMA LaunchKeepsInv ==
  ASSUME ScanInv, NEW p \in Processes, NEW mode \in Reconciling, Launch(p, mode),
         epc \in {"idle", "clear"}, epc' \in {"gate", "elsewhere", "scan"},
         checkpoint' \in {"none", "running", "completed"},
         UNCHANGED <<journal, file, platformVars, crashes>>
  PROVE  ScanInv'
<1> USE DEF ScanInv, platformVars
<1> DEFINE new == [Off EXCEPT !.mode = mode, !.todo = Records]
<1>1. /\ proc' = [proc EXCEPT ![p] = new] /\ child' = p
      /\ thread' = [thread EXCEPT ![p] = NoThreads]
  BY DEF Launch
<1>2. /\ \A r \in Records : /\ r \in Record /\ r.id \in DOMAIN journal /\ r.id # 0
                            /\ journal[r.id].outcome = r.outcome
                            /\ \A s \in Records : r.id = s.id => r = s
      /\ \A i \in DOMAIN journal : Live(i) => \E r \in Records : r.id = i
  <2>1. ASSUME NEW r \in Records
        PROVE  \E i \in DOMAIN journal :
                 /\ r = [id |-> i, outcome |-> journal[i].outcome, location |-> journal[i].location]
                 /\ journal[i].outcome \in LiveOutcomes
    BY DEF Records
  <2>2. ASSUME NEW i \in DOMAIN journal, Live(i)
        PROVE  [id |-> i, outcome |-> journal[i].outcome, location |-> journal[i].location] \in Records
    BY <2>2 DEF Records, Live
  <2>3. \A i \in DOMAIN journal : i \in Nat /\ i # 0 /\ journal[i].location \in BOOLEAN
    BY JournalRow
  <2>4. ASSUME NEW r \in Records PROVE r \in Record /\ r.id \in DOMAIN journal
    BY <2>1, <2>3 DEF Record
  <2>5. ASSUME NEW r \in Records, NEW s \in Records, r.id = s.id PROVE r = s
    BY <2>1, <2>5
  <2>6. ASSUME NEW r \in Records PROVE journal[r.id].outcome = r.outcome /\ r.id # 0
    BY <2>1, <2>3
  <2>7. ASSUME NEW i \in DOMAIN journal, Live(i) PROVE \E r \in Records : r.id = i
    BY <2>2, <2>7
  <2> QED
    BY <2>4, <2>5, <2>6, <2>7
<1>3. /\ new.mode = mode /\ new.todo = Records /\ new.recovering = 0
      /\ new \in Process
  BY <1>2, OffIsProcess DEF Off, Process, Reconciling
<1> HIDE DEF new
<1>4. \A q \in Processes : proc[q].mode = "off"
  BY DEF OneProcess
<1>5. \A q \in Processes : /\ proc'[q] = IF q = p THEN new ELSE proc[q]
                           /\ thread'[q] = IF q = p THEN NoThreads ELSE thread[q]
  BY <1>1 DEF TypeOK
<1>6. TypeOK'
  BY <1>1, <1>3, OffIsProcess DEF TypeOK
<1>7. OneProcess'
  BY <1>1, <1>4, <1>5 DEF OneProcess
<1>8. Phases'
  BY <1>3, <1>4, <1>5 DEF Phases, Reconciling
<1>9. RecordsAreTrue'
  BY <1>2, <1>3, <1>4, <1>5 DEF RecordsAreTrue, Phases, Reconciling
<1>10. OneLive' /\ AttemptIsLeft' /\ ResultHasAlpha'
  BY DEF OneLive, Live, AttemptIsLeft, ResultHasAlpha, Matches
<1>11. ThreadsKnow'
  <2>1. \A q \in Processes : thread'[q] = NoThreads
    BY <1>4, <1>5 DEF Phases
  <2>2. \A c \in Candidates : ThreadKnows(NoThreads[c], c)'
    BY DEF NoThreads, ThreadKnows, Idle
  <2> QED
    BY <2>1, <2>2 DEF ThreadsKnow, ThreadKnows, NoneLive, Live
<1>12. RowsShowLive'
  BY <1>2, <1>3, <1>4, <1>5 DEF RowsShowLive, Reconciling, Live
<1> QED
  BY <1>6, <1>7, <1>8, <1>9, <1>10, <1>11, <1>12

\* The engine turns from the gate to the scan, and from the day, with no subprocess
\* left.
LEMMA EngineKeepsInv ==
  ASSUME ScanInv, EngineStep \/ DayEnds
  PROVE  ScanInv'
<1> USE DEF ScanInv, platformVars
<1>1. ASSUME NEW p \in Processes, EnterGate(p) \/ StartScan(p) PROVE ScanInv'
  BY <1>1, LaunchKeepsInv DEF EnterGate, StartScan, Reconciling, TypeOK
<1>2. CASE GateDecides \/ CompleteStage \/ OtherSlice \/ DayEnds
  <2>0. epc = "idle" => proc[child].mode = "off"
    BY DEF OneProcess, TypeOK
  <2>1. /\ proc[child].mode = "off" /\ epc' \in {"idle", "clear", "over"}
        /\ checkpoint' \in {"none", "running", "completed"}
        /\ UNCHANGED <<journal, file, child, proc, thread, wire, created, visible, crashes>>
    BY <1>2, <2>0 DEF GateDecides, CompleteStage, OtherSlice, DayEnds, TypeOK
  <2>2. TypeOK' /\ OneProcess'
    BY <2>1 DEF TypeOK, OneProcess
  <2>3. Phases' /\ RecordsAreTrue' /\ OneLive' /\ AttemptIsLeft' /\ ResultHasAlpha'
    BY <2>1 DEF Phases, RecordsAreTrue, OneLive, Live, AttemptIsLeft, ResultHasAlpha, Matches
  <2>4. ThreadsKnow' /\ RowsShowLive'
    BY <2>1
    DEF ThreadsKnow, ThreadKnows, NoneLive, Live, RowsShowLive, Unseen, Matches
  <2> QED
    BY <2>2, <2>3, <2>4
<1> QED
  BY <1>1, <1>2 DEF EngineStep

\* Who dies leaves nothing behind, and the journal as it is; a torn file shows
\* no alpha and is read by nobody any more.
LEMMA KillKeepsInv ==
  ASSUME ScanInv, NEW ps \in SUBSET Processes, Kill(ps),
         epc' = epc \/ ps = Processes,
         epc' \in {"idle", "gate", "elsewhere", "clear", "scan", "over"},
         file' = file \/ (file' = [c \in Candidates |-> "none"] /\ child \in ps),
         UNCHANGED <<journal, checkpoint, child, platformVars>>
  PROVE  ScanInv'
<1> USE DEF ScanInv, platformVars
<1>1. /\ crashes' \in Nat
      /\ \A p \in Processes : proc'[p] = IF p \in ps THEN Off ELSE proc[p]
      /\ \A p \in Processes : thread'[p] = IF p \in ps THEN NoThreads ELSE thread[p]
      /\ proc' \in [Processes -> Process] /\ thread' \in [Processes -> [Candidates -> Thread]]
  BY OffIsProcess DEF Kill, TypeOK
<1>2. TypeOK'
  BY <1>1 DEF TypeOK, Row
<1>3. Off.mode = "off" /\ Off.todo = {} /\ Off.recovering = 0
  BY DEF Off
<1>4. OneProcess' /\ Phases' /\ RecordsAreTrue'
  BY <1>1, <1>3 DEF OneProcess, Phases, RecordsAreTrue, Reconciling
<1>5. OneLive' /\ AttemptIsLeft' /\ ResultHasAlpha'
  BY DEF OneLive, Live, AttemptIsLeft, ResultHasAlpha, Matches, TypeOK
<1>6. ThreadsKnow'
  <2>1. \A c \in Candidates : ThreadKnows(NoThreads[c], c)'
    BY DEF NoThreads, ThreadKnows, Idle
  <2> QED
    BY <1>1, <2>1, KnowledgeStays DEF ThreadsKnow
<1>7. RowsShowLive'
  <2>1. ASSUME NEW p \in Processes, proc'[p].mode # "off"
        PROVE  proc'[p] = proc[p] /\ thread'[p] = thread[p] /\ file' = file
    BY <1>1, <1>3, <2>1 DEF OneProcess
  <2> QED
    BY <2>1 DEF RowsShowLive, Unseen, NoneLive, Live, Matches, Reconciling
<1> QED
  BY <1>2, <1>4, <1>5, <1>6, <1>7

LEMMA DeathsKeepInv ==
  ASSUME ScanInv, Deaths, "orphan" \notin Faults
  PROVE  ScanInv'
<1>1. ASSUME EngineDies(Processes \ {}) PROVE ScanInv'
  <2>1. Processes \ {} = Processes /\ Processes \in SUBSET Processes
    OBVIOUS
  <2> QED
    BY <1>1, <2>1, KillKeepsInv DEF EngineDies
<1>2. ASSUME NEW p \in Processes, ProcessDies(p) PROVE ScanInv'
  <2>1. {p} \in SUBSET Processes
    OBVIOUS
  <2> QED
    BY <1>2, <2>1, KillKeepsInv DEF ProcessDies, ScanInv, TypeOK
<1>3. ASSUME NEW p \in Processes, NEW c \in Candidates, TornWrite(p, c) PROVE ScanInv'
  <2>1. {p} \in SUBSET Processes /\ child \in {p}
    BY <1>3 DEF TornWrite, ScanInv, OneProcess
  <2> QED
    BY <1>3, <2>1, KillKeepsInv DEF TornWrite, ScanInv, TypeOK
<1> QED
  BY <1>1, <1>2, <1>3 DEF Deaths, Survivors

-----------------------------------------------------------------------------
(* The reconciliation.                                                     *)

\* The subprocess turns away from a record: its operation is as live as it was
\* and its candidate has a row.
LEMMA TurnKeepsInv ==
  ASSUME ScanInv, NEW p \in Processes, NEW r \in proc[p].todo, NEW c \in Candidates,
         proc[p].mode \in Reconciling, proc[p].recovering = 0, c = journal[r.id].candidate,
         proc' \in [Processes -> Process],
         \A q \in Processes \ {p} : proc'[q] = proc[q],
         proc'[p].mode = proc[p].mode, proc'[p].todo = proc[p].todo \ {r},
         \/ proc'[p].recovering = 0
         \/ proc'[p].recovering = r.id /\ r.outcome # "manual_review" /\ journal' = journal,
         \/ journal' = journal
         \/ \E o : /\ Rewritten(r.id, o) /\ o.outcome \in LiveOutcomes
                   /\ o.outcome # "manual_review" => o.attempts < MaxAttempts,
         file' \in [Candidates -> Row], file'[c] # "none",
         \A d \in Candidates \ {c} : file'[d] = file[d],
         file'[c] = "result" => Matches(c) # {},
         UNCHANGED <<checkpoint, epc, child, thread, platformVars, crashes>>
  PROVE  ScanInv'
<1> USE DEF ScanInv, platformVars
<1>1. /\ journal' \in Seq(Operation) /\ DOMAIN journal' = DOMAIN journal
      /\ \A i \in DOMAIN journal : journal'[i].candidate = journal[i].candidate
      /\ \A i \in DOMAIN journal : i # r.id => journal'[i] = journal[i]
      /\ \A i \in DOMAIN journal : Live(i)' <=> Live(i)
      /\ journal'[r.id].outcome # "manual_review" => journal'[r.id].attempts < MaxAttempts
  <2>1. r.id \in DOMAIN journal /\ Live(r.id)
    BY DEF RecordsAreTrue, Live, TypeOK, Process, Record
  <2>2. CASE journal' = journal
    BY <2>1, <2>2 DEF TypeOK, Live, AttemptIsLeft
  <2>3. CASE \E o : /\ Rewritten(r.id, o) /\ o.outcome \in LiveOutcomes
                    /\ o.outcome # "manual_review" => o.attempts < MaxAttempts
    <3>1. PICK o : /\ Rewritten(r.id, o) /\ o.outcome \in LiveOutcomes
                   /\ o.outcome # "manual_review" => o.attempts < MaxAttempts
      BY <2>3
    <3> QED
      BY <2>1, <3>1, RewrittenJournal DEF Live
  <2> QED
    BY <2>2, <2>3
<1>2. \A q \in Processes \ {p} : proc[q].mode = "off"
  BY DEF OneProcess, Reconciling
<1>3. \A q \in Processes : thread[q] = NoThreads
  BY <1>2 DEF Phases, Reconciling
<1>4. TypeOK'
  BY <1>1 DEF TypeOK
<1>5. OneProcess' /\ Phases'
  BY <1>2, <1>3 DEF OneProcess, Phases, Reconciling
<1>6. RecordsAreTrue'
  <2>1. ASSUME NEW s \in proc[p].todo \ {r}
        PROVE  /\ s.id \in DOMAIN journal' /\ s.id # r.id /\ s.id # 0
               /\ journal'[s.id].outcome = s.outcome
               /\ \A u \in proc[p].todo \ {r} : s.id = u.id => s = u
    BY <1>1, JournalRow DEF RecordsAreTrue
  <2>2. proc'[p].recovering # 0 =>
          /\ proc'[p].recovering \in DOMAIN journal'
          /\ journal'[proc'[p].recovering].outcome \in LiveOutcomes \ {"manual_review"}
    BY DEF RecordsAreTrue, TypeOK, Process, Record
  <2>3. \A q \in Processes \ {p} : proc'[q].todo = {} /\ proc'[q].recovering = 0
    BY <1>2 DEF Phases, Reconciling
  <2> QED
    BY <2>1, <2>2, <2>3 DEF RecordsAreTrue
<1>7. OneLive' /\ AttemptIsLeft'
  <2>1. \A i \in DOMAIN journal' : journal'[i].outcome \in LiveOutcomes \ {"manual_review"} =>
           journal'[i].attempts < MaxAttempts
    BY <1>1 DEF AttemptIsLeft
  <2>2. wire \subseteq DOMAIN journal /\ created \subseteq DOMAIN journal
    BY DEF TypeOK
  <2> QED
    BY <1>1, <2>1, <2>2 DEF OneLive, AttemptIsLeft
<1>8. ThreadsKnow'
  BY <1>3, IdleKnows DEF ThreadsKnow
<1>9. \A d \in Candidates : Matches(d) # {} => Matches(d)' # {}
  BY <1>1, MatchesStay DEF TypeOK
<1>10. RowsShowLive'
  <2>1. ASSUME NEW d \in Candidates, file'[d] = "none", NEW i \in DOMAIN journal',
               journal'[i].candidate = d, Live(i)'
        PROVE  \E s \in proc[p].todo \ {r} : s.id = i
    BY <1>1, <2>1 DEF RowsShowLive
  <2> QED
    BY <1>2, <2>1 DEF RowsShowLive, Reconciling
<1>11. ResultHasAlpha'
  BY <1>9 DEF ResultHasAlpha
<1> QED
  BY <1>4, <1>5, <1>6, <1>7, <1>8, <1>10, <1>11

LEMMA OperationFinished ==
  ASSUME NEW b \in Operation, NEW w \in LiveOutcomes \cup DeadOutcomes, NEW l \in BOOLEAN
  PROVE  LET o == [b EXCEPT !.outcome = w, !.location = l]
         IN  o \in Operation /\ o.candidate = b.candidate /\ o.outcome = w /\ o.attempts = b.attempts
BY DEF Operation

\* An observation without a match uses up an attempt that was left.
LEMMA AttemptRecorded ==
  ASSUME ScanInv, NEW i \in DOMAIN journal, NEW limit \in {1, MaxAttempts},
         journal[i].outcome \in LiveOutcomes \ {"manual_review"},
         RecordReconciliationAttempt(i, limit)
  PROVE  \E o : /\ Rewritten(i, o) /\ o.outcome \in LiveOutcomes
                /\ o.outcome # "manual_review" => o.attempts < MaxAttempts
<1>1. PICK b \in Operation, n \in 1..MaxAttempts : b = journal[i] /\ n = journal[i].attempts + 1
  BY ConstantsAssumption, JournalRow DEF ConstantsAssumption, ScanInv, AttemptIsLeft
<1>2. PICK w \in {"manual_review", "reconciliation_pending"} :
        w = ReconciliationOutcome(n, limit) /\ (w # "manual_review" => n < MaxAttempts)
  BY <1>1, ConstantsAssumption DEF ConstantsAssumption, ReconciliationOutcome
<1> DEFINE o == [b EXCEPT !.attempts = n, !.outcome = w, !.due = FALSE]
<1>3. n \in 0..MaxAttempts /\ w \in LiveOutcomes
  BY ConstantsAssumption DEF ConstantsAssumption, LiveOutcomes, Ambiguous
<1>4. o \in Operation /\ o.candidate = b.candidate /\ o.outcome = w /\ o.attempts = n
  BY <1>3 DEF Operation
<1>5. journal' = [journal EXCEPT ![i] = o]
  <2>1. journal' = [journal EXCEPT ![i] =
          [journal[i] EXCEPT !.attempts = journal[i].attempts + 1,
                             !.outcome = ReconciliationOutcome(journal[i].attempts + 1, limit),
                             !.due = FALSE]]
    BY Zenon DEF RecordReconciliationAttempt
  <2> QED
    BY <1>1, <1>2, <2>1, Zenon
<1> HIDE DEF o
<1> QED
  BY <1>1, <1>2, <1>3, <1>4, <1>5 DEF Rewritten

LEMMA DoneLeavesTheRest ==
  ASSUME TypeOK, NEW p \in Processes, NEW r, Done(p, r)
  PROVE  /\ proc' \in [Processes -> Process] /\ \A q \in Processes \ {p} : proc'[q] = proc[q]
         /\ proc'[p].mode = proc[p].mode /\ proc'[p].todo = proc[p].todo \ {r}
         /\ proc'[p].recovering = proc[p].recovering
<1>1. proc \in [Processes -> Process]
  BY DEF TypeOK
<1>2. [proc[p] EXCEPT !.todo = @ \ {r}] \in Process
  BY <1>1 DEF Process
<1> QED
  BY <1>1, <1>2 DEF Done, Process

\* Every branch of the reconciliation gives the candidate a row before it leaves
\* the record.
LEMMA RecordKeepsInv ==
  ASSUME ScanInv, NEW p \in Processes, NEW r \in proc[p].todo,
         \/ ReconcileManualReview(p, r) \/ ReconcileDeferred(p, r) \/ ReconcileFound(p, r)
         \/ ReconcileSeveral(p, r) \/ ReconcileNoMatch(p, r)
  PROVE  ScanInv'
<1> USE DEF ScanInv
<1> DEFINE c == journal[r.id].candidate
<1>1. /\ r.id \in DOMAIN journal /\ journal[r.id].outcome = r.outcome
      /\ r.outcome \in LiveOutcomes /\ r.id \in Nat /\ c \in Candidates
  <2>1. r.id \in DOMAIN journal /\ journal[r.id].outcome = r.outcome /\ r \in Record
    BY DEF RecordsAreTrue, TypeOK, Process
  <2> QED
    BY <2>1, JournalRow DEF Record
<1>2. proc[p].mode \in Reconciling /\ proc[p].recovering = 0
  BY DEF ReconcileManualReview, ReconcileDeferred, ReconcileFound, ReconcileSeveral,
         ReconcileNoMatch, Turn, Reconciling
<1>3. ASSUME Done(p, r)
      PROVE  /\ proc' \in [Processes -> Process] /\ \A q \in Processes \ {p} : proc'[q] = proc[q]
             /\ proc'[p].mode = proc[p].mode /\ proc'[p].todo = proc[p].todo \ {r}
             /\ proc'[p].recovering = proc[p].recovering
  BY <1>3, DoneLeavesTheRest
<1>4. ASSUME NEW row \in Row, ReplaceRow(r, row), row # "none"
      PROVE  /\ file' \in [Candidates -> Row] /\ file'[c] = row
             /\ \A d \in Candidates \ {c} : file'[d] = file[d]
  BY <1>1, <1>4 DEF ReplaceRow, TypeOK
<1>5. CASE ReconcileManualReview(p, r)
  <2>1. ReplaceRow(r, "review") /\ Done(p, r) /\ journal' = journal
    BY <1>5 DEF ReconcileManualReview
  <2> QED
    BY <1>1, <1>2, <1>3, <1>4, <1>5, <2>1, TurnKeepsInv DEF ReconcileManualReview, Row
<1>6. CASE ReconcileDeferred(p, r)
  <2>1. ReplaceRow(r, "pending") /\ Done(p, r) /\ journal' = journal
    BY <1>6 DEF ReconcileDeferred
  <2> QED
    BY <1>1, <1>2, <1>3, <1>4, <1>6, <2>1, TurnKeepsInv DEF ReconcileDeferred, Row
<1>7. CASE ReconcileFound(p, r)
  <2>1. ReplaceRow(r, "result") /\ journal' = journal /\ r.outcome # "manual_review"
    BY <1>7 DEF ReconcileFound
  <2>2. /\ proc' \in [Processes -> Process] /\ \A q \in Processes \ {p} : proc'[q] = proc[q]
        /\ proc'[p].mode = proc[p].mode /\ proc'[p].todo = proc[p].todo \ {r}
        /\ proc'[p].recovering = r.id
    <3>1. proc \in [Processes -> Process]
      BY DEF TypeOK
    <3>2. proc' = [proc EXCEPT ![p].todo = @ \ {r}, ![p].recovering = r.id]
      BY <1>7 DEF ReconcileFound
    <3> QED
      BY <1>1, <3>1, <3>2 DEF Process
  <2>3. Matches(c) # {}
    <3>1. Found(r)
      BY <1>7 DEF ReconcileFound
    <3>2. CASE r.id \in visible
      <4>1. r.id \in Matches(c)
        BY <3>2 DEF Matches
      <4> QED
        BY <4>1
    <3> QED
      BY <3>1, <3>2 DEF Found, Polled
  <2>4. "result" \in Row
    BY DEF Row, FinalRows
  <2>5. UNCHANGED <<checkpoint, epc, child, thread, platformVars, crashes>>
    BY <1>7 DEF ReconcileFound
  <2>6. file' \in [Candidates -> Row] /\ file'[c] = "result"
        /\ \A d \in Candidates \ {c} : file'[d] = file[d]
    BY <1>4, <2>1, <2>4
  <2> QED
    BY <1>1, <1>2, <2>1, <2>2, <2>3, <2>5, <2>6, TurnKeepsInv
<1>8. CASE ReconcileSeveral(p, r)
  <2>1. /\ ReplaceRow(r, "review") /\ Done(p, r) /\ r.outcome # "manual_review"
        /\ RecordReconciliationAttempt(r.id, 1)
    BY <1>8 DEF ReconcileSeveral
  <2>2. \E o : /\ Rewritten(r.id, o) /\ o.outcome \in LiveOutcomes
               /\ o.outcome # "manual_review" => o.attempts < MaxAttempts
    BY <1>1, <2>1, AttemptRecorded
  <2> QED
    BY <1>1, <1>2, <1>3, <1>4, <1>8, <2>1, <2>2, TurnKeepsInv DEF ReconcileSeveral, Row
<1>9. CASE ReconcileNoMatch(p, r)
  <2>1. /\ \E row \in {"review", "pending"} : ReplaceRow(r, row)
        /\ Done(p, r) /\ r.outcome # "manual_review"
        /\ RecordReconciliationAttempt(r.id, MaxAttempts)
    BY <1>9 DEF ReconcileNoMatch
  <2>2. \E o : /\ Rewritten(r.id, o) /\ o.outcome \in LiveOutcomes
               /\ o.outcome # "manual_review" => o.attempts < MaxAttempts
    BY <1>1, <2>1, AttemptRecorded
  <2> QED
    BY <1>1, <1>2, <1>3, <1>4, <1>9, <2>1, <2>2, TurnKeepsInv DEF ReconcileNoMatch, Row
<1> QED
  BY <1>5, <1>6, <1>7, <1>8, <1>9

\* The recovered row is in the file before the journal accepts its operation.
LEMMA RecoveredKeepsInv ==
  ASSUME ScanInv, NEW p \in Processes, FinishRecovered(p)
  PROVE  ScanInv'
<1> USE DEF ScanInv, platformVars
<1> DEFINE k == proc[p].recovering
<1>1. /\ k # 0 /\ k \in DOMAIN journal /\ proc[p].mode \in Reconciling
      /\ journal[k].outcome \in LiveOutcomes \ {"manual_review"}
  BY DEF FinishRecovered, RecordsAreTrue, Phases
<1>2. PICK o : Rewritten(k, o) /\ o.outcome = "accepted" /\ o.attempts = journal[k].attempts
  <2>1. PICK b \in Operation : b = journal[k]
    BY <1>1, JournalRow
  <2> DEFINE o == [b EXCEPT !.outcome = "accepted", !.location = FALSE]
  <2>2. o \in Operation /\ o.candidate = b.candidate /\ o.outcome = "accepted" /\ o.attempts = b.attempts
    BY DEF Operation, LiveOutcomes
  <2>3. journal' = [journal EXCEPT ![k] = o]
    BY <2>1 DEF FinishRecovered, FinishOperation
  <2> HIDE DEF o
  <2> QED
    BY <1>1, <2>1, <2>2, <2>3 DEF Rewritten
<1>3. /\ journal' \in Seq(Operation) /\ DOMAIN journal' = DOMAIN journal
      /\ \A i \in DOMAIN journal : /\ journal'[i].candidate = journal[i].candidate
                                   /\ journal'[i].attempts = journal[i].attempts
                                   /\ i # k => journal'[i] = journal[i]
                                   /\ Live(i)' <=> Live(i)
      /\ journal'[k].outcome = "accepted"
  BY <1>1, <1>2, RewrittenJournal DEF Live, LiveOutcomes
<1>4. /\ proc' \in [Processes -> Process] /\ \A q \in Processes \ {p} : proc'[q] = proc[q]
      /\ proc'[p].mode = proc[p].mode /\ proc'[p].todo = proc[p].todo /\ proc'[p].recovering = 0
  <2>1. proc \in [Processes -> Process] /\ proc' = [proc EXCEPT ![p].recovering = 0]
    BY DEF TypeOK, FinishRecovered
  <2> QED
    BY <2>1 DEF Process
<1>5. UNCHANGED <<file, checkpoint, epc, child, thread, wire, created, visible, crashes>>
  BY DEF FinishRecovered
<1>6. \A q \in Processes \ {p} : proc[q].mode = "off"
  BY <1>1 DEF OneProcess, Reconciling
<1>7. \A q \in Processes : thread[q] = NoThreads
  BY <1>1, <1>6 DEF Phases, Reconciling
<1>8. TypeOK' /\ OneProcess' /\ Phases'
  <2>1. TypeOK'
    BY <1>1, <1>3, <1>4, <1>5 DEF TypeOK
  <2>2. OneProcess'
    BY <1>4, <1>5 DEF TypeOK, OneProcess
  <2>3. Phases'
    BY <1>1, <1>4, <1>5, <1>6, <1>7 DEF TypeOK, Phases, Reconciling
  <2> QED
    BY <2>1, <2>2, <2>3
<1>9. RecordsAreTrue'
  <2>1. \A q \in Processes \ {p} : proc'[q].todo = {} /\ proc'[q].recovering = 0
    BY <1>4, <1>6 DEF Phases, Reconciling
  <2>2. ASSUME NEW r \in proc[p].todo
        PROVE  /\ r.id \in DOMAIN journal' /\ r.id # 0 /\ journal'[r.id].outcome = r.outcome
               /\ \A s \in proc[p].todo : r.id = s.id => r = s
    BY <1>3, JournalRow DEF RecordsAreTrue
  <2> QED
    BY <1>4, <2>1, <2>2 DEF RecordsAreTrue
<1>10. OneLive' /\ AttemptIsLeft'
  <2>1. wire \subseteq DOMAIN journal /\ created \subseteq DOMAIN journal
    BY DEF TypeOK
  <2> QED
    BY <1>1, <1>3, <1>5, <2>1 DEF OneLive, AttemptIsLeft
<1>11. ThreadsKnow'
  BY <1>5, <1>7, IdleKnows DEF ThreadsKnow
<1>12. RowsShowLive' /\ ResultHasAlpha'
  <2>1. \A d \in Candidates : Matches(d) # {} => Matches(d)' # {}
    BY <1>3, <1>5, MatchesStay DEF TypeOK
  <2> QED
    BY <1>1, <1>3, <1>4, <1>5, <1>6, <2>1 DEF RowsShowLive, ResultHasAlpha, Reconciling
<1> QED
  BY <1>8, <1>9, <1>10, <1>11, <1>12

\* With no record left to turn to, every candidate with a live operation has a row.
LEMMA EndKeepsInv ==
  ASSUME ScanInv, NEW p \in Processes, ReconcileEnds(p)
  PROVE  ScanInv'
<1> USE DEF ScanInv, platformVars
<1>1. /\ proc[p].mode \in Reconciling /\ proc[p].recovering = 0 /\ proc[p].todo = {}
      /\ UNCHANGED <<journal, file, checkpoint, epc, child, thread, wire, created, visible, crashes>>
  BY DEF ReconcileEnds, Reconciling
<1>2. /\ proc' \in [Processes -> Process] /\ \A q \in Processes \ {p} : proc'[q] = proc[q]
      /\ proc'[p].mode \in {"off", "scan"} /\ proc'[p].todo = {} /\ proc'[p].recovering = 0
      /\ proc'[p].mode = "scan" => proc'[p].rows = file
  <2>1. proc \in [Processes -> Process] /\ file \in [Candidates -> Row]
    BY DEF TypeOK
  <2>2. CASE proc[p].mode = "reconcile_only"
    <3>1. proc' = [proc EXCEPT ![p] = Off]
      BY <2>2 DEF ReconcileEnds
    <3> QED
      BY <2>1, <3>1, OffIsProcess DEF Off
  <2>3. CASE proc[p].mode # "reconcile_only"
    <3> DEFINE new == [proc[p] EXCEPT !.mode = "scan", !.rows = file]
    <3>1. proc' = [proc EXCEPT ![p] = new]
      BY <2>3 DEF ReconcileEnds
    <3>2. /\ new \in Process /\ new.mode = "scan" /\ new.rows = file
          /\ new.todo = proc[p].todo /\ new.recovering = proc[p].recovering
      BY <2>1 DEF Process
    <3> HIDE DEF new
    <3> QED
      BY <1>1, <2>1, <3>1, <3>2
  <2> QED
    BY <2>2, <2>3
<1>3. \A q \in Processes \ {p} : proc[q].mode = "off"
  BY <1>1 DEF OneProcess, Reconciling
<1>4. \A q \in Processes : thread[q] = NoThreads
  BY <1>1, <1>3 DEF Phases, Reconciling
<1>5. TypeOK' /\ OneProcess' /\ Phases'
  BY <1>1, <1>2, <1>3, <1>4 DEF TypeOK, OneProcess, Phases, Reconciling
<1>6. RecordsAreTrue'
  BY <1>2, <1>3 DEF RecordsAreTrue, Phases, Reconciling
<1>7. OneLive' /\ AttemptIsLeft' /\ ResultHasAlpha'
  BY <1>1 DEF OneLive, Live, AttemptIsLeft, ResultHasAlpha, Matches
<1>8. ThreadsKnow'
  BY <1>1, <1>4, IdleKnows DEF ThreadsKnow
<1>9. RowsShowLive'
  BY <1>1, <1>2, <1>3
  DEF RowsShowLive, Reconciling, Unseen, NoneLive, Live, ResultHasAlpha, Matches
<1> QED
  BY <1>5, <1>6, <1>7, <1>8, <1>9

LEMMA ReconcileKeepsInv ==
  ASSUME ScanInv, NEW p \in Processes, ReconcileStep(p)
  PROVE  ScanInv'
<1>1. CASE ReconcileSkip(p)
  <2>1. PICK r \in proc[p].todo : file[journal[r.id].candidate] \in FinalRows /\ Done(p, r)
    BY <1>1 DEF ReconcileSkip
  <2>2. journal[r.id].candidate \in Candidates
    BY JournalRow DEF ScanInv, RecordsAreTrue
  <2>3. /\ proc[p].mode \in Reconciling /\ proc[p].recovering = 0
        /\ UNCHANGED <<journal, file, checkpoint, epc, child, thread, platformVars, crashes>>
    BY <1>1 DEF ReconcileSkip, Reconciling
  <2>4. /\ file \in [Candidates -> Row] /\ file[journal[r.id].candidate] # "none"
        /\ file[journal[r.id].candidate] = "result" => Matches(journal[r.id].candidate) # {}
    BY <2>1, <2>2 DEF ScanInv, TypeOK, FinalRows, ResultHasAlpha
  <2>5. TypeOK
    BY DEF ScanInv
  <2>6. /\ proc' \in [Processes -> Process] /\ \A q \in Processes \ {p} : proc'[q] = proc[q]
        /\ proc'[p].mode = proc[p].mode /\ proc'[p].todo = proc[p].todo \ {r}
        /\ proc'[p].recovering = proc[p].recovering
    BY <2>1, <2>5, DoneLeavesTheRest
  <2>7. /\ file' \in [Candidates -> Row] /\ file'[journal[r.id].candidate] # "none"
        /\ \A d \in Candidates \ {journal[r.id].candidate} : file'[d] = file[d]
        /\ file'[journal[r.id].candidate] = "result" => Matches(journal[r.id].candidate) # {}
        /\ journal' = journal
    BY <2>3, <2>4
  <2> QED
    BY <2>2, <2>3, <2>6, <2>7, TurnKeepsInv
<1> QED
  BY <1>1, RecordKeepsInv, RecoveredKeepsInv, EndKeepsInv DEF ReconcileStep

-----------------------------------------------------------------------------
(* The scan's threads.                                                     *)

\* A thread's step: it touches operations of its own candidate only, may begin
\* one, and leaves the others' knowledge as it was.
LEMMA ThreadKeepsInv ==
  ASSUME ScanInv, NEW p \in Processes, NEW c \in Candidates, proc[p].mode = "scan",
         proc' \in [Processes -> Process], \A q \in Processes \ {p} : proc'[q] = proc[q],
         proc'[p].mode = "scan", proc'[p].todo = proc[p].todo,
         proc'[p].recovering = proc[p].recovering,
         \A d \in Candidates \ {c} : proc'[p].rows[d] = proc[p].rows[d],
         proc'[p].rows[c] = "result" => Matches(c) # {},
         file' = file \/ file' = proc'[p].rows,
         thread' \in [Processes -> [Candidates -> Thread]],
         \A q \in Processes \ {p} : thread'[q] = thread[q],
         \A d \in Candidates \ {c} : thread'[p][d] = thread[p][d],
         NEW t \in Thread, thread'[p][c] = t, t.pc # "idle", ThreadKnows(t, c)',
         journal' \in Seq(Operation), DOMAIN journal \subseteq DOMAIN journal',
         \A i \in DOMAIN journal : journal'[i].candidate = journal[i].candidate,
         \A i \in DOMAIN journal' :
           journal'[i].candidate # c => i \in DOMAIN journal /\ journal'[i] = journal[i],
         OneLive', AttemptIsLeft',
         wire' \subseteq DOMAIN journal',
         \A i \in DOMAIN journal : journal[i].candidate # c => (i \in wire' <=> i \in wire),
         UNCHANGED <<checkpoint, epc, child, created, visible, crashes>>
  PROVE  ScanInv'
<1> USE DEF ScanInv
<1>1. \A q \in Processes \ {p} : proc[q].mode = "off"
  BY DEF OneProcess
<1>2. \A q \in Processes \ {p} : thread'[q] = NoThreads
  BY <1>1 DEF Phases
<1>3. proc[p].todo = {} /\ proc[p].recovering = 0
  BY DEF Phases, Reconciling
<1>4. TypeOK'
  <2>1. file' \in [Candidates -> Row]
    BY DEF TypeOK, Process
  <2> QED
    BY <2>1 DEF TypeOK
<1>5. OneProcess' /\ Phases'
  BY <1>1, <1>2, <1>3 DEF OneProcess, Phases, Reconciling
<1>6. RecordsAreTrue'
  BY <1>1, <1>3 DEF RecordsAreTrue, Phases, Reconciling
<1>7. ThreadsKnow'
  <2>1. ASSUME NEW d \in Candidates \ {c} PROVE ThreadKnows(thread[p][d], d)'
    <3>1. ThreadKnows(thread[p][d], d)
      BY DEF ThreadsKnow
    <3>2. ASSUME NEW i \in DOMAIN journal', journal'[i].candidate = d
          PROVE  i \in DOMAIN journal /\ journal'[i] = journal[i]
      BY <3>2
    <3>3. NoneLive(d) => NoneLive(d)'
      BY <3>2 DEF NoneLive, Live
    <3>4. ASSUME NEW i \in DOMAIN journal, journal[i].candidate = d
          PROVE  /\ i \in DOMAIN journal' /\ journal'[i].candidate = d /\ journal'[i] = journal[i]
                 /\ i \in wire' \cup created' <=> i \in wire \cup created
      <4>1. i \in DOMAIN journal' /\ journal'[i].candidate = d
        BY <3>4
      <4> QED
        BY <3>2, <3>4, <4>1
    <3> QED
      BY <3>1, <3>3, <3>4 DEF ThreadKnows
  <2> QED
    BY <1>2, <2>1, IdleKnows DEF ThreadsKnow
<1>8. \A d \in Candidates : Matches(d) # {} => Matches(d)' # {}
  BY MatchesStay DEF TypeOK
<1>9. RowsShowLive'
  <2>1. ASSUME NEW d \in Candidates, Unseen(p, d)' PROVE NoneLive(d)'
    <3>1. d # c /\ Unseen(p, d)
      BY <2>1 DEF Unseen
    <3>2. NoneLive(d)
      BY <3>1 DEF RowsShowLive
    <3>3. \A i \in DOMAIN journal' : journal'[i].candidate = d =>
            i \in DOMAIN journal /\ journal'[i] = journal[i]
      BY <3>1
    <3> QED
      BY <3>2, <3>3 DEF NoneLive, Live
  <2>2. \A d \in Candidates : proc'[p].rows[d] = "result" => Matches(d)' # {}
    BY <1>8 DEF RowsShowLive
  <2> QED
    BY <1>1, <2>1, <2>2 DEF RowsShowLive, Reconciling
<1>10. ResultHasAlpha'
  BY <1>8 DEF ResultHasAlpha, RowsShowLive
<1> QED
  BY <1>4, <1>5, <1>6, <1>7, <1>9, <1>10

\* A step that changes nothing but a thread and what the process has in memory.
LEMMA QuietKeepsInv ==
  ASSUME ScanInv, NEW p \in Processes, NEW c \in Candidates, proc[p].mode = "scan",
         proc' \in [Processes -> Process], \A q \in Processes \ {p} : proc'[q] = proc[q],
         proc'[p].mode = "scan", proc'[p].todo = proc[p].todo,
         proc'[p].recovering = proc[p].recovering,
         \A d \in Candidates \ {c} : proc'[p].rows[d] = proc[p].rows[d],
         proc'[p].rows[c] = "result" => Matches(c) # {},
         file' = file \/ file' = proc'[p].rows,
         NEW t \in Thread, thread' = [thread EXCEPT ![p][c] = t],
         t.pc # "idle", ThreadKnows(t, c),
         UNCHANGED <<journal, checkpoint, epc, child, platformVars, crashes>>
  PROVE  ScanInv'
<1> USE DEF platformVars
<1>1. OneLive' /\ AttemptIsLeft'
  BY DEF ScanInv, OneLive, Live, AttemptIsLeft
<1>2. /\ journal \in Seq(Operation) /\ wire \subseteq DOMAIN journal
      /\ thread \in [Processes -> [Candidates -> Thread]]
  BY DEF ScanInv, TypeOK
<1>3. /\ thread' \in [Processes -> [Candidates -> Thread]]
      /\ \A q \in Processes \ {p} : thread'[q] = thread[q]
      /\ \A d \in Candidates \ {c} : thread'[p][d] = thread[p][d]
      /\ thread'[p][c] = t
  BY <1>2
<1>4. ThreadKnows(t, c)'
  BY KnowledgeStays
<1> QED
  BY <1>1, <1>2, <1>3, <1>4, ThreadKeepsInv

LEMMA Moved ==
  ASSUME TypeOK, NEW p \in Processes, NEW c \in Candidates,
         NEW pc \in InCreate \cup Ended \cup {"poll", "done"}, Goto(p, c, pc)
  PROVE  \E t \in Thread :
           /\ thread' = [thread EXCEPT ![p][c] = t]
           /\ t.pc = pc /\ t.op = thread[p][c].op /\ t.reply = thread[p][c].reply
           /\ t.tries = thread[p][c].tries /\ t.client = thread[p][c].client
           /\ t.abandoned = thread[p][c].abandoned
<1> DEFINE t == [thread[p][c] EXCEPT !.pc = pc]
<1>1. thread[p][c] \in Thread /\ thread \in [Processes -> [Candidates -> Thread]]
  BY DEF TypeOK
<1>2. /\ t \in Thread /\ t.pc = pc /\ t.op = thread[p][c].op /\ t.reply = thread[p][c].reply
      /\ t.tries = thread[p][c].tries /\ t.client = thread[p][c].client
      /\ t.abandoned = thread[p][c].abandoned
  BY <1>1 DEF Thread
<1>3. thread' = [thread EXCEPT ![p][c] = t]
  BY DEF Goto
<1> HIDE DEF t
<1> QED
  BY <1>2, <1>3

\* A thread goes on with what it already knows.
LEMMA GotoKeepsInv ==
  ASSUME ScanInv, NEW p \in Processes, NEW c \in Candidates, proc[p].mode = "scan",
         NEW pc \in Ended \cup {"poll", "done"}, Goto(p, c, pc),
         pc = "poll" => thread[p][c].pc \in {"decide_accepted", "decide_other"},
         pc = "alpha" => thread[p][c].pc = "poll" /\ thread[p][c].op \in visible,
         UNCHANGED <<journal, file, checkpoint, epc, child, proc, platformVars, crashes>>
  PROVE  ScanInv'
<1> USE DEF ScanInv
<1>1. PICK t \in Thread :
        /\ thread' = [thread EXCEPT ![p][c] = t]
        /\ t.pc = pc /\ t.op = thread[p][c].op /\ t.reply = thread[p][c].reply
  BY Moved
<1>2. ThreadKnows(thread[p][c], c)
  BY DEF ThreadsKnow
<1>3. ThreadKnows(t, c) /\ t.pc # "idle"
  BY <1>1, <1>2 DEF ThreadKnows, Ended
<1>4. proc' \in [Processes -> Process] /\ (proc'[p].rows[c] = "result" => Matches(c) # {})
  BY DEF TypeOK, RowsShowLive
<1> QED
  BY <1>1, <1>3, <1>4, QuietKeepsInv

\* A candidate that has no row after the reconciliation may be simulated.
LEMMA StartKeepsInv ==
  ASSUME ScanInv, NEW p \in Processes, NEW c \in Candidates, NEW w \in Clients,
         StartCandidate(p, c, w)
  PROVE  ScanInv'
<1> USE DEF ScanInv
<1> DEFINE t == [Idle EXCEPT !.pc = "begin", !.client = w]
<1>1. t \in Thread /\ t.pc = "begin" /\ t.tries = 0
  BY OffIsProcess DEF Thread, Idle, InCreate
<1>2. /\ proc[p].mode = "scan" /\ Unseen(p, c) /\ thread' = [thread EXCEPT ![p][c] = t]
      /\ UNCHANGED <<journal, file, checkpoint, epc, child, proc, platformVars, crashes>>
  BY DEF StartCandidate
<1> HIDE DEF t
<1>3. ThreadKnows(t, c)
  BY <1>1, <1>2, ConstantsAssumption DEF ThreadKnows, ConstantsAssumption, RowsShowLive
<1>4. proc' \in [Processes -> Process] /\ (proc'[p].rows[c] = "result" => Matches(c) # {})
  BY <1>2 DEF TypeOK, RowsShowLive
<1> QED
  BY <1>1, <1>2, <1>3, <1>4, QuietKeepsInv

\* An operation is begun when the candidate's others are dead, before its POST.
LEMMA BeginKeepsInv ==
  ASSUME ScanInv, NEW p \in Processes, NEW c \in Candidates, BeginSimulation(p, c)
  PROVE  ScanInv'
<1> USE DEF ScanInv, platformVars
<1> DEFINE new == [candidate |-> c, outcome |-> "started", attempts |-> 0, due |-> TRUE,
                   location |-> FALSE]
           k == Len(journal) + 1
<1>1. /\ proc[p].mode = "scan" /\ thread[p][c].pc = "begin" /\ journal' = Append(journal, new)
      /\ UNCHANGED <<file, checkpoint, epc, child, proc, wire, created, visible, crashes>>
  BY DEF BeginSimulation, BeginOperation, At
<1>2. /\ new \in Operation /\ new.candidate = c /\ new.outcome = "started" /\ new.attempts = 0
  BY ConstantsAssumption DEF ConstantsAssumption, Operation, LiveOutcomes, Ambiguous
<1> HIDE DEF new
<1>3. /\ journal' \in Seq(Operation) /\ k \in DOMAIN journal' /\ k \notin DOMAIN journal
      /\ DOMAIN journal' = DOMAIN journal \cup {k} /\ k \in Nat /\ journal'[k] = new
      /\ \A i \in DOMAIN journal : journal'[i] = journal[i]
  BY <1>1, <1>2 DEF TypeOK
<1> HIDE DEF k
<1>4. NoneLive(c) /\ thread[p][c].tries < MaxTries /\ thread[p][c] \in Thread
  BY <1>1 DEF ThreadsKnow, ThreadKnows, TypeOK
<1>5. wire \subseteq DOMAIN journal /\ created \subseteq DOMAIN journal
  BY DEF TypeOK
<1>6. PICK t \in Thread : /\ thread' = [thread EXCEPT ![p][c] = t]
                          /\ t.pc = "send" /\ t.op = k /\ t.reply = "none"
  <2> DEFINE t == [thread[p][c] EXCEPT !.pc = "send", !.op = k, !.tries = thread[p][c].tries + 1,
                                      !.reply = "none"]
  <2>1. t \in Thread /\ t.pc = "send" /\ t.op = k /\ t.reply = "none"
    <3>1. thread[p][c].tries + 1 \in 0..MaxTries
      BY <1>4, ConstantsAssumption DEF ConstantsAssumption, Thread
    <3> QED
      BY <1>3, <1>4, <3>1 DEF Thread, InCreate, Replies
  <2>2. thread' = [thread EXCEPT ![p][c] = t]
    <3>1. thread' = [thread EXCEPT ![p][c].pc = "send", ![p][c].op = k,
                                   ![p][c].tries = @ + 1, ![p][c].reply = "none"]
      BY DEF BeginSimulation, k
    <3>2. thread \in [Processes -> [Candidates -> Thread]]
      BY DEF TypeOK
    <3> QED
      BY <3>1, <3>2 DEF Thread
  <2> HIDE DEF t
  <2> QED
    BY <2>1, <2>2
<1>7. ThreadKnows(t, c)'
  BY <1>1, <1>2, <1>3, <1>5, <1>6 DEF ThreadKnows
<1>8. OneLive' /\ AttemptIsLeft'
  <2>1. ASSUME NEW i \in DOMAIN journal', NEW j \in DOMAIN journal',
               journal'[i].candidate = journal'[j].candidate, Live(i)', Live(j)'
        PROVE  i = j
    <3>1. \A n \in DOMAIN journal : Live(n)' => Live(n)
      BY <1>3 DEF Live
    <3>2. \A n \in DOMAIN journal : journal[n].candidate = c => ~Live(n)
      BY <1>4 DEF NoneLive
    <3>3. CASE i \in DOMAIN journal /\ j \in DOMAIN journal
      BY <1>3, <2>1, <3>1, <3>3 DEF OneLive
    <3>4. CASE i = k \/ j = k
      BY <1>2, <1>3, <2>1, <3>1, <3>2, <3>4
    <3> QED
      BY <1>3, <3>3, <3>4
  <2>2. \A i \in wire' \cup created' : Live(i)'
    BY <1>1, <1>3, <1>5 DEF OneLive, Live
  <2>3. AttemptIsLeft'
    BY <1>2, <1>3, ConstantsAssumption DEF AttemptIsLeft, ConstantsAssumption
  <2> QED
    BY <1>1, <2>1, <2>2, <2>3 DEF OneLive
<1>9. /\ thread' \in [Processes -> [Candidates -> Thread]]
      /\ \A q \in Processes \ {p} : thread'[q] = thread[q]
      /\ \A d \in Candidates \ {c} : thread'[p][d] = thread[p][d]
      /\ thread'[p][c] = t
  BY <1>6 DEF TypeOK
<1>10. \A i \in DOMAIN journal' :
         journal'[i].candidate # c => i \in DOMAIN journal /\ journal'[i] = journal[i]
  BY <1>2, <1>3
<1>11. proc' \in [Processes -> Process] /\ (proc'[p].rows[c] = "result" => Matches(c) # {})
  BY <1>1 DEF TypeOK, RowsShowLive
<1> QED
  BY <1>1, <1>3, <1>5, <1>6, <1>7, <1>8, <1>9, <1>10, <1>11, ThreadKeepsInv

LEMMA SendKeepsInv ==
  ASSUME ScanInv, NEW p \in Processes, NEW c \in Candidates, Send(p, c)
  PROVE  ScanInv'
<1> USE DEF ScanInv
<1> DEFINE k == thread[p][c].op
<1>1. /\ proc[p].mode = "scan" /\ thread[p][c].pc = "send" /\ wire' = wire \cup {k}
      /\ UNCHANGED <<journal, file, checkpoint, epc, child, proc, created, visible, crashes>>
      /\ Goto(p, c, "await")
  BY DEF Send, At
<1>2. PICK t \in Thread : /\ thread' = [thread EXCEPT ![p][c] = t]
                          /\ t.pc = "await" /\ t.op = k /\ t.reply = thread[p][c].reply
  BY <1>1, Moved DEF InCreate
<1>3. /\ k \in DOMAIN journal /\ journal[k].candidate = c /\ journal[k].outcome = "started"
      /\ k \notin wire \cup created /\ t.reply = "none"
  BY <1>1, <1>2 DEF ThreadsKnow, ThreadKnows
<1> HIDE DEF k
<1>4. ThreadKnows(t, c)'
  BY <1>1, <1>2, <1>3 DEF ThreadKnows
<1>5. OneLive' /\ AttemptIsLeft'
  BY <1>1, <1>3 DEF OneLive, Live, AttemptIsLeft, LiveOutcomes, Ambiguous
<1>6. /\ thread' \in [Processes -> [Candidates -> Thread]]
      /\ \A q \in Processes \ {p} : thread'[q] = thread[q]
      /\ \A d \in Candidates \ {c} : thread'[p][d] = thread[p][d]
      /\ thread'[p][c] = t
  BY <1>2 DEF TypeOK
<1>7. /\ proc' \in [Processes -> Process] /\ (proc'[p].rows[c] = "result" => Matches(c) # {})
      /\ journal' \in Seq(Operation) /\ wire' \subseteq DOMAIN journal'
  BY <1>1, <1>3 DEF TypeOK, RowsShowLive
<1> QED
  BY <1>1, <1>2, <1>3, <1>4, <1>5, <1>6, <1>7, ThreadKeepsInv

\* The outcome of a try is final for an operation that cannot have reached the
\* platform; any other outcome leaves it looked for.
LEMMA FinishKeepsInv ==
  ASSUME ScanInv, NEW p \in Processes, NEW c \in Candidates, proc[p].mode = "scan",
         thread[p][c].pc \in {"send", "await"},
         NEW outcome \in (LiveOutcomes \ {"manual_review"}) \cup DeadOutcomes,
         NEW location \in BOOLEAN, Finish(p, c, outcome, location),
         outcome \in DeadOutcomes => thread[p][c].op \notin wire \cup created,
         NEW pc \in {"begin", "failed", "uncertain", "decide_accepted", "decide_other"},
         Goto(p, c, pc), pc = "begin" => outcome \in DeadOutcomes /\ thread[p][c].tries < MaxTries
  PROVE  ScanInv'
<1> USE DEF ScanInv, platformVars
<1> DEFINE k == thread[p][c].op
<1>1. PICK t \in Thread : /\ thread' = [thread EXCEPT ![p][c] = t]
                          /\ t.pc = pc /\ t.op = k /\ t.tries = thread[p][c].tries
  BY Moved DEF InCreate, Ended
<1>2. /\ k \in DOMAIN journal /\ journal[k].candidate = c /\ journal[k].outcome = "started"
  BY DEF ThreadsKnow, ThreadKnows
<1>3. PICK o : /\ Rewritten(k, o) /\ o.outcome = outcome /\ o.attempts = journal[k].attempts
  <2>1. PICK b \in Operation : b = journal[k]
    BY <1>2, JournalRow
  <2> DEFINE o == [b EXCEPT !.outcome = outcome, !.location = location]
  <2>2. o \in Operation /\ o.candidate = b.candidate /\ o.outcome = outcome /\ o.attempts = b.attempts
    BY DEF Operation
  <2>3. journal' = [journal EXCEPT ![k] = o]
    BY <2>1 DEF Finish, FinishOperation
  <2> HIDE DEF o
  <2> QED
    BY <1>2, <2>1, <2>2, <2>3 DEF Rewritten
<1>4. /\ k \notin wire \cup created \/ outcome \in LiveOutcomes
      /\ UNCHANGED <<file, checkpoint, epc, child, wire, created, visible, crashes>>
  BY DEF Finish
<1>5. /\ proc' \in [Processes -> Process] /\ \A q \in Processes \ {p} : proc'[q] = proc[q]
      /\ proc'[p].mode = proc[p].mode /\ proc'[p].todo = proc[p].todo
      /\ proc'[p].recovering = proc[p].recovering /\ proc'[p].rows = proc[p].rows
  <2>1. proc \in [Processes -> Process]
    BY DEF TypeOK
  <2>2. proc' = [proc EXCEPT ![p].last[thread[p][c].client] = outcome]
    BY DEF Finish
  <2> QED
    BY <2>1, <2>2 DEF Process
<1> HIDE DEF k
<1>6. /\ journal' \in Seq(Operation) /\ DOMAIN journal' = DOMAIN journal
      /\ \A i \in DOMAIN journal : /\ journal'[i].candidate = journal[i].candidate
                                   /\ i # k => journal'[i] = journal[i]
      /\ journal'[k].outcome = outcome /\ journal'[k].attempts = journal[k].attempts
  BY <1>2, <1>3, RewrittenJournal
<1>7. wire \subseteq DOMAIN journal /\ created \subseteq DOMAIN journal
  BY DEF TypeOK
<1>8. \A i \in DOMAIN journal : Live(i)' => Live(i)
  BY <1>2, <1>6 DEF Live, LiveOutcomes, Ambiguous
<1>9. OneLive' /\ AttemptIsLeft'
  <2>1. ASSUME NEW i \in wire \cup created PROVE Live(i)'
    BY <1>4, <1>6, <1>7 DEF OneLive, Live
  <2>2. AttemptIsLeft'
    BY <1>2, <1>6 DEF AttemptIsLeft, LiveOutcomes, Ambiguous
  <2> QED
    BY <1>4, <1>6, <1>8, <2>1, <2>2 DEF OneLive
<1>10. ThreadKnows(t, c)'
  <2>1. ASSUME outcome \in DeadOutcomes PROVE NoneLive(c)'
    <3>1. ASSUME NEW i \in DOMAIN journal, journal[i].candidate = c, Live(i)' PROVE FALSE
      <4>1. Live(k) /\ Live(i)
        BY <1>2, <1>8, <3>1 DEF Live, LiveOutcomes, Ambiguous
      <4>2. i = k
        BY <1>2, <3>1, <4>1 DEF OneLive
      <4> QED
        BY <1>6, <2>1, <3>1, <4>2 DEF Live, DeadOutcomes, LiveOutcomes, Ambiguous
    <3> QED
      BY <1>6, <3>1 DEF NoneLive
  <2> QED
    BY <1>1, <1>2, <1>6, <2>1 DEF ThreadKnows
<1>11. /\ thread' \in [Processes -> [Candidates -> Thread]]
       /\ \A q \in Processes \ {p} : thread'[q] = thread[q]
       /\ \A d \in Candidates \ {c} : thread'[p][d] = thread[p][d]
       /\ thread'[p][c] = t
  BY <1>1 DEF TypeOK
<1>12. /\ \A i \in DOMAIN journal' :
            journal'[i].candidate # c => i \in DOMAIN journal /\ journal'[i] = journal[i]
       /\ wire' \subseteq DOMAIN journal'
       /\ proc'[p].rows[c] = "result" => Matches(c) # {}
  BY <1>2, <1>4, <1>5, <1>6, <1>7 DEF RowsShowLive
<1> QED
  BY <1>1, <1>4, <1>5, <1>6, <1>9, <1>10, <1>11, <1>12, ThreadKeepsInv

LEMMA ThreadStepKeepsInv ==
  ASSUME ScanInv, NEW p \in Processes, NEW c \in Candidates, ThreadStep(p, c)
  PROVE  ScanInv'
<1> USE DEF At, Retry
<1>1. ThreadKnows(thread[p][c], c) /\ thread[p][c].tries \in 0..MaxTries
  BY DEF ScanInv, ThreadsKnow, TypeOK, Thread
<1>2. CASE NotSent(p, c)
  BY <1>1, <1>2, FinishKeepsInv, ConstantsAssumption
  DEF NotSent, DeadOutcomes, ThreadKnows, ConstantsAssumption
<1>3. CASE TransportGivesUp(p, c) \/ ReplyUncertain(p, c)
  BY <1>3, FinishKeepsInv
  DEF TransportGivesUp, ReplyUncertain, DeadOutcomes, LiveOutcomes, Ambiguous
<1>4. CASE ReplyAccepted(p, c)
  BY <1>4, FinishKeepsInv DEF ReplyAccepted, DeadOutcomes, LiveOutcomes, Ambiguous
<1>5. CASE ReplyRetry(p, c)
  BY <1>1, <1>5, FinishKeepsInv, ConstantsAssumption
  DEF ReplyRetry, DeadOutcomes, ThreadKnows, ConstantsAssumption
<1>6. CASE ReplyRefused(p, c)
  BY <1>1, <1>6, FinishKeepsInv DEF ReplyRefused, DeadOutcomes, ThreadKnows
<1>7. CASE AuthenticationFails(p, c) \/ PollFails(p, c) \/ AbandonedEnds(p, c)
  BY <1>7, GotoKeepsInv DEF AuthenticationFails, PollFails, AbandonedEnds, Ended
<1>8. CASE Decide(p, c)
  <2>1. \E pc \in {"uncertain", "poll", "failed"} : Goto(p, c, pc)
    BY <1>8 DEF Decide
  <2> QED
    BY <1>8, <2>1, GotoKeepsInv DEF Decide, Ended
<1>9. CASE PollAlpha(p, c)
  BY <1>9, GotoKeepsInv DEF PollAlpha, Ended
<1> QED
  BY <1>2, <1>3, <1>4, <1>5, <1>6, <1>7, <1>8, <1>9, BeginKeepsInv, SendKeepsInv DEF ThreadStep

\* A row that reports an alpha is written by a thread that has seen it.
LEMMA WriteKeepsInv ==
  ASSUME ScanInv, NEW p \in Processes, NEW c \in Candidates, NEW row \in Row,
         proc[p].mode = "scan", WriteRow(p, c, row),
         row = "result" => thread[p][c].pc = "alpha",
         NEW t \in Thread, thread' = [thread EXCEPT ![p][c] = t],
         t.pc # "idle", ThreadKnows(t, c)
  PROVE  ScanInv'
<1> USE DEF ScanInv
<1>1. /\ proc' = [proc EXCEPT ![p].rows[c] = row, ![p].stop = @ \/ row = "unknown"]
      /\ file' = proc'[p].rows
      /\ UNCHANGED <<journal, checkpoint, epc, child, platformVars, crashes>>
  BY DEF WriteRow
<1>2. /\ proc' \in [Processes -> Process] /\ \A q \in Processes \ {p} : proc'[q] = proc[q]
      /\ proc'[p].mode = proc[p].mode /\ proc'[p].todo = proc[p].todo
      /\ proc'[p].recovering = proc[p].recovering /\ proc'[p].rows[c] = row
      /\ \A d \in Candidates \ {c} : proc'[p].rows[d] = proc[p].rows[d]
  <2>1. proc \in [Processes -> Process]
    BY DEF TypeOK
  <2>2. PICK b \in BOOLEAN : b = (proc[p].stop \/ row = "unknown")
    BY Zenon
  <2>3. proc' = [proc EXCEPT ![p].rows[c] = row, ![p].stop = b]
    BY <1>1, <2>2, Zenon
  <2>4. proc[p] \in Process /\ proc[p].rows \in [Candidates -> Row]
    BY <2>1 DEF Process
  <2> DEFINE rows == [proc[p].rows EXCEPT ![c] = row]
             new == [proc[p] EXCEPT !.rows = rows, !.stop = b]
  <2>5. /\ rows \in [Candidates -> Row] /\ rows[c] = row
        /\ \A d \in Candidates \ {c} : rows[d] = proc[p].rows[d]
    BY <2>4
  <2> HIDE DEF rows
  <2>6. /\ new \in Process /\ new.rows = rows /\ new.mode = proc[p].mode
        /\ new.todo = proc[p].todo /\ new.recovering = proc[p].recovering
    BY <2>4, <2>5 DEF Process
  <2>7. proc' = [proc EXCEPT ![p] = new]
    BY <2>1, <2>3, <2>4 DEF rows
  <2> HIDE DEF new
  <2> QED
    BY <2>1, <2>5, <2>6, <2>7
<1>3. row = "result" => Matches(c) # {}
  <2>1. ASSUME row = "result" PROVE thread[p][c].op \in Matches(c)
    BY <2>1 DEF ThreadsKnow, ThreadKnows, Matches
  <2> QED
    BY <2>1
<1> QED
  BY <1>1, <1>2, <1>3, QuietKeepsInv

LEMMA RowStepKeepsInv ==
  ASSUME ScanInv, NEW p \in Processes, NEW c \in Candidates,
         WriteResult(p, c) \/ TimeOut(p, c)
  PROVE  ScanInv'
<1>1. ThreadKnows(thread[p][c], c) /\ TypeOK
  BY DEF ScanInv, ThreadsKnow
<1>2. CASE WriteResult(p, c)
  <2>1. PICK row \in RowFor(thread[p][c].pc) : WriteRow(p, c, row)
    BY <1>2 DEF WriteResult
  <2>2. row \in Row /\ (row = "result" => thread[p][c].pc = "alpha")
    <3>1. CASE thread[p][c].pc = "alpha"
      BY <2>1, <3>1 DEF RowFor, Row, FinalRows
    <3>2. CASE thread[p][c].pc = "failed"
      BY <2>1, <3>2 DEF RowFor, Row, FinalRows
    <3>3. CASE thread[p][c].pc = "uncertain"
      BY <2>1, <3>3 DEF RowFor, Row, FinalRows
    <3> QED
      BY <1>2, <3>1, <3>2, <3>3 DEF WriteResult, Ended
  <2>3. PICK t \in Thread : thread' = [thread EXCEPT ![p][c] = t] /\ t.pc = "done"
    BY <1>1, <1>2, Moved DEF WriteResult
  <2>4. ThreadKnows(t, c)
    BY <2>3 DEF ThreadKnows
  <2> QED
    BY <1>2, <2>1, <2>2, <2>3, <2>4, WriteKeepsInv DEF WriteResult
<1>3. CASE TimeOut(p, c)
  <2> DEFINE t == [thread[p][c] EXCEPT !.abandoned = TRUE]
  <2>1. thread \in [Processes -> [Candidates -> Thread]]
    BY <1>1 DEF TypeOK
  <2>2. /\ t \in Thread /\ t.pc = thread[p][c].pc /\ t.op = thread[p][c].op
        /\ t.tries = thread[p][c].tries /\ t.reply = thread[p][c].reply
    <3>1. ASSUME NEW s \in Thread, NEW b \in BOOLEAN, NEW u, u = [s EXCEPT !.abandoned = b]
          PROVE  /\ u \in Thread /\ u.pc = s.pc /\ u.op = s.op
                 /\ u.tries = s.tries /\ u.reply = s.reply
      BY <3>1 DEF Thread
    <3>2. thread[p][c] \in Thread /\ TRUE \in BOOLEAN
      BY <2>1
    <3> HIDE DEF t
    <3>3. t = [thread[p][c] EXCEPT !.abandoned = TRUE]
      BY DEF t
    <3> QED
      BY <3>1, <3>2, <3>3
  <2>3. thread' = [thread EXCEPT ![p][c] = t]
    BY <1>3 DEF TimeOut
  <2> HIDE DEF t
  <2>4. ThreadKnows(t, c) /\ t.pc # "idle"
    BY <1>1, <1>3, <2>2 DEF ThreadKnows, TimeOut, InCreate
  <2> QED
    BY <1>3, <2>2, <2>3, <2>4, WriteKeepsInv DEF TimeOut, Row, FinalRows
<1> QED
  BY <1>2, <1>3

\* The subprocess ends with its threads joined.
LEMMA ScanEndKeepsInv ==
  ASSUME ScanInv, NEW p \in Processes, ScanEnds(p)
  PROVE  ScanInv'
<1> USE DEF ScanInv, platformVars
<1>1. /\ proc' = [proc EXCEPT ![p] = Off] /\ thread' = [thread EXCEPT ![p] = NoThreads]
      /\ UNCHANGED <<journal, file, checkpoint, epc, child, wire, created, visible, crashes>>
  BY DEF ScanEnds
<1>2. /\ proc' \in [Processes -> Process] /\ thread' \in [Processes -> [Candidates -> Thread]]
      /\ \A q \in Processes : proc'[q] = IF q = p THEN Off ELSE proc[q]
      /\ \A q \in Processes : thread'[q] = IF q = p THEN NoThreads ELSE thread[q]
  BY <1>1, OffIsProcess DEF TypeOK
<1>3. Off.mode = "off" /\ Off.todo = {} /\ Off.recovering = 0
  BY DEF Off
<1>4. TypeOK' /\ OneProcess' /\ Phases' /\ RecordsAreTrue'
  BY <1>1, <1>2, <1>3 DEF TypeOK, OneProcess, Phases, RecordsAreTrue, Reconciling
<1>5. OneLive' /\ AttemptIsLeft' /\ ResultHasAlpha'
  BY <1>1 DEF OneLive, Live, AttemptIsLeft, ResultHasAlpha, Matches
<1>6. ThreadsKnow'
  BY <1>1, <1>2, IdleKnows, KnowledgeStays DEF ThreadsKnow
<1>7. RowsShowLive'
  BY <1>1, <1>2, <1>3 DEF RowsShowLive, Unseen, NoneLive, Live, Matches, Reconciling
<1> QED
  BY <1>4, <1>5, <1>6, <1>7

LEMMA ScanStepKeepsInv ==
  ASSUME ScanInv, NEW p \in Processes, ScanStep(p)
  PROVE  ScanInv'
BY StartKeepsInv, ThreadStepKeepsInv, RowStepKeepsInv, ScanEndKeepsInv DEF ScanStep

-----------------------------------------------------------------------------
(* The platform and the clock.                                             *)

\* A POST is answered once: the platform has created its simulation or never will.
LEMMA AnswerKeepsInv ==
  ASSUME ScanInv, NEW i \in wire, NEW reply \in Replies, Respond(i, reply), wire' = wire \ {i},
         created' = created \/ (created' = created \cup {i} /\ reply \notin {"retry", "refused"}),
         UNCHANGED <<journal, file, checkpoint, epc, child, proc, visible, crashes>>
  PROVE  ScanInv'
<1> USE DEF ScanInv
<1>1. /\ wire \subseteq DOMAIN journal /\ created \subseteq DOMAIN journal /\ i \notin created
      /\ thread \in [Processes -> [Candidates -> Thread]]
      /\ wire' \cup created' \subseteq wire \cup created
  BY DEF TypeOK, OneLive
<1>2. ASSUME NEW p \in Processes, NEW c \in Candidates
      PROVE  /\ thread'[p][c] \in Thread /\ thread'[p][c].pc = thread[p][c].pc
             /\ thread[p][c].pc # "await" => thread'[p][c] = thread[p][c]
             /\ ThreadKnows(thread[p][c], c)'
  <2>1. PICK s \in Thread : s = thread[p][c] /\ ThreadKnows(s, c)
    BY <1>1 DEF ThreadsKnow
  <2>2. CASE s.pc = "await" /\ s.op = i
    <3>1. PICK t : t = [s EXCEPT !.reply = reply]
      OBVIOUS
    <3>2. t \in Thread /\ t.pc = "await" /\ t.op = i /\ t.reply = reply
      BY <2>2, <3>1 DEF Thread
    <3>3. thread'[p][c] = t
      BY <2>1, <2>2, <3>1 DEF Respond
    <3>4. ThreadKnows(thread[p][c], c)'
      BY <1>1, <2>1, <2>2, <3>2, <3>3 DEF ThreadKnows
    <3> QED
      BY <2>1, <2>2, <3>2, <3>3, <3>4
  <2>3. CASE ~(s.pc = "await" /\ s.op = i)
    <3>1. thread'[p][c] = s
      BY <2>1, <2>3 DEF Respond
    <3>2. ThreadKnows(thread[p][c], c)'
      BY <1>1, <2>1, <3>1 DEF ThreadKnows, NoneLive, Live
    <3> QED
      BY <2>1, <3>1, <3>2
  <2> QED
    BY <2>2, <2>3
<1>3. /\ thread' \in [Processes -> [Candidates -> Thread]]
      /\ \A p \in Processes : thread[p] = NoThreads => thread'[p] = NoThreads
  <2>1. thread' = [p \in Processes |-> [c \in Candidates |-> thread'[p][c]]]
    BY DEF Respond
  <2>3. \A p \in Processes, c \in Candidates : thread'[p][c] \in Thread
    BY <1>2
  <2>2. ASSUME NEW p \in Processes, thread[p] = NoThreads PROVE thread'[p] = NoThreads
    <3>1. ASSUME NEW c \in Candidates PROVE thread'[p][c] = Idle
      <4>1. thread[p][c] = Idle /\ Idle.pc # "await"
        BY <2>2 DEF NoThreads, Idle
      <4> QED
        BY <1>2, <4>1
    <3> QED
      BY <2>1, <3>1 DEF NoThreads
  <2>4. thread' \in [Processes -> [Candidates -> Thread]]
    BY <2>1, <2>3
  <2> QED
    BY <2>2, <2>4
<1>4. TypeOK'
  BY <1>1, <1>3 DEF TypeOK
<1>5. OneProcess' /\ Phases' /\ RecordsAreTrue'
  BY <1>3 DEF OneProcess, Phases, RecordsAreTrue
<1>6. OneLive' /\ AttemptIsLeft' /\ ResultHasAlpha'
  BY <1>1 DEF OneLive, Live, AttemptIsLeft, ResultHasAlpha, Matches
<1>7. ThreadsKnow'
  BY <1>2 DEF ThreadsKnow
<1>8. RowsShowLive'
  <2>1. ASSUME NEW p \in Processes, NEW c \in Candidates, Unseen(p, c)'
        PROVE  Unseen(p, c)
    <3>1. thread'[p][c].pc = thread[p][c].pc
      BY <1>2
    <3> QED
      BY <2>1, <3>1 DEF Unseen
  <2> QED
    BY <2>1 DEF RowsShowLive, NoneLive, Live, Matches
<1> QED
  BY <1>4, <1>5, <1>6, <1>7, <1>8

LEMMA PlatformKeepsInv ==
  ASSUME ScanInv, PlatformStep
  PROVE  ScanInv'
<1>1. ASSUME NEW i \in wire, PlatformCreates(i) PROVE ScanInv'
  <2>1. PICK reply \in {"accepted", "uncertain", "none"} : Respond(i, reply)
    BY <1>1 DEF PlatformCreates
  <2> QED
    BY <1>1, <2>1, AnswerKeepsInv DEF PlatformCreates, Replies
<1>2. ASSUME NEW i \in wire, PlatformRefuses(i) PROVE ScanInv'
  <2>1. PICK reply \in {"retry", "refused", "uncertain", "none"} : Respond(i, reply)
    BY <1>2 DEF PlatformRefuses
  <2> QED
    BY <1>2, <2>1, AnswerKeepsInv DEF PlatformRefuses, Replies
<1>3. ASSUME NEW i \in created, PlatformCompletes(i) PROVE ScanInv'
  <2> USE DEF ScanInv
  <2>1. /\ visible' = visible \cup {i}
        /\ UNCHANGED <<journal, file, checkpoint, epc, child, proc, thread, wire, created, crashes>>
    BY <1>3 DEF PlatformCompletes
  <2>2. TypeOK' /\ OneProcess' /\ Phases' /\ RecordsAreTrue' /\ OneLive' /\ AttemptIsLeft'
    BY <2>1
    DEF TypeOK, OneProcess, Phases, RecordsAreTrue, OneLive, Live, AttemptIsLeft
  <2>3. ThreadsKnow'
    BY <2>1 DEF ThreadsKnow, ThreadKnows, NoneLive, Live
  <2>4. \A c \in Candidates : Matches(c) # {} => Matches(c)' # {}
    BY <2>1, MatchesStay DEF TypeOK
  <2>5. RowsShowLive' /\ ResultHasAlpha'
    BY <2>1, <2>4 DEF RowsShowLive, Unseen, NoneLive, Live, ResultHasAlpha
  <2> QED
    BY <2>2, <2>3, <2>5
<1> QED
  BY <1>1, <1>2, <1>3 DEF PlatformStep

\* The time of the next observation comes; an operation is as live as it was.
LEMMA ClockKeepsInv ==
  ASSUME ScanInv, ClockStep
  PROVE  ScanInv'
<1> USE DEF ScanInv, platformVars
<1>1. PICK k \in DOMAIN journal : TimePasses(k)
  BY DEF ClockStep
<1>2. UNCHANGED <<file, checkpoint, epc, child, proc, thread, wire, created, visible, crashes>>
  BY <1>1 DEF TimePasses
<1>3. PICK o : /\ Rewritten(k, o) /\ o.outcome = journal[k].outcome /\ o.attempts = journal[k].attempts
  <2>1. PICK b \in Operation, yes \in BOOLEAN : b = journal[k] /\ yes = TRUE
    BY JournalRow
  <2> DEFINE o == [b EXCEPT !.due = yes]
  <2>2. o \in Operation /\ o.candidate = b.candidate /\ o.outcome = b.outcome /\ o.attempts = b.attempts
    BY DEF Operation
  <2>3. journal' = [journal EXCEPT ![k] = o]
    BY <1>1, <2>1 DEF TimePasses
  <2> HIDE DEF o
  <2> QED
    BY <2>1, <2>2, <2>3 DEF Rewritten
<1>4. /\ journal' \in Seq(Operation) /\ DOMAIN journal' = DOMAIN journal
      /\ \A i \in DOMAIN journal : /\ journal'[i].candidate = journal[i].candidate
                                   /\ journal'[i].outcome = journal[i].outcome
                                   /\ journal'[i].attempts = journal[i].attempts
  BY <1>3, RewrittenJournal
<1>5. /\ \A i \in DOMAIN journal : Live(i)' <=> Live(i)
      /\ wire \subseteq DOMAIN journal /\ created \subseteq DOMAIN journal
      /\ visible \subseteq DOMAIN journal
  BY <1>4 DEF Live, TypeOK
<1>6. TypeOK' /\ OneProcess' /\ Phases' /\ RecordsAreTrue'
  <2>1. TypeOK' /\ OneProcess' /\ Phases'
    BY <1>2, <1>4 DEF TypeOK, OneProcess, Phases
  <2>2. RecordsAreTrue'
    BY <1>2, <1>4 DEF RecordsAreTrue
  <2> QED
    BY <2>1, <2>2
<1>7. OneLive' /\ AttemptIsLeft'
  BY <1>2, <1>4, <1>5 DEF OneLive, AttemptIsLeft
<1>8. \A c \in Candidates : (NoneLive(c)' <=> NoneLive(c)) /\ (Matches(c) # {} => Matches(c)' # {})
  BY <1>2, <1>4, <1>5, MatchesStay DEF NoneLive
<1>9. ThreadsKnow'
  BY <1>2, <1>4, <1>8 DEF ThreadsKnow, ThreadKnows
<1>10. RowsShowLive' /\ ResultHasAlpha'
  BY <1>2, <1>4, <1>5, <1>8 DEF RowsShowLive, Unseen, ResultHasAlpha
<1> QED
  BY <1>6, <1>7, <1>9, <1>10

-----------------------------------------------------------------------------
(* The theorems.                                                           *)

LEMMA StepKeepsInv ==
  ASSUME "orphan" \notin Faults, ScanInv, [Next]_vars
  PROVE  ScanInv'
<1>1. CASE UNCHANGED vars
  <2> USE DEF ScanInv, vars, platformVars
  <2>1. TypeOK' /\ OneProcess' /\ Phases' /\ RecordsAreTrue' /\ OneLive' /\ AttemptIsLeft'
    BY <1>1 DEF TypeOK, OneProcess, Phases, RecordsAreTrue, OneLive, Live, AttemptIsLeft
  <2>2. ThreadsKnow'
    BY <1>1, KnowledgeStays DEF ThreadsKnow
  <2>3. RowsShowLive' /\ ResultHasAlpha'
    BY <1>1 DEF RowsShowLive, Unseen, NoneLive, Live, ResultHasAlpha, Matches
  <2> QED
    BY <2>1, <2>2, <2>3
<1>2. CASE EngineStep \/ DayEnds \/ Deaths \/ PlatformStep \/ ClockStep
  BY <1>2, EngineKeepsInv, DeathsKeepInv, PlatformKeepsInv, ClockKeepsInv
<1>3. ASSUME NEW p \in Processes, ProcessStep(p) PROVE ScanInv'
  BY <1>3, ReconcileKeepsInv, ScanStepKeepsInv DEF ProcessStep
<1> QED
  BY <1>1, <1>2, <1>3 DEF Next

\* While no subprocess outlives its engine, the variables keep their types and
\* every counter its bound.
THEOREM ScanTypeCorrect == "orphan" \notin Faults /\ Spec => []TypeOK
<1> SUFFICES ASSUME "orphan" \notin Faults PROVE Spec => []TypeOK
  OBVIOUS
<1>1. ScanInv /\ [Next]_vars => ScanInv'
  BY StepKeepsInv
<1>2. ScanInv => TypeOK
  BY DEF ScanInv
<1> QED
  BY <1>1, <1>2, InitScan, PTL DEF Spec

\* While no subprocess outlives its engine, the platform creates at most one
\* simulation per candidate: lost responses, retries, deaths and torn files
\* never lead to a second one.
THEOREM OneSimulationEach == "orphan" \notin Faults /\ Spec => []AtMostOneSimulation
<1> SUFFICES ASSUME "orphan" \notin Faults PROVE Spec => []AtMostOneSimulation
  OBVIOUS
<1>1. ScanInv /\ [Next]_vars => ScanInv'
  BY StepKeepsInv
<1>2. ScanInv => AtMostOneSimulation
  BY DEF ScanInv, OneLive, TypeOK, AtMostOneSimulation
<1> QED
  BY <1>1, <1>2, InitScan, PTL DEF Spec

\* While no subprocess outlives its engine, a row of the result file that reports
\* an alpha reports one that the platform shows for its candidate.
THEOREM ResultsHaveAlphas == "orphan" \notin Faults /\ Spec => []ResultHasAlpha
<1> SUFFICES ASSUME "orphan" \notin Faults PROVE Spec => []ResultHasAlpha
  OBVIOUS
<1>1. ScanInv /\ [Next]_vars => ScanInv'
  BY StepKeepsInv
<1>2. ScanInv => ResultHasAlpha
  BY DEF ScanInv
<1> QED
  BY <1>1, <1>2, InitScan, PTL DEF Spec

-----------------------------------------------------------------------------
(* No possible simulation is written off, when requests are not abandoned,  *)
(* authentication does not fail inside them and a recovered operation is    *)
(* finished.  A running thread's candidate has no row; its thread reports a *)
(* final row only when its operations are known to be settled, and it looks *)
(* at an outcome that no other thread can have replaced.                    *)

NoneAmbiguous(c) ==
  \A i \in DOMAIN journal : journal[i].candidate = c => journal[i].outcome \notin Ambiguous

\* What a running thread has settled, and finds in its client's last record.
ThreadSettles(t, c, last) ==
  /\ ~t.abandoned /\ t.client \in Clients
  /\ t.pc \in {"decide_accepted", "poll", "alpha"} => journal[t.op].outcome = "accepted"
  /\ t.pc \in {"decide_accepted", "decide_other"} => last[t.client] = journal[t.op].outcome
  /\ t.pc = "decide_other" => journal[t.op].outcome = "unknown_commit" \/ NoneAmbiguous(c)
  /\ t.pc = "failed" => NoneAmbiguous(c)

\* The rows in memory are those of the file, and every running thread has a
\* client of its own and a candidate without a row.
ScanSettles(p) ==
  /\ proc[p].rows = file
  /\ \A c \in Candidates : Running(c, p) =>
       /\ file[c] = "none"
       /\ ThreadSettles(thread[p][c], c, proc[p].last)
       /\ \A d \in Candidates : Running(d, p) /\ thread[p][d].client = thread[p][c].client => d = c

SettleInv ==
  FinalRowIsSettled /\ \A p \in Processes : proc[p].mode = "scan" => ScanSettles(p)

LEMMA InitSettles == Init => SettleInv
BY DEF Init, SettleInv, FinalRowIsSettled, Off, FinalRows

\* A candidate with an accepted operation has none that is still looked for.
LEMMA AcceptedIsSettled ==
  ASSUME OneLive, NEW c, NEW k \in DOMAIN journal, journal[k].candidate = c,
         journal[k].outcome = "accepted"
  PROVE  NoneAmbiguous(c)
BY DEF OneLive, Live, LiveOutcomes, Ambiguous, NoneAmbiguous

-----------------------------------------------------------------------------
(* Steps of the engine, of a reconciliation, of the platform, and deaths.  *)

\* No thread runs after the step, and the candidates whose rows were final before
\* are as settled as they were; a row that has become final reports the operation
\* that is being recovered.
LEMMA QuietSettles ==
  ASSUME SettleInv,
         \A p \in Processes : proc'[p].mode # "scan",
         \A c \in Candidates, i \in DOMAIN journal' :
           file'[c] \in FinalRows /\ journal'[i].candidate = c /\ journal'[i].outcome \in Ambiguous =>
             \E p \in Processes : proc'[p].recovering = i
  PROVE  SettleInv'
BY DEF SettleInv, FinalRowIsSettled

LEMMA EngineSettles ==
  ASSUME ScanInv, SettleInv, EngineStep \/ DayEnds
  PROVE  SettleInv'
<1> USE DEF SettleInv
<1>1. ASSUME NEW p \in Processes, NEW mode \in Reconciling, Launch(p, mode), epc \in {"idle", "clear"},
             UNCHANGED <<journal, file>>
      PROVE  SettleInv'
  <2>1. /\ \A q \in Processes : proc[q].mode = "off" /\ proc[q].recovering = 0
        /\ proc \in [Processes -> Process]
    BY <1>1 DEF ScanInv, OneProcess, Phases, Reconciling, TypeOK
  <2>2. \A q \in Processes : proc'[q].mode # "scan"
    BY <1>1, <2>1 DEF Launch, Off, Reconciling
  <2>3. ASSUME NEW c \in Candidates, NEW i \in DOMAIN journal, file[c] \in FinalRows,
               journal[i].candidate = c
        PROVE  journal[i].outcome \notin Ambiguous
    <3>1. i # 0
      BY JournalRow DEF ScanInv
    <3> QED
      BY <2>1, <2>3, <3>1 DEF FinalRowIsSettled
  <2> QED
    BY <1>1, <2>2, <2>3, QuietSettles
<1>2. ASSUME NEW p \in Processes, EnterGate(p) \/ StartScan(p) PROVE SettleInv'
  BY <1>1, <1>2 DEF EnterGate, StartScan, Reconciling
<1>3. CASE GateDecides \/ CompleteStage \/ OtherSlice \/ DayEnds
  <2>1. UNCHANGED <<journal, file, proc, thread>>
    BY <1>3 DEF GateDecides, CompleteStage, OtherSlice, DayEnds
  <2> QED
    BY <2>1 DEF FinalRowIsSettled, ScanSettles, ThreadSettles, NoneAmbiguous, Running
<1> QED
  BY <1>2, <1>3 DEF EngineStep

\* Without the fault "gap", who dies has no recovered operation left to finish.
LEMMA DeathsSettle ==
  ASSUME Faults = {}, ScanInv, SettleInv, Deaths
  PROVE  SettleInv'
<1> USE DEF SettleInv
<1>1. ASSUME NEW ps \in SUBSET Processes, Kill(ps), child \in ps, journal' = journal,
             file' = file \/ file' = [c \in Candidates |-> "none"]
      PROVE  SettleInv'
  <2>1. /\ \A q \in ps : proc[q].recovering = 0
        /\ \A q \in Processes : proc'[q] = IF q \in ps THEN Off ELSE proc[q]
    BY <1>1 DEF Kill, MayDie
  <2>2. \A q \in Processes : proc'[q].mode # "scan"
    BY <1>1, <2>1 DEF Off, ScanInv, OneProcess
  <2>3. ASSUME NEW c \in Candidates, NEW i \in DOMAIN journal, file'[c] \in FinalRows,
               journal[i].candidate = c, journal[i].outcome \in Ambiguous
        PROVE  \E q \in Processes : proc'[q].recovering = i
    <3>1. file[c] \in FinalRows /\ i # 0
      BY <1>1, <2>3, JournalRow DEF FinalRows, ScanInv
    <3>2. PICK q \in Processes : proc[q].recovering = i
      BY <2>3, <3>1 DEF FinalRowIsSettled
    <3> QED
      BY <2>1, <3>1, <3>2
  <2> QED
    BY <1>1, <2>2, <2>3, QuietSettles
<1>2. ASSUME EngineDies(Processes \ {}) PROVE SettleInv'
  <2>1. Processes \ {} \in SUBSET Processes /\ child \in Processes \ {}
    BY DEF ScanInv, TypeOK
  <2> QED
    BY <1>1, <1>2, <2>1 DEF EngineDies
<1>3. ASSUME NEW p \in Processes, ProcessDies(p) \/ \E c \in Candidates : TornWrite(p, c)
      PROVE  SettleInv'
  <2>1. p = child /\ {p} \in SUBSET Processes
    BY <1>3 DEF ProcessDies, TornWrite, ScanInv, OneProcess
  <2> QED
    BY <1>1, <1>3, <2>1 DEF ProcessDies, TornWrite
<1> QED
  BY <1>2, <1>3 DEF Deaths, Survivors

\* A reconciliation writes a final row only for the one operation that it is about
\* to finish.
LEMMA ReconcileSettles ==
  ASSUME ScanInv, SettleInv, NEW p \in Processes, ReconcileStep(p)
  PROVE  SettleInv'
<1> USE DEF SettleInv
<1>1. ASSUME proc[p].mode \in Reconciling
      PROVE  /\ \A q \in Processes : proc[q].mode # "scan" /\ thread[q] = NoThreads
             /\ \A q \in Processes \ {p} : proc[q].recovering = 0
  BY <1>1 DEF ScanInv, OneProcess, Phases, Reconciling
<1>2. ASSUME proc[p].mode \in Reconciling, proc[p].recovering = 0
      PROVE  \A c \in Candidates : file[c] \in FinalRows => NoneAmbiguous(c)
  <2>1. \A q \in Processes, i \in DOMAIN journal : proc[q].recovering # i
    BY <1>1, <1>2, JournalRow DEF ScanInv
  <2> QED
    BY <2>1 DEF FinalRowIsSettled, NoneAmbiguous
<1>3. ASSUME NEW r, Done(p, r), proc[p].mode \in Reconciling
      PROVE  \A q \in Processes : proc'[q].mode # "scan"
  BY <1>1, <1>3, DoneLeavesTheRest DEF ScanInv
<1>4. CASE ReconcileSkip(p)
  <2>1. PICK r \in proc[p].todo : Done(p, r)
    BY <1>4 DEF ReconcileSkip
  <2>2. proc[p].mode \in Reconciling /\ proc[p].recovering = 0 /\ UNCHANGED <<journal, file>>
    BY <1>4 DEF ReconcileSkip, Reconciling
  <2> QED
    BY <1>2, <1>3, <2>1, <2>2, QuietSettles DEF NoneAmbiguous
<1>5. ASSUME NEW r \in proc[p].todo,
             \/ ReconcileManualReview(p, r) \/ ReconcileDeferred(p, r) \/ ReconcileFound(p, r)
             \/ ReconcileSeveral(p, r) \/ ReconcileNoMatch(p, r)
      PROVE  SettleInv'
  <2> DEFINE c == journal[r.id].candidate
  <2>1. proc[p].mode \in Reconciling /\ proc[p].recovering = 0
    BY <1>5 DEF ReconcileManualReview, ReconcileDeferred, ReconcileFound, ReconcileSeveral,
                ReconcileNoMatch, Turn, Reconciling
  <2>2. /\ r.id \in DOMAIN journal /\ journal[r.id].outcome = r.outcome /\ r \in Record
        /\ c \in Candidates
    <3>1. r.id \in DOMAIN journal /\ journal[r.id].outcome = r.outcome /\ r \in Record
      BY DEF ScanInv, RecordsAreTrue, TypeOK, Process
    <3> QED
      BY <3>1, JournalRow DEF ScanInv
  <2>3. ASSUME NEW row, ReplaceRow(r, row)
        PROVE  file'[c] = row /\ \A d \in Candidates \ {c} : file'[d] = file[d]
    BY <2>2, <2>3 DEF ReplaceRow, ScanInv, TypeOK
  <2>4. CASE ReconcileFound(p, r)
    <3>1. /\ ReplaceRow(r, "result") /\ journal' = journal
          /\ proc' = [proc EXCEPT ![p].todo = @ \ {r}, ![p].recovering = r.id]
          /\ proc \in [Processes -> Process]
      BY <2>4 DEF ReconcileFound, ScanInv, TypeOK
    <3>2. proc'[p].recovering = r.id /\ \A q \in Processes : proc'[q].mode # "scan"
      BY <1>1, <2>1, <3>1 DEF Process
    <3>3. ASSUME NEW d \in Candidates, NEW i \in DOMAIN journal, file'[d] \in FinalRows,
                 journal[i].candidate = d, journal[i].outcome \in Ambiguous
          PROVE  i = r.id
      <4>1. CASE d = c
        BY <2>2, <3>3, <4>1 DEF ScanInv, OneLive, Live, LiveOutcomes, Record
      <4>2. CASE d # c
        BY <1>2, <2>1, <2>3, <3>1, <3>3, <4>2 DEF NoneAmbiguous
      <4> QED
        BY <4>1, <4>2
    <3> QED
      BY <3>1, <3>2, <3>3, QuietSettles
  <2>5. CASE \/ ReconcileManualReview(p, r) \/ ReconcileDeferred(p, r)
             \/ ReconcileSeveral(p, r) \/ ReconcileNoMatch(p, r)
    <3>1. Done(p, r) /\ \E row \in {"review", "pending"} : ReplaceRow(r, row)
      BY <2>5 DEF ReconcileManualReview, ReconcileDeferred, ReconcileSeveral, ReconcileNoMatch
    <3>2. /\ file'[c] \notin FinalRows
          /\ \A d \in Candidates \ {c} : file'[d] = file[d]
      BY <2>3, <3>1 DEF FinalRows
    <3>3. \A q \in Processes : proc'[q].mode # "scan"
      BY <1>3, <2>1, <3>1
    <3>4. /\ DOMAIN journal' = DOMAIN journal
          /\ \A i \in DOMAIN journal : journal'[i].candidate = journal[i].candidate
          /\ \A i \in DOMAIN journal : i # r.id => journal'[i] = journal[i]
      <4>1. CASE ReconcileManualReview(p, r) \/ ReconcileDeferred(p, r)
        BY <4>1 DEF ReconcileManualReview, ReconcileDeferred
      <4>2. CASE ReconcileSeveral(p, r) \/ ReconcileNoMatch(p, r)
        <5>1. /\ r.outcome # "manual_review"
              /\ \E limit \in {1, MaxAttempts} : RecordReconciliationAttempt(r.id, limit)
          BY <4>2 DEF ReconcileSeveral, ReconcileNoMatch
        <5>2. \E o : Rewritten(r.id, o)
          BY <2>2, <5>1, AttemptRecorded DEF Record
        <5> QED
          BY <5>2, RewrittenJournal DEF ScanInv
      <4> QED
        BY <2>5, <4>1, <4>2
    <3>5. ASSUME NEW d \in Candidates, NEW i \in DOMAIN journal', file'[d] \in FinalRows,
                 journal'[i].candidate = d
          PROVE  journal'[i].outcome \notin Ambiguous
      <4>1. d # c /\ file[d] \in FinalRows
        BY <3>2, <3>5
      <4>2. i # r.id /\ journal'[i] = journal[i]
        BY <3>4, <3>5, <4>1
      <4> QED
        BY <1>2, <2>1, <3>4, <3>5, <4>1, <4>2 DEF NoneAmbiguous
    <3> QED
      BY <3>3, <3>5, QuietSettles
  <2> QED
    BY <1>5, <2>4, <2>5
<1>6. CASE FinishRecovered(p)
  <2> DEFINE k == proc[p].recovering
  <2>1. /\ k # 0 /\ k \in DOMAIN journal /\ proc[p].mode \in Reconciling
    BY <1>6 DEF ScanInv, FinishRecovered, RecordsAreTrue, Phases
  <2>2. /\ proc' = [proc EXCEPT ![p].recovering = 0] /\ proc \in [Processes -> Process]
        /\ file' = file /\ journal' = [journal EXCEPT
             ![k] = [@ EXCEPT !.outcome = "accepted", !.location = FALSE]]
    BY <1>6 DEF FinishRecovered, FinishOperation, ScanInv, TypeOK
  <2>3. \A q \in Processes : proc'[q].mode # "scan"
    BY <1>1, <2>1, <2>2 DEF Process
  <2>4. /\ DOMAIN journal' = DOMAIN journal /\ journal'[k].outcome = "accepted"
        /\ \A i \in DOMAIN journal \ {k} : journal'[i] = journal[i]
    <3>1. journal[k] \in Operation
      BY <2>1, JournalRow DEF ScanInv
    <3> QED
      BY <2>1, <2>2, <3>1 DEF ScanInv, TypeOK, Operation
  <2>5. ASSUME NEW d \in Candidates, NEW i \in DOMAIN journal', file'[d] \in FinalRows,
               journal'[i].candidate = d, journal'[i].outcome \in Ambiguous
        PROVE  FALSE
    <3>1. i \in DOMAIN journal /\ i # k /\ journal[i] = journal'[i] /\ i # 0
      BY <2>4, <2>5, JournalRow DEF Ambiguous, ScanInv
    <3>2. \A q \in Processes : proc[q].recovering # i
      BY <1>1, <2>1, <3>1
    <3> QED
      BY <2>2, <2>5, <3>1, <3>2 DEF FinalRowIsSettled
  <2> QED
    BY <2>3, <2>5, QuietSettles
<1>7. CASE ReconcileEnds(p)
  <2>1. /\ proc[p].mode \in Reconciling /\ proc[p].recovering = 0
        /\ UNCHANGED <<journal, file, thread>>
    BY <1>7 DEF ReconcileEnds, Reconciling
  <2>2. proc'[p].mode = "scan" => proc'[p].rows = file
    <3>1. proc \in [Processes -> Process]
      BY DEF ScanInv, TypeOK
    <3>2. CASE proc[p].mode = "reconcile_only"
      BY <1>7, <3>1, <3>2 DEF ReconcileEnds, Off
    <3>3. CASE proc[p].mode # "reconcile_only"
      <4>1. proc' = [proc EXCEPT ![p] = [proc[p] EXCEPT !.mode = "scan", !.rows = file]]
        BY <1>7, <3>3 DEF ReconcileEnds
      <4> QED
        BY <3>1, <4>1 DEF Process
    <3> QED
      BY <3>2, <3>3
  <2>3. \A q \in Processes \ {p} : proc'[q] = proc[q]
    BY <1>7 DEF ReconcileEnds, ScanInv, TypeOK
  <2>4. \A q \in Processes, c \in Candidates : ~Running(c, q)'
    BY <1>1, <2>1 DEF Running, NoThreads, Idle
  <2>5. FinalRowIsSettled'
    BY <1>2, <2>1 DEF FinalRowIsSettled, NoneAmbiguous
  <2> QED
    BY <1>1, <2>1, <2>2, <2>3, <2>4, <2>5 DEF ScanSettles
<1> QED
  BY <1>4, <1>5, <1>6, <1>7 DEF ReconcileStep

-----------------------------------------------------------------------------
(* Steps of the scan.                                                      *)

\* A thread's step touches its own candidate's operations and its own client's
\* last record, so the others stay as settled as they were.
LEMMA ThreadSettleStep ==
  ASSUME ScanInv, SettleInv, NEW p \in Processes, NEW c \in Candidates, proc[p].mode = "scan",
         file' = file, file[c] = "none",
         \A q \in Processes \ {p} : proc'[q] = proc[q],
         proc'[p].mode = "scan", proc'[p].rows = proc[p].rows,
         NEW t, thread'[p][c] = t,
         \A d \in Candidates \ {c} : thread'[p][d] = thread[p][d],
         \A d \in Candidates \ {c} : Running(d, p) => thread[p][d].client # t.client,
         \A w \in Clients : w # t.client => proc'[p].last[w] = proc[p].last[w],
         ThreadSettles(t, c, proc[p].last)',
         DOMAIN journal \subseteq DOMAIN journal',
         \A i \in DOMAIN journal : journal'[i].candidate = journal[i].candidate,
         \A i \in DOMAIN journal' :
           journal'[i].candidate # c => i \in DOMAIN journal /\ journal'[i] = journal[i]
  PROVE  SettleInv'
<1> USE DEF SettleInv
<1>1. \A q \in Processes \ {p} : proc[q].mode = "off" /\ proc[q].recovering = 0
  BY DEF ScanInv, OneProcess, Phases, Reconciling
<1>2. proc[p].recovering = 0
  BY DEF ScanInv, Phases, Reconciling
<1>3. FinalRowIsSettled'
  <2>1. ASSUME NEW d \in Candidates, NEW i \in DOMAIN journal', file[d] \in FinalRows,
               journal'[i].candidate = d
        PROVE  journal'[i].outcome \notin Ambiguous
    <3>1. d # c /\ i \in DOMAIN journal /\ journal'[i] = journal[i]
      BY <2>1 DEF FinalRows
    <3>2. i # 0
      BY <3>1, JournalRow DEF ScanInv
    <3> QED
      BY <1>1, <1>2, <2>1, <3>1, <3>2 DEF FinalRowIsSettled
  <2> QED
    BY <2>1 DEF FinalRowIsSettled
<1>4. ASSUME NEW d \in Candidates \ {c}, Running(d, p)
      PROVE  ThreadSettles(thread[p][d], d, proc[p].last)'
  <2>1. ThreadSettles(thread[p][d], d, proc[p].last) /\ thread'[p][d] = thread[p][d]
    BY <1>4 DEF ScanSettles
  <2>2. ThreadKnows(thread[p][d], d)
    BY DEF ScanInv, ThreadsKnow
  <2>3. NoneAmbiguous(d) => NoneAmbiguous(d)'
    BY DEF NoneAmbiguous
  <2>4. proc'[p].last[thread[p][d].client] = proc[p].last[thread[p][d].client]
    BY <1>4, <2>1 DEF ThreadSettles
  <2>5. thread[p][d].pc \in {"decide_accepted", "decide_other", "poll", "alpha"} =>
          journal'[thread[p][d].op] = journal[thread[p][d].op]
    BY <2>2 DEF ThreadKnows
  <2> QED
    BY <2>1, <2>3, <2>4, <2>5 DEF ThreadSettles
<1>5. ScanSettles(p)'
  <2>1. \A d \in Candidates \ {c} : Running(d, p)' <=> Running(d, p)
    BY DEF Running
  <2>2. \A d, e \in Candidates : Running(d, p)' /\ Running(e, p)'
          /\ thread'[p][e].client = thread'[p][d].client => e = d
    BY <2>1 DEF ScanSettles
  <2>3. ASSUME NEW d \in Candidates, Running(d, p)'
        PROVE  file'[d] = "none" /\ ThreadSettles(thread[p][d], d, proc[p].last)'
    <3>1. CASE d = c
      BY <3>1
    <3>2. CASE d # c
      BY <1>4, <2>1, <2>3, <3>2 DEF ScanSettles
    <3> QED
      BY <3>1, <3>2
  <2>4. proc'[p].rows = file'
    BY DEF ScanSettles
  <2> QED
    BY <2>2, <2>3, <2>4 DEF ScanSettles
<1> QED
  BY <1>1, <1>3, <1>5

\* A step of a thread without one of the journal.
LEMMA GotoSettles ==
  ASSUME ScanInv, SettleInv, NEW p \in Processes, NEW c \in Candidates, proc[p].mode = "scan",
         Running(c, p), NEW pc \in Ended \cup {"await", "poll"}, Goto(p, c, pc),
         pc \in {"poll", "alpha"} => journal[thread[p][c].op].outcome = "accepted",
         pc = "failed" => NoneAmbiguous(c),
         UNCHANGED <<journal, file, proc>>
  PROVE  SettleInv'
<1>1. PICK t \in Thread :
        /\ thread' = [thread EXCEPT ![p][c] = t] /\ t.pc = pc /\ t.op = thread[p][c].op
        /\ t.client = thread[p][c].client /\ t.abandoned = thread[p][c].abandoned
  BY Moved DEF ScanInv, InCreate
<1>2. /\ thread'[p][c] = t /\ \A d \in Candidates \ {c} : thread'[p][d] = thread[p][d]
  BY <1>1 DEF ScanInv, TypeOK
<1>3. ScanSettles(p)
  BY DEF SettleInv
<1>4. ThreadSettles(t, c, proc[p].last)'
  BY <1>1, <1>3 DEF ScanSettles, ThreadSettles, NoneAmbiguous, Ended
<1>5. /\ file[c] = "none"
      /\ \A d \in Candidates \ {c} : Running(d, p) => thread[p][d].client # t.client
  BY <1>1, <1>3 DEF ScanSettles
<1> QED
  BY <1>2, <1>4, <1>5, ThreadSettleStep

LEMMA StartSettles ==
  ASSUME ScanInv, SettleInv, NEW p \in Processes, NEW c \in Candidates, NEW w \in Clients,
         StartCandidate(p, c, w)
  PROVE  SettleInv'
<1> DEFINE t == [Idle EXCEPT !.pc = "begin", !.client = w]
<1>1. t.pc = "begin" /\ t.client = w /\ t.abandoned = FALSE
  BY DEF Idle
<1>2. /\ proc[p].mode = "scan" /\ Unseen(p, c) /\ Free(p, w)
      /\ thread' = [thread EXCEPT ![p][c] = t] /\ UNCHANGED <<journal, file, proc>>
  BY DEF StartCandidate
<1> HIDE DEF t
<1>3. /\ thread'[p][c] = t /\ \A d \in Candidates \ {c} : thread'[p][d] = thread[p][d]
  BY <1>2 DEF ScanInv, TypeOK
<1>4. ThreadSettles(t, c, proc[p].last)'
  BY <1>1 DEF ThreadSettles
<1>5. /\ file[c] = "none"
      /\ \A d \in Candidates \ {c} : Running(d, p) => thread[p][d].client # t.client
  BY <1>1, <1>2 DEF SettleInv, ScanSettles, ThreadSettles, Unseen, Free
<1> QED
  BY <1>2, <1>3, <1>4, <1>5, ThreadSettleStep

LEMMA BeginSettles ==
  ASSUME ScanInv, SettleInv, NEW p \in Processes, NEW c \in Candidates, BeginSimulation(p, c)
  PROVE  SettleInv'
<1> DEFINE new == [candidate |-> c, outcome |-> "started", attempts |-> 0, due |-> TRUE,
                   location |-> FALSE]
           k == Len(journal) + 1
<1>1. /\ proc[p].mode = "scan" /\ thread[p][c].pc = "begin" /\ journal' = Append(journal, new)
      /\ UNCHANGED <<file, proc>> /\ new.candidate = c
  BY DEF BeginSimulation, BeginOperation, At
<1> HIDE DEF new
<1>2. /\ DOMAIN journal' = DOMAIN journal \cup {k} /\ k \notin DOMAIN journal /\ journal'[k] = new
      /\ \A i \in DOMAIN journal : journal'[i] = journal[i]
  BY <1>1 DEF ScanInv, TypeOK
<1>3. PICK t : /\ \A d \in Candidates \ {c} : thread'[p][d] = thread[p][d]
               /\ thread'[p][c] = t /\ t.pc = "send" /\ t.client = thread[p][c].client
               /\ t.abandoned = thread[p][c].abandoned
  <2>1. thread[p][c] \in Thread /\ thread \in [Processes -> [Candidates -> Thread]]
    BY DEF ScanInv, TypeOK
  <2>2. thread' = [thread EXCEPT ![p][c].pc = "send", ![p][c].op = k,
                                 ![p][c].tries = @ + 1, ![p][c].reply = "none"]
    BY DEF BeginSimulation
  <2> HIDE DEF k
  <2> DEFINE t == [thread[p][c] EXCEPT !.pc = "send", !.op = k, !.tries = @ + 1, !.reply = "none"]
  <2>3. /\ t.pc = "send" /\ t.client = thread[p][c].client
        /\ t.abandoned = thread[p][c].abandoned
    BY <2>1 DEF Thread
  <2>4. thread'[p][c] = t /\ \A d \in Candidates \ {c} : thread'[p][d] = thread[p][d]
    BY <2>1, <2>2
  <2> HIDE DEF t
  <2> QED
    BY <2>3, <2>4
<1> HIDE DEF k
<1>4. ScanSettles(p) /\ Running(c, p)
  BY <1>1 DEF SettleInv, Running
<1>5. ThreadSettles(t, c, proc[p].last)'
  BY <1>3, <1>4 DEF ScanSettles, ThreadSettles
<1>6. /\ file[c] = "none"
      /\ \A d \in Candidates \ {c} : Running(d, p) => thread[p][d].client # t.client
  BY <1>3, <1>4 DEF ScanSettles
<1>7. \A i \in DOMAIN journal' :
        journal'[i].candidate # c => i \in DOMAIN journal /\ journal'[i] = journal[i]
  BY <1>1, <1>2
<1> QED
  BY <1>1, <1>2, <1>3, <1>5, <1>6, <1>7, ThreadSettleStep

\* An outcome that nobody has to look for settles the candidate, for its other
\* operations are dead.
LEMMA FinishSettles ==
  ASSUME ScanInv, SettleInv, NEW p \in Processes, NEW c \in Candidates, proc[p].mode = "scan",
         thread[p][c].pc \in {"send", "await"},
         NEW outcome \in {"unknown_commit", "accepted"} \cup DeadOutcomes,
         NEW location \in BOOLEAN, Finish(p, c, outcome, location),
         NEW pc \in {"begin", "failed", "uncertain", "decide_accepted", "decide_other"},
         Goto(p, c, pc), pc = "decide_accepted" => outcome = "accepted",
         pc = "failed" => outcome \in DeadOutcomes
  PROVE  SettleInv'
<1> DEFINE k == thread[p][c].op
<1>1. PICK t \in Thread :
        /\ thread' = [thread EXCEPT ![p][c] = t] /\ t.pc = pc /\ t.op = k
        /\ t.client = thread[p][c].client /\ t.abandoned = thread[p][c].abandoned
  BY Moved DEF ScanInv, InCreate, Ended
<1>2. k \in DOMAIN journal /\ journal[k].candidate = c /\ journal[k].outcome = "started"
  BY DEF ScanInv, ThreadsKnow, ThreadKnows
<1>3. /\ DOMAIN journal' = DOMAIN journal
      /\ \A i \in DOMAIN journal : /\ journal'[i].candidate = journal[i].candidate
                                   /\ i # k => journal'[i] = journal[i]
      /\ journal'[k].outcome = outcome
  <2>1. PICK b \in Operation : b = journal[k]
    BY <1>2, JournalRow DEF ScanInv
  <2> DEFINE o == [b EXCEPT !.outcome = outcome, !.location = location]
  <2>2. o \in Operation /\ o.candidate = b.candidate /\ o.outcome = outcome
    BY DEF Operation, LiveOutcomes, Ambiguous
  <2>3. journal' = [journal EXCEPT ![k] = o]
    BY <2>1 DEF Finish, FinishOperation
  <2> HIDE DEF o
  <2>4. Rewritten(k, o)
    BY <1>2, <2>1, <2>2, <2>3 DEF Rewritten
  <2> QED
    BY <1>2, <2>2, <2>4, RewrittenJournal DEF ScanInv
<1>4. /\ ScanSettles(p) /\ Running(c, p)
      /\ ThreadSettles(thread[p][c], c, proc[p].last)
  BY DEF SettleInv, Running, ScanSettles
<1>5. /\ \A q \in Processes \ {p} : proc'[q] = proc[q]
      /\ proc'[p].mode = "scan" /\ proc'[p].rows = proc[p].rows
      /\ proc'[p].last[t.client] = outcome
      /\ \A w \in Clients : w # t.client => proc'[p].last[w] = proc[p].last[w]
      /\ file' = file
  <2>1. proc \in [Processes -> Process] /\ proc[p] \in Process /\ t.client \in Clients
    BY <1>1, <1>4 DEF ScanInv, TypeOK, ThreadSettles
  <2>2. proc' = [proc EXCEPT ![p].last[t.client] = outcome] /\ file' = file
    BY <1>1 DEF Finish
  <2>3. proc[p].last \in [Clients -> LiveOutcomes \cup DeadOutcomes \cup {"none"}]
    BY <2>1 DEF Process
  <2> QED
    BY <2>1, <2>2, <2>3 DEF Process
<1> HIDE DEF k
<1>6. ASSUME outcome # "unknown_commit" PROVE NoneAmbiguous(c)'
  <2>1. ASSUME NEW i \in DOMAIN journal, journal[i].candidate = c, i # k
        PROVE  journal[i].outcome \notin Ambiguous
    BY <1>2, <2>1 DEF ScanInv, OneLive, Live, LiveOutcomes, Ambiguous
  <2>2. outcome \notin Ambiguous
    BY <1>6 DEF Ambiguous, DeadOutcomes
  <2> QED
    BY <1>2, <1>3, <2>1, <2>2 DEF NoneAmbiguous
<1>7. ThreadSettles(t, c, proc[p].last)'
  BY <1>1, <1>3, <1>4, <1>5, <1>6 DEF ThreadSettles, DeadOutcomes
<1>8. /\ file[c] = "none" /\ thread'[p][c] = t
      /\ \A d \in Candidates \ {c} : thread'[p][d] = thread[p][d]
      /\ \A d \in Candidates \ {c} : Running(d, p) => thread[p][d].client # t.client
  BY <1>1, <1>4 DEF ScanSettles, ScanInv, TypeOK
<1>9. \A i \in DOMAIN journal' :
        journal'[i].candidate # c => i \in DOMAIN journal /\ journal'[i] = journal[i]
  BY <1>2, <1>3
<1> QED
  BY <1>3, <1>5, <1>7, <1>8, <1>9, ThreadSettleStep

LEMMA ThreadStepSettles ==
  ASSUME Faults = {}, ScanInv, SettleInv, NEW p \in Processes, NEW c \in Candidates,
         ThreadStep(p, c)
  PROVE  SettleInv'
<1> USE DEF At
<1>1. /\ proc[p].mode = "scan" /\ Running(c, p) /\ ThreadKnows(thread[p][c], c)
      /\ ThreadSettles(thread[p][c], c, proc[p].last)
  <2>1. proc[p].mode = "scan" /\ thread[p][c].pc \in InCreate \cup Ended \cup {"poll"}
    BY DEF ThreadStep, BeginSimulation, AuthenticationFails, Send, NotSent, TransportGivesUp,
           ReplyUncertain, ReplyAccepted, ReplyRetry, ReplyRefused, Decide, PollAlpha,
           PollFails, AbandonedEnds, InCreate
  <2>2. Running(c, p)
    BY <2>1 DEF Running, InCreate, Ended
  <2> QED
    BY <2>1, <2>2 DEF SettleInv, ScanSettles, ScanInv, ThreadsKnow
<1>2. CASE Send(p, c)
  BY <1>1, <1>2, GotoSettles DEF Send, Ended
<1>3. CASE NotSent(p, c)
  BY <1>1, <1>3, FinishSettles DEF NotSent, Retry, DeadOutcomes
<1>4. CASE TransportGivesUp(p, c) \/ ReplyUncertain(p, c)
  BY <1>1, <1>4, FinishSettles DEF TransportGivesUp, ReplyUncertain
<1>5. CASE ReplyAccepted(p, c)
  BY <1>1, <1>5, FinishSettles DEF ReplyAccepted
<1>6. CASE ReplyRetry(p, c) \/ ReplyRefused(p, c)
  BY <1>1, <1>6, FinishSettles DEF ReplyRetry, ReplyRefused, Retry, DeadOutcomes
<1>7. CASE Decide(p, c)
  <2> DEFINE last == proc[p].last[thread[p][c].client]
  <2>1. thread[p][c].pc = "decide_accepted" => journal[thread[p][c].op].outcome = "accepted"
    BY <1>1 DEF ThreadSettles
  <2>2. thread[p][c].pc = "decide_other" /\ last # "unknown_commit" => NoneAmbiguous(c)
    BY <1>1 DEF ThreadSettles
  <2>3. \E pc \in {"uncertain", "poll", "failed"} :
          /\ Goto(p, c, pc) /\ (pc = "poll" => thread[p][c].pc = "decide_accepted")
          /\ pc = "failed" => thread[p][c].pc = "decide_other" /\ last # "unknown_commit"
    BY <1>7 DEF Decide
  <2> QED
    BY <1>1, <1>7, <2>1, <2>2, <2>3, GotoSettles DEF Decide, Ended
<1>8. CASE PollAlpha(p, c) \/ PollFails(p, c)
  <2>1. journal[thread[p][c].op].outcome = "accepted" /\ NoneAmbiguous(c)
    <3>1. thread[p][c].pc = "poll"
      BY <1>8 DEF PollAlpha, PollFails
    <3>2. /\ thread[p][c].op \in DOMAIN journal /\ journal[thread[p][c].op].candidate = c
          /\ journal[thread[p][c].op].outcome = "accepted"
      BY <1>1, <3>1 DEF ThreadKnows, ThreadSettles
    <3> QED
      BY <3>2, AcceptedIsSettled DEF ScanInv
  <2> QED
    BY <1>1, <1>8, <2>1, GotoSettles DEF PollAlpha, PollFails, Ended
<1>9. ~AuthenticationFails(p, c) /\ ~AbandonedEnds(p, c)
  BY <1>1 DEF AuthenticationFails, AbandonedEnds, ThreadSettles
<1> QED
  BY <1>2, <1>3, <1>4, <1>5, <1>6, <1>7, <1>8, <1>9, BeginSettles DEF ThreadStep

\* A final row is written when all operations of its candidate are settled.
LEMMA WriteSettles ==
  ASSUME ScanInv, SettleInv, NEW p \in Processes, NEW c \in Candidates, WriteResult(p, c)
  PROVE  SettleInv'
<1> USE DEF SettleInv
<1>1. /\ proc[p].mode = "scan" /\ thread[p][c].pc \in Ended /\ Goto(p, c, "done")
      /\ Running(c, p) /\ ScanSettles(p)
  BY DEF WriteResult, Running, Ended
<1>2. PICK row : WriteRow(p, c, row) /\ row \in RowFor(thread[p][c].pc)
  BY DEF WriteResult
<1>3. /\ proc'[p].mode = "scan" /\ \A q \in Processes \ {p} : proc'[q] = proc[q]
      /\ proc'[p].rows = [file EXCEPT ![c] = row] /\ proc'[p].last = proc[p].last
      /\ file' = proc'[p].rows /\ journal' = journal
  <2>1. proc \in [Processes -> Process] /\ proc[p] \in Process /\ proc[p].rows = file
    BY <1>1 DEF ScanInv, TypeOK, ScanSettles
  <2>2. PICK b : b = (proc[p].stop \/ row = "unknown")
    OBVIOUS
  <2>3. /\ proc' = [proc EXCEPT ![p].rows[c] = row, ![p].stop = @ \/ row = "unknown"]
        /\ file' = proc'[p].rows /\ journal' = journal
    BY <1>2 DEF WriteRow
  <2>4. proc' = [proc EXCEPT ![p].rows[c] = row, ![p].stop = b]
    BY <2>2, <2>3, Zenon
  <2> DEFINE new == [proc[p] EXCEPT !.rows = [file EXCEPT ![c] = row], !.stop = b]
  <2>5. proc' = [proc EXCEPT ![p] = new]
    BY <2>1, <2>4
  <2>6. new.mode = proc[p].mode /\ new.rows = [file EXCEPT ![c] = row] /\ new.last = proc[p].last
    BY <2>1 DEF Process
  <2> HIDE DEF new
  <2> QED
    BY <1>1, <2>1, <2>3, <2>5, <2>6
<1>4. file'[c] = row /\ \A d \in Candidates \ {c} : file'[d] = file[d]
  BY <1>3 DEF ScanInv, TypeOK
<1>5. row \in FinalRows => NoneAmbiguous(c)
  <2>1. ThreadSettles(thread[p][c], c, proc[p].last) /\ ThreadKnows(thread[p][c], c)
    BY <1>1 DEF ScanSettles, ScanInv, ThreadsKnow
  <2>2. CASE thread[p][c].pc = "alpha"
    <3>1. /\ thread[p][c].op \in DOMAIN journal /\ journal[thread[p][c].op].candidate = c
          /\ journal[thread[p][c].op].outcome = "accepted"
      BY <2>1, <2>2 DEF ThreadKnows, ThreadSettles
    <3> QED
      BY <3>1, AcceptedIsSettled DEF ScanInv
  <2>3. CASE thread[p][c].pc = "failed"
    BY <2>1, <2>3 DEF ThreadSettles
  <2>4. CASE thread[p][c].pc = "uncertain"
    BY <1>2, <2>4 DEF RowFor, FinalRows
  <2> QED
    BY <1>1, <2>2, <2>3, <2>4 DEF Ended
<1>6. \A q \in Processes : proc[q].recovering = 0
  BY <1>1 DEF ScanInv, OneProcess, Phases, Reconciling
<1>7. FinalRowIsSettled'
  <2>1. ASSUME NEW d \in Candidates, NEW i \in DOMAIN journal, file'[d] \in FinalRows,
               journal[i].candidate = d
        PROVE  journal[i].outcome \notin Ambiguous
    <3>1. i # 0
      BY JournalRow DEF ScanInv
    <3> QED
      BY <1>4, <1>5, <1>6, <2>1, <3>1 DEF FinalRowIsSettled, NoneAmbiguous
  <2> QED
    BY <1>3, <2>1 DEF FinalRowIsSettled
<1>8. /\ thread'[p][c].pc = "done"
      /\ \A d \in Candidates \ {c} : thread'[p][d] = thread[p][d]
  BY <1>1, Moved DEF ScanInv, TypeOK
<1>9. ScanSettles(p)'
  <2>1. ASSUME NEW d \in Candidates, Running(d, p)' PROVE d # c /\ Running(d, p)
    BY <1>8, <2>1 DEF Running
  <2>2. ASSUME NEW d \in Candidates, Running(d, p)'
        PROVE  file'[d] = "none" /\ ThreadSettles(thread[p][d], d, proc[p].last)'
    BY <1>1, <1>3, <1>4, <1>8, <2>1, <2>2 DEF ScanSettles, ThreadSettles, NoneAmbiguous
  <2>3. \A d, e \in Candidates : Running(d, p)' /\ Running(e, p)'
          /\ thread'[p][e].client = thread'[p][d].client => e = d
    BY <1>1, <1>8, <2>1 DEF ScanSettles
  <2> QED
    BY <1>3, <2>2, <2>3 DEF ScanSettles
<1>10. \A q \in Processes \ {p} : proc[q].mode = "off"
  BY <1>1 DEF ScanInv, OneProcess
<1> QED
  BY <1>3, <1>7, <1>9, <1>10

LEMMA ScanStepSettles ==
  ASSUME Faults = {}, ScanInv, SettleInv, NEW p \in Processes, ScanStep(p)
  PROVE  SettleInv'
<1>1. \A c \in Candidates : ~TimeOut(p, c)
  BY DEF TimeOut
<1>2. ASSUME ScanEnds(p) PROVE SettleInv'
  <2>1. /\ proc' = [proc EXCEPT ![p] = Off] /\ UNCHANGED <<journal, file>>
        /\ proc \in [Processes -> Process]
    BY <1>2 DEF ScanEnds, ScanInv, TypeOK
  <2>2. \A q \in Processes : proc[q].recovering = 0 /\ proc'[q].mode # "scan"
    BY <1>2, <2>1 DEF ScanEnds, ScanInv, OneProcess, Phases, Reconciling, Off
  <2>3. \A i \in DOMAIN journal : i # 0
    BY JournalRow DEF ScanInv
  <2>4. SettleInv /\ FinalRowIsSettled
    BY DEF SettleInv
  <2> QED
    BY <2>1, <2>2, <2>3, <2>4, QuietSettles DEF FinalRowIsSettled
<1> QED
  BY <1>1, <1>2, StartSettles, ThreadStepSettles, WriteSettles DEF ScanStep

-----------------------------------------------------------------------------
(* The platform, the clock and the theorem.                                *)

\* A response reaches a thread; what is settled does not depend on it.
LEMMA PlatformSettles ==
  ASSUME ScanInv, SettleInv, PlatformStep
  PROVE  SettleInv'
<1> USE DEF SettleInv
<1>1. UNCHANGED <<journal, file, proc>>
  BY DEF PlatformStep, PlatformCreates, PlatformRefuses, PlatformCompletes
<1>2. FinalRowIsSettled'
  BY <1>1 DEF FinalRowIsSettled
<1>3. ASSUME NEW p \in Processes, NEW c \in Candidates
      PROVE  LET s == thread[p][c]
                 t == thread'[p][c]
             IN  t.pc = s.pc /\ t.op = s.op /\ t.client = s.client /\ t.abandoned = s.abandoned
  <2>1. thread[p][c] \in Thread
    BY DEF ScanInv, TypeOK
  <2>2. \/ thread' = thread
        \/ \E i, reply : Respond(i, reply)
    BY DEF PlatformStep, PlatformCreates, PlatformRefuses, PlatformCompletes
  <2>3. ASSUME NEW i, NEW reply, Respond(i, reply)
        PROVE  thread'[p][c] \in {thread[p][c], [thread[p][c] EXCEPT !.reply = reply]}
    BY <2>3 DEF Respond
  <2> QED
    BY <2>1, <2>2, <2>3 DEF Thread
<1>4. ASSUME NEW p \in Processes, proc[p].mode = "scan" PROVE ScanSettles(p)'
  <2>1. ScanSettles(p)
    BY <1>4
  <2>2. \A c \in Candidates : Running(c, p)' <=> Running(c, p)
    BY <1>3 DEF Running
  <2>3. ASSUME NEW c \in Candidates, Running(c, p)
        PROVE  ThreadSettles(thread[p][c], c, proc[p].last)'
    BY <1>1, <1>3, <2>1, <2>3 DEF ScanSettles, ThreadSettles, NoneAmbiguous
  <2> QED
    BY <1>1, <1>3, <2>1, <2>2, <2>3 DEF ScanSettles
<1> QED
  BY <1>1, <1>2, <1>4

LEMMA ClockSettles ==
  ASSUME ScanInv, SettleInv, ClockStep
  PROVE  SettleInv'
<1> USE DEF SettleInv
<1>1. PICK k \in DOMAIN journal : TimePasses(k)
  BY DEF ClockStep
<1>2. UNCHANGED <<file, proc, thread>>
  BY <1>1 DEF TimePasses
<1>3. /\ DOMAIN journal' = DOMAIN journal
      /\ \A i \in DOMAIN journal : /\ journal'[i].candidate = journal[i].candidate
                                   /\ journal'[i].outcome = journal[i].outcome
  <2>1. PICK b \in Operation : b = journal[k]
    BY JournalRow DEF ScanInv
  <2>2. journal' = [journal EXCEPT ![k] = [b EXCEPT !.due = TRUE]]
    BY <1>1, <2>1 DEF TimePasses
  <2> QED
    BY <2>1, <2>2 DEF ScanInv, TypeOK, Operation
<1>4. FinalRowIsSettled' /\ \A c : NoneAmbiguous(c) => NoneAmbiguous(c)'
  BY <1>2, <1>3 DEF FinalRowIsSettled, NoneAmbiguous
<1>5. ASSUME NEW p \in Processes, proc[p].mode = "scan" PROVE ScanSettles(p)'
  <2>1. ASSUME NEW c \in Candidates, Running(c, p)
        PROVE  ThreadSettles(thread[p][c], c, proc[p].last)'
    <3>1. ThreadSettles(thread[p][c], c, proc[p].last) /\ ThreadKnows(thread[p][c], c)
      BY <1>5, <2>1 DEF ScanSettles, ScanInv, ThreadsKnow
    <3> QED
      BY <1>2, <1>3, <1>4, <3>1 DEF ThreadSettles, ThreadKnows
  <2> QED
    BY <1>2, <1>5, <2>1 DEF ScanSettles, Running
<1> QED
  BY <1>2, <1>4, <1>5

LEMMA StepSettles ==
  ASSUME Faults = {}, ScanInv, SettleInv, [Next]_vars
  PROVE  SettleInv'
<1>1. CASE UNCHANGED vars
  BY <1>1
  DEF vars, SettleInv, FinalRowIsSettled, ScanSettles, Running, ThreadSettles, NoneAmbiguous
<1>2. CASE EngineStep \/ DayEnds \/ Deaths \/ PlatformStep \/ ClockStep
  BY <1>2, EngineSettles, DeathsSettle, PlatformSettles, ClockSettles
<1>3. ASSUME NEW p \in Processes, ProcessStep(p) PROVE SettleInv'
  BY <1>3, ReconcileSettles, ScanStepSettles DEF ProcessStep
<1> QED
  BY <1>1, <1>2, <1>3 DEF Next

\* When none of the four faults occurs, lost responses, retries and deaths never
\* leave a candidate with a final row and an operation that nobody will look at
\* again: no simulation that the platform may have created is written off.
THEOREM NothingIsWrittenOff == Faults = {} /\ Spec => []FinalRowIsSettled
<1> SUFFICES ASSUME Faults = {} PROVE Spec => []FinalRowIsSettled
  OBVIOUS
<1>1. "orphan" \notin Faults
  OBVIOUS
<1>2. Init => ScanInv /\ SettleInv
  BY InitScan, InitSettles
<1>3. ScanInv /\ SettleInv /\ [Next]_vars => (ScanInv /\ SettleInv)'
  BY <1>1, StepKeepsInv, StepSettles
<1>4. SettleInv => FinalRowIsSettled
  BY DEF SettleInv
<1> QED
  BY <1>2, <1>3, <1>4, PTL DEF Spec
=============================================================================
