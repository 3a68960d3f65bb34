-------------------------- MODULE ProcessesProofs ---------------------------
(*****************************************************************************)
(* Bounded provider calls, and the supervision of engines: what MCProcesses  *)
(* checks on small instances, for every value of the constants.              *)
(*****************************************************************************)
EXTENDS MCProcesses, FiniteSetTheorems, TLAPS

-----------------------------------------------------------------------------
(***************************************************************************)
(* A bounded call ends cleanly for any limit and any amount of output: a   *)
(* failed one leaves nothing of the child's group, and one that returns    *)
(* hands over all that was written to the streams that kept their limit.   *)
(* The argument: a reader leaves its pipe only when it has seen too much,  *)
(* or when nobody can write to it any more; and once the child is gone     *)
(* nobody forks, so what the kill has reached stays gone.                  *)
(***************************************************************************)
Ending == {"wait", "join", "close", "ended"}

\* Why a stream's reader has left: nothing more can come.
StreamIsOver(s) == Exceeded(s) \/ (~PipesHeld /\ observed[s] = written[s])

ReadersLeaveForAReason == \A s \in Streams : reader[s] # "reading" => StreamIsOver(s)

\* Where the calling thread is, and what brought it there.
CallerKnowsWhy ==
  /\ pc \in {"overflow?", "deadline?", "done?"} => reason = "none"
  /\ pc = "terminate" => reason # "none"
  /\ pc \in Ending =>
       IF reason = "none"
         THEN child = "exited" /\ \A s \in Streams : reader[s] = "done"
         ELSE child = "exited" /\ heir # "group"
  /\ pc \notin {"close", "ended"} => outcome = "none"
  /\ pc \in {"close", "ended"} => outcome = (IF reason = "none" THEN "returned" ELSE reason)

CallInv == TypeOK /\ ReadersLeaveForAReason /\ CallerKnowsWhy

-----------------------------------------------------------------------------
\* A call starts with both readers reading and nothing decided.
LEMMA InitCall == Init => CallInv
<1> SUFFICES ASSUME Init PROVE CallInv
  OBVIOUS
<1> USE DEF Init
<1>1. [s \in Streams |-> 0] \in [Streams -> 0..MaxOut]
  BY CliConstants DEF CliConstants
<1>2. TypeOK
  BY <1>1 DEF TypeOK
<1>3. ReadersLeaveForAReason
  BY DEF ReadersLeaveForAReason
<1>4. CallerKnowsWhy
  BY DEF CallerKnowsWhy, Ending
<1> QED
  BY <1>2, <1>3, <1>4 DEF CallInv

\* What the processes do, and the passing of time, concerns no stream that is over.
LEMMA ProcessesKeepCall ==
  ASSUME CallInv, Writes \/ Forks \/ ChildExits \/ HeirExits \/ DeadlinePasses
  PROVE  CallInv'
<1> USE DEF CallInv, Caller, Threads, Processes
<1>1. CASE Writes
  <2>1. TypeOK'
    BY <1>1, CliConstants DEF Writes, TypeOK, CliConstants
  <2>2. ReadersLeaveForAReason'
    BY <1>1 DEF Writes, ReadersLeaveForAReason, StreamIsOver, Exceeded, PipesHeld, TypeOK
  <2> QED
    BY <1>1, <2>1, <2>2 DEF Writes, CallerKnowsWhy
<1>2. CASE Forks
  <2>1. TypeOK' /\ CallerKnowsWhy'
    BY <1>2 DEF Forks, TypeOK, CallerKnowsWhy
  <2>2. ReadersLeaveForAReason'
    BY <1>2 DEF Forks, ReadersLeaveForAReason, StreamIsOver, Exceeded, PipesHeld
  <2> QED
    BY <2>1, <2>2
<1>3. CASE ChildExits
  <2>1. TypeOK' /\ CallerKnowsWhy'
    BY <1>3 DEF ChildExits, TypeOK, CallerKnowsWhy
  <2>2. ReadersLeaveForAReason'
    BY <1>3 DEF ChildExits, ReadersLeaveForAReason, StreamIsOver, Exceeded, PipesHeld
  <2> QED
    BY <2>1, <2>2
<1>4. CASE HeirExits
  <2>1. TypeOK' /\ CallerKnowsWhy'
    BY <1>4 DEF HeirExits, TypeOK, CallerKnowsWhy
  <2>2. ReadersLeaveForAReason'
    BY <1>4 DEF HeirExits, ReadersLeaveForAReason, StreamIsOver, Exceeded, PipesHeld
  <2> QED
    BY <2>1, <2>2
<1>5. CASE DeadlinePasses
  BY <1>5
  DEF DeadlinePasses, TypeOK, CallerKnowsWhy, ReadersLeaveForAReason, StreamIsOver, Exceeded, PipesHeld
<1> QED
  BY <1>1, <1>2, <1>3, <1>4, <1>5

\* A reader leaves past the limit or at the end of the stream.
LEMMA ThreadsKeepCall ==
  ASSUME CallInv, WriterDone \/ \E s \in Streams : ReaderStep(s)
  PROVE  CallInv'
<1> USE DEF CallInv, Caller, Processes
<1>1. ASSUME NEW s \in Streams, ReadsChunk(s) PROVE CallInv'
  <2>1. PICK n \in 1..(written[s] - observed[s]) :
          /\ observed' = [observed EXCEPT ![s] = @ + n]
          /\ IF observed[s] + n > Limit
               THEN overflow' = TRUE /\ reader' = [reader EXCEPT ![s] = "closing"]
               ELSE UNCHANGED <<overflow, reader>>
    BY <1>1 DEF ReadsChunk
  <2>2. observed[s] + n \in 0..MaxOut /\ reader[s] = "reading"
    BY <1>1, <2>1, CliConstants DEF ReadsChunk, TypeOK, CliConstants
  <2>3. /\ observed' \in [Streams -> 0..MaxOut]
        /\ reader' \in [Streams -> {"reading", "closing", "done"}] /\ overflow' \in BOOLEAN
    BY <2>1, <2>2 DEF TypeOK
  <2>4. TypeOK'
    BY <1>1, <2>3 DEF ReadsChunk, TypeOK
  <2>5. ASSUME NEW t \in Streams, reader'[t] # "reading" PROVE StreamIsOver(t)'
    <3>1. CASE t = s
      <4>1. observed[s] + n > Limit /\ observed'[s] = observed[s] + n
        BY <2>1, <2>2, <2>5, <3>1 DEF TypeOK
      <4> QED
        BY <3>1, <4>1 DEF StreamIsOver, Exceeded
    <3>2. CASE t # s
      <4>1. observed'[t] = observed[t] /\ reader[t] # "reading"
        BY <2>1, <2>5, <3>2 DEF TypeOK
      <4> QED
        BY <1>1, <4>1 DEF ReadsChunk, ReadersLeaveForAReason, StreamIsOver, Exceeded, PipesHeld
    <3> QED
      BY <3>1, <3>2
  <2>6. CallerKnowsWhy'
    BY <1>1, <2>2 DEF ReadsChunk, CallerKnowsWhy
  <2> QED
    BY <2>4, <2>5, <2>6 DEF ReadersLeaveForAReason
<1>2. ASSUME NEW s \in Streams, ReadsEnd(s) PROVE CallInv'
  <2>1. TypeOK'
    BY <1>2 DEF ReadsEnd, TypeOK
  <2>2. ReadersLeaveForAReason'
    BY <1>2 DEF ReadsEnd, ReadersLeaveForAReason, StreamIsOver, Exceeded, PipesHeld, TypeOK
  <2>3. CallerKnowsWhy'
    BY <1>2 DEF ReadsEnd, CallerKnowsWhy
  <2> QED
    BY <2>1, <2>2, <2>3
<1>3. ASSUME NEW s \in Streams, ReaderDone(s) PROVE CallInv'
  <2>1. TypeOK'
    BY <1>3 DEF ReaderDone, TypeOK
  <2>2. ReadersLeaveForAReason'
    BY <1>3 DEF ReaderDone, ReadersLeaveForAReason, StreamIsOver, Exceeded, PipesHeld, TypeOK
  <2>3. CallerKnowsWhy'
    BY <1>3 DEF ReaderDone, CallerKnowsWhy, TypeOK
  <2> QED
    BY <2>1, <2>2, <2>3
<1>4. CASE WriterDone
  BY <1>4
  DEF WriterDone, TypeOK, CallerKnowsWhy, ReadersLeaveForAReason, StreamIsOver, Exceeded, PipesHeld
<1> QED
  BY <1>1, <1>2, <1>3, <1>4 DEF ReaderStep

\* The calling thread goes on with a reason, or when all output is read.
LEMMA CallerKeepsCall ==
  ASSUME CallInv, CallerStep
  PROVE  CallInv'
<1> USE DEF CallInv, Caller, Processes, Threads, Goes, Ending
<1>1. CASE SeesOverflow \/ SeesDeadline \/ SeesDone \/ WaitsForExit \/ Closes
  <2> USE DEF SeesOverflow, SeesDeadline, SeesDone, WaitsForExit, Closes
  <2>1. TypeOK'
    BY <1>1 DEF TypeOK
  <2>2. ReadersLeaveForAReason'
    BY <1>1 DEF ReadersLeaveForAReason, StreamIsOver, Exceeded, PipesHeld
  <2>3. CallerKnowsWhy'
    BY <1>1 DEF CallerKnowsWhy, PastDeadline, OutputIsRead
  <2> QED
    BY <2>1, <2>2, <2>3
<1>2. CASE Terminate
  <2>1. TypeOK' /\ CallerKnowsWhy'
    BY <1>2 DEF Terminate, KilledGroup, TypeOK, CallerKnowsWhy
  <2>2. ReadersLeaveForAReason'
    BY <1>2
    DEF Terminate, KilledGroup, ReadersLeaveForAReason, StreamIsOver, Exceeded, PipesHeld, TypeOK
  <2> QED
    BY <2>1, <2>2
<1>3. CASE Joins
  BY <1>3
  DEF Joins, TypeOK, CallerKnowsWhy, ReadersLeaveForAReason, StreamIsOver, Exceeded, PipesHeld
<1> QED
  BY <1>1, <1>2, <1>3 DEF CallerStep

\* Every step keeps the invariant.
LEMMA StepCall == CallInv /\ [Next]_vars => CallInv'
<1> SUFFICES ASSUME CallInv, [Next]_vars PROVE CallInv'
  OBVIOUS
<1>1. CASE UNCHANGED vars
  BY <1>1
  DEF vars, CallInv, TypeOK, CallerKnowsWhy, ReadersLeaveForAReason, StreamIsOver, Exceeded, PipesHeld
<1>2. CASE Next
  BY <1>2, ProcessesKeepCall, ThreadsKeepCall, CallerKeepsCall DEF Next
<1> QED
  BY <1>1, <1>2

-----------------------------------------------------------------------------
\* The buffers, threads and processes of a call keep their types.
THEOREM CallTypeCorrect == Spec => []TypeOK
<1>1. CallInv => TypeOK
  BY DEF CallInv
<1> QED
  BY <1>1, InitCall, StepCall, PTL DEF Spec

\* A failed call leaves no process of the child's group behind, and a call that
\* returns hands over all that was written to every stream that kept its limit.
THEOREM CallEndsCleanly == Spec => []EndsCleanly
<1>1. ASSUME CallInv PROVE EndsCleanly
  <2>1. ASSUME outcome \in {"overflow", "timeout"} PROVE child = "exited" /\ heir # "group"
    BY <1>1, <2>1 DEF CallInv, CallerKnowsWhy, Ending
  <2>2. ASSUME outcome = "returned", NEW s \in Streams PROVE StreamIsOver(s)
    <3>1. reader[s] = "done"
      BY <1>1, <2>2 DEF CallInv, CallerKnowsWhy, Ending, TypeOK
    <3> QED
      BY <1>1, <3>1 DEF CallInv, ReadersLeaveForAReason
  <2> QED
    BY <2>1, <2>2 DEF EndsCleanly, StreamIsOver
<1> QED
  BY <1>1, InitCall, StepCall, PTL DEF Spec

-----------------------------------------------------------------------------
(***************************************************************************)
(* The pid file keeps a second engine away, for any number of supervisors, *)
(* pids, deaths and restarts, unless two looks and launches were mixed or  *)
(* a supervisor died before it wrote the pid.  The argument: until then an *)
(* engine is the process the pid file names, or the one whose pid a single *)
(* supervisor has still to write; a supervisor that is about to launch one *)
(* has found the file's process gone, and nobody else launches meanwhile.  *)
(***************************************************************************)
\* One supervisor at a time is between its look and its pid file.
OneBetween == \A s, t \in Supervisors : Between(s) /\ Between(t) => s = t

\* The file, or the one supervisor that has launched it, knows the engine.
EngineIsKnown ==
  \A p \in Engines : p = pidFile \/ \E s \in Supervisors : sup[s] = "writes" /\ started[s] = p

\* Whoever is about to launch an engine has none beside it, whoever has launched
\* one has no other.
LauncherIsAlone ==
  \A s \in Supervisors :
    /\ sup[s] = "launches" => Engines = {}
    /\ sup[s] = "writes" => Engines \subseteq {started[s]}

Supervised == OneBetween /\ EngineIsKnown /\ LauncherIsAlone
SuperInv == SuperTypeOK /\ (raced \/ Supervised)

-----------------------------------------------------------------------------
\* At the start nothing runs.
LEMMA SuperInitInv == SuperInit => SuperInv
<1> SUFFICES ASSUME SuperInit PROVE SuperInv
  OBVIOUS
<1> USE DEF SuperInit
<1>1. NewLedger \in Ledgers /\ 0 \in 0..MaxFaults
  BY SupervisionConstants DEF SupervisionConstants, NewLedger, Ledgers
<1>2. SuperTypeOK
  BY <1>1 DEF SuperTypeOK
<1>3. Supervised
  BY DEF Supervised, OneBetween, EngineIsKnown, LauncherIsAlone, Between, Engines
<1> QED
  BY <1>2, <1>3 DEF SuperInv

\* No step that starts no engine, writes no pid and lets no supervisor go on can
\* hurt: engines may only go.
LEMMA FewerEngines ==
  ASSUME raced \/ Supervised, UNCHANGED <<sup, started, pidFile, raced>>, Engines' \subseteq Engines
  PROVE  (raced \/ Supervised)'
BY DEF Supervised, OneBetween, EngineIsKnown, LauncherIsAlone, Between

-----------------------------------------------------------------------------
\* What a Popen leaves of the processes: the engines, and none of its zombies.
LEMMA ReapedTypes ==
  ASSUME SuperTypeOK, NEW s \in Supervisors
  PROVE  /\ Reaped(s) \in [Pids -> {"free", "engine", "zombie", "other"}]
         /\ ParentsIn(Reaped(s)) \in [Pids -> Supervisors \cup {NoParent}]
         /\ \A p \in Pids : Reaped(s)[p] = "engine" <=> proc[p] = "engine"
BY DEF SuperTypeOK, Reaped, ParentsIn

\* Supervisors: the one that looks closes the way for the others.
LEMMA SupervisorsKeepInv ==
  ASSUME SuperInv, NEW s \in Supervisors,
         Starts(s) \/ SupervisorStep(s) \/ SupervisorEnds(s)
  PROVE  SuperInv'
<1> USE SupervisionConstants
    DEF SupervisionConstants, supervision, engines, day, evaluation, Fault, SuperInv
<1>1. CASE Starts(s)
  <2>1. SuperTypeOK'
    BY <1>1 DEF Starts, SuperTypeOK
  <2>2. ASSUME NEW t \in Supervisors
        PROVE  Between(t)' <=> Between(t)
    BY <1>1 DEF Starts, Between, SuperTypeOK
  <2>3. (raced \/ Supervised)'
    BY <1>1, <2>2
    DEF Starts, SuperTypeOK, Supervised, OneBetween, EngineIsKnown, LauncherIsAlone, Engines
  <2> QED
    BY <2>1, <2>3
<1>2. CASE Looks(s)
  <2>1. SuperTypeOK'
    BY <1>2 DEF Looks, SuperTypeOK
  <2>2. CASE raced'
    BY <2>1, <2>2
  <2>3. CASE ~raced'
    <3>1. Supervised /\ (IsRunning(s) \/ \A t \in Supervisors \ {s} : ~Between(t))
      BY <1>2, <2>3 DEF Looks, SuperTypeOK
    <3>2. Engines' = Engines
      BY <1>2 DEF Looks, Engines
    <3>3. CASE IsRunning(s)
      <4>1. sup' = [sup EXCEPT ![s] = "evaluates"] /\ sup[s] = "looks"
        BY <1>2, <3>3 DEF Looks
      <4> QED
        BY <1>2, <2>1, <3>1, <3>2, <4>1
        DEF Looks, SuperTypeOK, Supervised, OneBetween, EngineIsKnown, LauncherIsAlone, Between
    <3>4. CASE ~IsRunning(s)
      <4>1. sup' = [sup EXCEPT ![s] = "launches"] /\ sup[s] = "looks"
        BY <1>2, <3>4 DEF Looks
      <4>2. \A t \in Supervisors \ {s} : sup[t] \notin {"launches", "writes"}
        BY <3>1, <3>4 DEF Between
      <4>3. Engines = {}
        BY <3>1, <3>4, <4>1, <4>2
        DEF Supervised, EngineIsKnown, Engines, IsRunning, SuperTypeOK
      <4> QED
        BY <1>2, <2>1, <3>2, <4>1, <4>2, <4>3
        DEF Looks, SuperTypeOK, Supervised, OneBetween, EngineIsKnown, LauncherIsAlone, Between
    <3> QED
      BY <3>3, <3>4
  <2> QED
    BY <2>2, <2>3
<1>3. CASE Launches(s)
  <2>1. PICK p \in Pids :
          /\ Reaped(s)[p] = "free"
          /\ proc' = [Reaped(s) EXCEPT ![p] = "engine"]
          /\ parent' = [ParentsIn(Reaped(s)) EXCEPT ![p] = s]
          /\ started' = [started EXCEPT ![s] = p]
    BY <1>3 DEF Launches
  <2>2. SuperTypeOK'
    BY <1>3, <2>1, ReapedTypes DEF Launches, SuperTypeOK
  <2>3. CASE raced
    BY <1>3, <2>2, <2>3 DEF Launches
  <2>4. CASE ~raced
    <3>1. Supervised /\ Engines = {} /\ sup[s] = "launches"
      BY <1>3, <2>4 DEF Launches, Supervised, LauncherIsAlone
    <3>2. Engines' = {p}
      BY <2>1, <3>1, ReapedTypes DEF Engines
    <3>3. /\ sup' = [sup EXCEPT ![s] = "writes"]
          /\ \A t \in Supervisors \ {s} : sup[t] \notin {"launches", "writes"}
      BY <1>3, <3>1 DEF Launches, Supervised, OneBetween, Between
    <3>4. started'[s] = p /\ sup'[s] = "writes"
      BY <2>1, <3>3 DEF SuperTypeOK
    <3> QED
      BY <2>2, <3>2, <3>3, <3>4
      DEF SuperTypeOK, Supervised, OneBetween, EngineIsKnown, LauncherIsAlone, Between
  <2> QED
    BY <2>3, <2>4
<1>4. CASE WritesPid(s)
  <2>1. SuperTypeOK'
    BY <1>4 DEF WritesPid, SuperTypeOK
  <2>2. CASE raced
    BY <1>4, <2>1, <2>2 DEF WritesPid
  <2>3. CASE ~raced
    <3>1. Supervised /\ sup[s] = "writes" /\ Engines' = Engines /\ pidFile' = started[s]
      BY <1>4, <2>3 DEF WritesPid, Engines
    <3>2. Engines \subseteq {started[s]}
      BY <3>1 DEF Supervised, LauncherIsAlone
    <3>3. /\ sup' = [sup EXCEPT ![s] = "evaluates"]
          /\ \A t \in Supervisors \ {s} : sup[t] \notin {"launches", "writes"}
      BY <1>4, <3>1 DEF WritesPid, Supervised, OneBetween, Between
    <3> QED
      BY <2>1, <3>1, <3>2, <3>3
      DEF SuperTypeOK, Supervised, OneBetween, EngineIsKnown, LauncherIsAlone, Between
  <2> QED
    BY <2>2, <2>3
<1>5. CASE Evaluates(s) \/ Sleeps(s)
  <2>1. SuperTypeOK'
    BY <1>5, ReapedTypes DEF Evaluates, Sleeps, SuperTypeOK
  <2>2. Engines' = Engines
    BY <1>5, ReapedTypes DEF Evaluates, Sleeps, Engines, Reaped
  <2>3. \A t \in Supervisors :
          sup'[t] = sup[t] \/ (sup[t] \in {"evaluates", "sleeps"} /\ sup'[t] \in {"sleeps", "looks"})
    BY <1>5 DEF Evaluates, Sleeps, SuperTypeOK
  <2>4. (raced \/ Supervised)'
    BY <1>5, <2>2, <2>3
    DEF Evaluates, Sleeps, Supervised, OneBetween, EngineIsKnown, LauncherIsAlone, Between
  <2> QED
    BY <2>1, <2>4
<1>6. CASE SupervisorEnds(s)
  <2>1. SuperTypeOK'
    BY <1>6, ReapedTypes DEF SupervisorEnds, SuperTypeOK
  <2>2. CASE raced'
    BY <2>1, <2>2
  <2>3. CASE ~raced'
    <3>1. Supervised /\ sup[s] # "writes"
      BY <1>6, <2>3 DEF SupervisorEnds, SuperTypeOK
    <3>2. Engines' = Engines
      BY <1>6, ReapedTypes DEF SupervisorEnds, Engines
    <3>3. \A t \in Supervisors : sup'[t] = IF t = s THEN "off" ELSE sup[t]
      BY <1>6 DEF SupervisorEnds, SuperTypeOK
    <3>4. \A t \in Supervisors : t # s => started'[t] = started[t]
      BY <1>6 DEF SupervisorEnds, SuperTypeOK
    <3>5. pidFile' = pidFile
      BY <1>6 DEF SupervisorEnds
    <3> QED
      BY <2>1, <3>1, <3>2, <3>3, <3>4, <3>5
      DEF Supervised, OneBetween, EngineIsKnown, LauncherIsAlone, Between
  <2> QED
    BY <2>2, <2>3
<1> QED
  BY <1>1, <1>2, <1>3, <1>4, <1>5, <1>6 DEF SupervisorStep

\* Engines, foreign processes, the evaluation worker: nobody launches an engine.
LEMMA OthersKeepInv ==
  ASSUME SuperInv,
         \/ \E p \in Pids : EngineStep(p) \/ EngineEnds(p) \/ PidIsReused(p) \/ OtherEnds(p)
         \/ WorkerStep \/ EvaluationFails \/ WorkerDies \/ StateAges \/ DatePasses
  PROVE  SuperInv'
<1> USE SupervisionConstants
    DEF SupervisionConstants, supervision, engines, day, evaluation, Fault, SuperInv
<1>1. ASSUME NEW p \in Pids, EngineStep(p) PROVE SuperInv'
  <2>1. SuperTypeOK'
    <3>1. CASE TickBegins(p)
      BY <3>1 DEF TickBegins, SuperTypeOK
    <3>2. CASE TickWrites(p)
      <4>1. NewLedger \in Ledgers /\ copy[p] \in Ledgers
        BY DEF SuperTypeOK, Ledgers, NewLedger
      <4>2. [copy[p] EXCEPT !.spent = TRUE] \in Ledgers
        BY <4>1 DEF Ledgers
      <4>3. /\ ledger' \in Ledgers
            /\ \E l \in Ledgers : copy' = [copy EXCEPT ![p] = l]
            /\ engine' = engine \/ engine' = [engine EXCEPT ![p] = "idle"]
        BY <3>2, <4>1, <4>2 DEF TickWrites
      <4> QED
        BY <3>2, <4>3 DEF TickWrites, SuperTypeOK
    <3>3. CASE TickReports(p)
      <4>1. NewLedger \in Ledgers /\ [copy[p] EXCEPT !.report = TRUE] \in Ledgers
        BY DEF SuperTypeOK, Ledgers, NewLedger
      <4> QED
        BY <3>3, <4>1 DEF TickReports, SuperTypeOK
    <3> QED
      BY <1>1, <3>1, <3>2, <3>3 DEF EngineStep
  <2>2. Engines' \subseteq Engines /\ UNCHANGED <<sup, started, pidFile, raced>>
    BY <1>1 DEF EngineStep, TickBegins, TickWrites, TickReports, Engines
  <2> QED
    BY <2>1, <2>2, FewerEngines
<1>2. ASSUME NEW p \in Pids, EngineEnds(p) \/ PidIsReused(p) \/ OtherEnds(p) PROVE SuperInv'
  <2>1. SuperTypeOK'
    <3>1. CASE EngineEnds(p)
      BY <3>1 DEF EngineEnds, SuperTypeOK, Ledgers, NewLedger
    <3>2. CASE PidIsReused(p) \/ OtherEnds(p)
      BY <3>2 DEF PidIsReused, OtherEnds, SuperTypeOK
    <3> QED
      BY <1>2, <3>1, <3>2
  <2>2. Engines' \subseteq Engines /\ UNCHANGED <<sup, started, pidFile, raced>>
    BY <1>2 DEF EngineEnds, PidIsReused, OtherEnds, Engines, SuperTypeOK
  <2> QED
    BY <2>1, <2>2, FewerEngines
<1>3. CASE WorkerStep \/ EvaluationFails \/ WorkerDies \/ StateAges \/ DatePasses
  <2>1. SuperTypeOK'
    <3>1. NewLedger \in Ledgers /\ Marked \in Ledgers
      BY DEF SuperTypeOK, Ledgers, NewLedger, Marked
    <3>2. CASE WorkerReads
      BY <3>1, <3>2 DEF WorkerReads, Saves, SuperTypeOK
    <3>3. CASE WorkerMarks
      BY <3>1, <3>3 DEF WorkerMarks, SuperTypeOK
    <3>4. CASE WorkerNotifies
      BY <3>1, <3>4 DEF WorkerNotifies, Saves, SuperTypeOK
    <3>5. CASE EvaluationFails
      BY <3>1, <3>5 DEF EvaluationFails, Saves, SuperTypeOK
    <3>6. CASE WorkerDies
      BY <3>1, <3>6 DEF WorkerDies, SuperTypeOK
    <3>7. CASE StateAges
      <4>1. state'.status = state.status
        BY <3>7 DEF StateAges
      <4> QED
        BY <3>7, <4>1 DEF StateAges, SuperTypeOK
    <3>8. CASE DatePasses
      BY <3>8 DEF DatePasses, SuperTypeOK
    <3> QED
      BY <1>3, <3>2, <3>3, <3>4, <3>5, <3>6, <3>7, <3>8 DEF WorkerStep
  <2>2. Engines' \subseteq Engines /\ UNCHANGED <<sup, started, pidFile, raced>>
    BY <1>3
    DEF WorkerStep, WorkerReads, WorkerMarks, WorkerNotifies, EvaluationFails, WorkerDies,
        StateAges, DatePasses, Engines
  <2> QED
    BY <2>1, <2>2, FewerEngines
<1> QED
  BY <1>1, <1>2, <1>3

\* Every step keeps the invariant.
LEMMA SuperStepInv == SuperInv /\ [SuperNext]_superVars => SuperInv'
<1> SUFFICES ASSUME SuperInv, [SuperNext]_superVars PROVE SuperInv'
  OBVIOUS
<1>1. CASE UNCHANGED superVars
  <2>1. SuperTypeOK'
    BY <1>1 DEF superVars, supervision, engines, day, evaluation, SuperInv, SuperTypeOK
  <2>2. Engines' \subseteq Engines /\ UNCHANGED <<sup, started, pidFile, raced>>
    BY <1>1 DEF superVars, supervision, engines, Engines
  <2> QED
    BY <2>1, <2>2, FewerEngines DEF SuperInv
<1>2. CASE SuperNext
  BY <1>2, SupervisorsKeepInv, OthersKeepInv DEF SuperNext
<1> QED
  BY <1>1, <1>2

-----------------------------------------------------------------------------
\* Supervisors, processes, ledgers and the worker's files keep their types.
THEOREM SuperTypeCorrect == SuperSpec => []SuperTypeOK
<1>1. SuperInv => SuperTypeOK
  BY DEF SuperInv
<1> QED
  BY <1>1, SuperInitInv, SuperStepInv, PTL DEF SuperSpec

\* Over any restart of the supervisor at most one engine runs, unless two
\* supervisors were between their look and their pid file at once, or one ended
\* there.
THEOREM OneEngineRuns == SuperSpec => []OneEngine
<1>1. ASSUME SuperInv, ~raced PROVE Cardinality(Engines) <= 1
  <2>1. \E p : Engines \subseteq {p}
    BY <1>1 DEF SuperInv, Supervised, EngineIsKnown, LauncherIsAlone
  <2>2. PICK p : Engines = {} \/ Engines = {p}
    BY <2>1
  <2> QED
    BY <2>2, FS_EmptySet, FS_Singleton
<1>2. SuperInv => OneEngine
  BY <1>1 DEF OneEngine
<1> QED
  BY <1>2, SuperInitInv, SuperStepInv, PTL DEF SuperSpec

-----------------------------------------------------------------------------
\* Both systems side by side: where one moves, the other keeps its invariant.
LEMMA SceneStep == (CallInv /\ SuperInv) /\ [MCNext]_MCVars => (CallInv /\ SuperInv)'
<1> SUFFICES ASSUME CallInv /\ SuperInv, [MCNext]_MCVars PROVE (CallInv /\ SuperInv)'
  OBVIOUS
<1>1. [Next]_vars /\ [SuperNext]_superVars
  BY DEF MCNext, MCVars
<1> QED
  BY <1>1, StepCall, SuperStepInv

\* In the system that the run Processes checks, the state of provider calls and
\* of supervised engines keeps its types.
THEOREM ProcessesTypeCorrect == MCSpec => []ProcessesTypeOK
<1>1. MCInit => CallInv /\ SuperInv
  BY InitCall, SuperInitInv DEF MCInit
<1>2. CallInv /\ SuperInv => ProcessesTypeOK
  BY DEF CallInv, SuperInv, ProcessesTypeOK
<1> QED
  BY <1>1, <1>2, SceneStep, PTL DEF MCSpec
=============================================================================
