----------------------------- MODULE CliProcess -----------------------------
(***************************************************************************)
(* execute_bounded_process on POSIX: the calling thread, a reader thread   *)
(* for each output pipe, the writer thread for stdin, the child process    *)
(* and a process that the child may leave behind (heir), in its process    *)
(* group or, after setsid, in one of its own, with the pipes still open.   *)
(* Output is counted in units; the overflow event, the done events and the *)
(* deadline are set while the calling thread looks at them one by one.     *)
(***************************************************************************)
EXTENDS Integers

CONSTANTS Limit,      \* stdout_limit_bytes, stderr_limit_bytes
          MaxOut      \* units that the processes write to one stream

ASSUME CliConstants == Limit \in Nat \ {0} /\ MaxOut \in Nat

VARIABLES
  pc,         \* the calling thread
  reason,     \* termination_reason
  outcome,    \* what the caller gets
  child,      \* "running", "exited"
  heir,       \* "none", "group", "own", "gone"
  written,    \* units written to each stream
  observed,   \* observed_bytes of each buffer
  reader,     \* state of each reader thread: the done event is "done"
  writer,     \* the stdin thread
  overflow, late   \* the event; the deadline has passed

vars == <<pc, reason, outcome, child, heir, written, observed, reader, writer, overflow, late>>

Streams == {"stdout", "stderr"}
Exceeded(s) == observed[s] > Limit

\* Who still holds the write ends of the output pipes and the read end of stdin.
PipesHeld == child = "running" \/ heir \in {"group", "own"}

Init ==
  /\ pc = "overflow?" /\ reason = "none" /\ outcome = "none"
  /\ child = "running" /\ heir = "none"
  /\ written = [s \in Streams |-> 0]
  /\ observed = [s \in Streams |-> 0]
  /\ reader = [s \in Streams |-> "reading"]
  /\ writer \in {"writing", "done"}
  /\ overflow = FALSE /\ late = FALSE

----------------------------------------------------------------------------
(* The processes                                                           *)

Processes == <<child, heir, written>>
Caller == <<pc, reason, outcome>>
Threads == <<observed, reader, writer, overflow>>

Writes ==
  /\ PipesHeld
  /\ \E s \in Streams : written[s] < MaxOut /\ written' = [written EXCEPT ![s] = @ + 1]
  /\ UNCHANGED <<Caller, child, heir, Threads, late>>

Forks ==
  /\ child = "running" /\ heir = "none"
  /\ heir' \in {"group", "own"}
  /\ UNCHANGED <<Caller, child, written, Threads, late>>

ChildExits ==
  /\ child = "running" /\ child' = "exited"
  /\ UNCHANGED <<Caller, heir, written, Threads, late>>

HeirExits ==
  /\ heir \in {"group", "own"} /\ heir' = "gone"
  /\ UNCHANGED <<Caller, child, written, Threads, late>>

DeadlinePasses ==
  /\ ~late /\ late' = TRUE
  /\ UNCHANGED <<Caller, Processes, Threads>>

----------------------------------------------------------------------------
(* The threads                                                             *)

\* pipe.read and _BoundedBuffer.append: past the limit the overflow event is set
\* and the thread stops reading.
ReadsChunk(s) ==
  /\ reader[s] = "reading" /\ observed[s] < written[s]
  /\ \E n \in 1..(written[s] - observed[s]) :
       /\ observed' = [observed EXCEPT ![s] = @ + n]
       /\ IF observed[s] + n > Limit
            THEN overflow' = TRUE /\ reader' = [reader EXCEPT ![s] = "closing"]
            ELSE UNCHANGED <<overflow, reader>>
  /\ UNCHANGED <<Caller, Processes, writer, late>>

ReadsEnd(s) ==
  /\ reader[s] = "reading" /\ observed[s] = written[s] /\ ~PipesHeld
  /\ reader' = [reader EXCEPT ![s] = "closing"]
  /\ UNCHANGED <<Caller, Processes, observed, writer, overflow, late>>

\* The finally clause: the pipe is closed, then the done event is set.
ReaderDone(s) ==
  /\ reader[s] = "closing"
  /\ reader' = [reader EXCEPT ![s] = "done"]
  /\ UNCHANGED <<Caller, Processes, observed, writer, overflow, late>>

\* The payload is taken, or nobody is left to take it (BrokenPipeError).
WriterDone ==
  /\ writer = "writing" /\ (child = "running" \/ ~PipesHeld)
  /\ writer' = "done"
  /\ UNCHANGED <<Caller, Processes, observed, reader, overflow, late>>

----------------------------------------------------------------------------
(* The calling thread                                                      *)

Goes(p) == pc' = p /\ UNCHANGED <<outcome, Processes, Threads, late>>

SeesOverflow ==
  /\ pc = "overflow?"
  /\ IF overflow THEN reason' = "overflow" /\ Goes("terminate")
                 ELSE UNCHANGED reason /\ Goes("deadline?")

\* Faulty variant: the deadline is not looked at while output is missing.
PastDeadlineWhenRead == late /\ \A s \in Streams : reader[s] = "done"

PastDeadline == late

SeesDeadline ==
  /\ pc = "deadline?"
  /\ IF PastDeadline THEN reason' = "timeout" /\ Goes("terminate")
                     ELSE UNCHANGED reason /\ Goes("done?")

\* Faulty variant: the exit of the child is enough.
OutputIsReadUp == child = "exited"

OutputIsRead == child = "exited" /\ \A s \in Streams : reader[s] = "done"

SeesDone ==
  /\ pc = "done?"
  /\ UNCHANGED reason
  /\ IF OutputIsRead THEN Goes("wait") ELSE Goes("overflow?")

\* killpg reaches the group, which the child leads, whether it has exited or not.
KilledGroup == IF heir = "group" THEN "gone" ELSE heir

\* _terminate_process_tree.
Terminate ==
  /\ pc = "terminate"
  /\ child' = "exited" /\ heir' = KilledGroup
  /\ pc' = "wait"
  /\ UNCHANGED <<reason, outcome, written, Threads, late>>

WaitsForExit ==
  /\ pc = "wait" /\ child = "exited"
  /\ UNCHANGED reason /\ Goes("join")

\* The threads are joined for a second each, so any of them may go on.
Joins ==
  /\ pc = "join"
  /\ outcome' = IF reason = "none" THEN "returned" ELSE reason
  /\ pc' = "close"
  /\ UNCHANGED <<reason, Processes, Threads, late>>

\* The finally clause: closing a pipe waits for the thread that is in a call on
\* it, without a limit.
Closes ==
  /\ pc = "close"
  /\ \A s \in Streams : reader[s] # "reading"
  /\ writer = "done"
  /\ UNCHANGED reason /\ Goes("ended")

CallerStep == SeesOverflow \/ SeesDeadline \/ SeesDone \/ Terminate \/ WaitsForExit \/ Joins \/ Closes
ReaderStep(s) == ReadsChunk(s) \/ ReadsEnd(s) \/ ReaderDone(s)

Next ==
  \/ Writes \/ Forks \/ ChildExits \/ HeirExits \/ DeadlinePasses
  \/ \E s \in Streams : ReaderStep(s)
  \/ WriterDone \/ CallerStep

\* The threads run and time passes; nothing is assumed of the processes.
Fairness ==
  /\ WF_vars(CallerStep) /\ WF_vars(DeadlinePasses) /\ WF_vars(WriterDone)
  /\ \A s \in Streams : WF_vars(ReaderStep(s))
Spec == Init /\ [][Next]_vars /\ Fairness

----------------------------------------------------------------------------
(* Properties                                                              *)

TypeOK ==
  /\ pc \in {"overflow?", "deadline?", "done?", "terminate", "wait", "join", "close", "ended"}
  /\ reason \in {"none", "overflow", "timeout"}
  /\ outcome \in {"none", "returned", "overflow", "timeout"}
  /\ child \in {"running", "exited"} /\ heir \in {"none", "group", "own", "gone"}
  /\ written \in [Streams -> 0..MaxOut] /\ observed \in [Streams -> 0..MaxOut]
  /\ reader \in [Streams -> {"reading", "closing", "done"}]
  /\ writer \in {"writing", "done"} /\ overflow \in BOOLEAN /\ late \in BOOLEAN

\* A failed call leaves no process of the child's group behind, and a call that
\* returns hands over all that was written to every stream that kept its limit.
EndsCleanly ==
  /\ outcome \in {"overflow", "timeout"} => child = "exited" /\ heir # "group"
  /\ outcome = "returned" =>
       \A s \in Streams : Exceeded(s) \/ (~PipesHeld /\ observed[s] = written[s])

\* The time limit bounds the call, unless a process has left the child's group,
\* or one that nobody will kill any more leaves the payload of stdin unread.
CallEnds ==
  <>(pc = "ended" \/ heir = "own" \/ (outcome = "returned" /\ writer = "writing"))

=============================================================================
