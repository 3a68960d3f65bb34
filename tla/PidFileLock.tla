----------------------------- MODULE PidFileLock ------------------------------
(***************************************************************************)
(* PidFileLock (wqb_agent_lab/runtime/process_lock.py), the lock that lets *)
(* one submission, registry, memory or evaluation worker run at a time.    *)
(*                                                                         *)
(* A lock file appears empty (O_CREAT | O_EXCL) and gets its owner's       *)
(* identity in a later step.  A process that finds the file reads it,      *)
(* checks the owner it names and unlinks the path if that owner is gone or *)
(* cannot be read; the path may hold another file by then.                 *)
(***************************************************************************)
EXTENDS Naturals, FiniteSets

CONSTANTS
  Processes,     \* worker processes, each launched at most once
  NoProcess,     \* no owner could be read
  MaxAttempts,   \* attempts of __enter__ to create the file
  Overlap        \* whether processes may acquire at the same time

ASSUME ConstantsAssumption ==
  /\ NoProcess \notin Processes
  /\ MaxAttempts \in Nat \ {0}
  /\ Overlap \in BOOLEAN

VARIABLES
  file,      \* the path: the process that created the file at it, or NoProcess
  written,   \* whether that file names its owner
  pc,        \* each process's control state
  seen,      \* the owner that a process read
  attempts   \* how often a process has tried to create the file

vars == <<file, written, pc, seen, attempts>>

------------------------------------------------------------------------------
Acquiring == {"open", "read", "check", "unlink", "write"}
Holding   == {"held", "remove"}

Alive(p) == pc[p] \in Acquiring \cup Holding

Init ==
  /\ file = NoProcess
  /\ written = FALSE
  /\ pc = [p \in Processes |-> "new"]
  /\ seen = [p \in Processes |-> NoProcess]
  /\ attempts = [p \in Processes |-> 0]

Goto(p, state) == pc' = [pc EXCEPT ![p] = state]

Launch(p) ==
  /\ pc[p] = "new"
  /\ Overlap \/ \A q \in Processes : pc[q] \notin Acquiring
  /\ Goto(p, "open")
  /\ UNCHANGED <<file, written, seen, attempts>>

------------------------------------------------------------------------------
(* __enter__ and _reclaim_stale_lock.                                      *)

CreateFile(p) ==
  /\ pc[p] = "open"
  /\ file = NoProcess
  /\ file' = p
  /\ written' = FALSE
  /\ attempts' = [attempts EXCEPT ![p] = @ + 1]
  /\ Goto(p, "write")
  /\ UNCHANGED <<seen>>

FileExists(p) ==
  /\ pc[p] = "open"
  /\ file # NoProcess
  /\ attempts' = [attempts EXCEPT ![p] = @ + 1]
  /\ Goto(p, "read")
  /\ UNCHANGED <<file, written, seen>>

\* An absent, empty or torn file names no owner.
ReadOwner(p) ==
  /\ pc[p] = "read"
  /\ seen' = [seen EXCEPT ![p] = IF written THEN file ELSE NoProcess]
  /\ Goto(p, "check")
  /\ UNCHANGED <<file, written, attempts>>

\* Faulty variant: a process that cannot be asked is taken for dead.
OwnerAliveNever(p) == FALSE

OwnerAlive(p) == seen[p] # NoProcess /\ Alive(seen[p])

Refuse(p) ==
  /\ pc[p] = "check"
  /\ OwnerAlive(p)
  /\ Goto(p, "refused")
  /\ UNCHANGED <<file, written, seen, attempts>>

TakeForStale(p) ==
  /\ pc[p] = "check"
  /\ ~OwnerAlive(p)
  /\ Goto(p, "unlink")
  /\ UNCHANGED <<file, written, seen, attempts>>

AttemptsLeft(p) == attempts[p] < MaxAttempts

\* Faulty variant: a failed unlink counts as a reclaimed lock and is retried without limit.
UnlinkIgnoringErrors(p) ==
  /\ pc[p] = "unlink"
  /\ Goto(p, "open")
  /\ UNCHANGED <<file, written, seen, attempts>>

Unlink(p) ==
  /\ pc[p] = "unlink"
  /\ file' = NoProcess
  /\ written' = FALSE
  /\ Goto(p, IF AttemptsLeft(p) THEN "open" ELSE "refused")
  /\ UNCHANGED <<seen, attempts>>

\* The write goes to the open file, which may no longer be the one at the path.
WriteOwner(p) ==
  /\ pc[p] = "write"
  /\ written' = (written \/ file = p)
  /\ Goto(p, "held")
  /\ UNCHANGED <<file, seen, attempts>>

------------------------------------------------------------------------------
(* __exit__, and death at any point.                                       *)

ExitReads(p) ==
  /\ pc[p] = "held"
  /\ Goto(p, IF written /\ file = p THEN "remove" ELSE "ended")
  /\ UNCHANGED <<file, written, seen, attempts>>

ExitUnlinks(p) ==
  /\ pc[p] = "remove"
  /\ file' = NoProcess
  /\ written' = FALSE
  /\ Goto(p, "ended")
  /\ UNCHANGED <<seen, attempts>>

Die(p) ==
  /\ Alive(p)
  /\ Goto(p, "ended")
  /\ UNCHANGED <<file, written, seen, attempts>>

------------------------------------------------------------------------------
Step(p) ==
  \/ CreateFile(p)
  \/ FileExists(p)
  \/ ReadOwner(p)
  \/ Refuse(p)
  \/ TakeForStale(p)
  \/ Unlink(p)
  \/ WriteOwner(p)
  \/ ExitReads(p)
  \/ ExitUnlinks(p)

Next == \E p \in Processes : Launch(p) \/ Step(p) \/ Die(p)

Spec == Init /\ [][Next]_vars

------------------------------------------------------------------------------
(* Properties                                                              *)

TypeOK ==
  /\ file \in Processes \cup {NoProcess}
  /\ written \in BOOLEAN
  /\ pc \in [Processes -> Acquiring \cup Holding \cup {"new", "refused", "ended"}]
  /\ seen \in [Processes -> Processes \cup {NoProcess}]
  /\ attempts \in [Processes -> 0..MaxAttempts]

\* At most one process holds the lock, whichever processes died with it before.
MutualExclusion ==
  \A p, q \in Processes : pc[p] \in Holding /\ pc[q] \in Holding => p = q
==============================================================================
