---------------------------- MODULE MCProcesses ----------------------------
(***************************************************************************)
(* Two systems of processes that share no state, checked in one run: each  *)
(* behaviour is of one of them, and the other stays in its initial state.  *)
(* Supervision is checked in two scenes, as all of it at once is too much: *)
(* in "ledger" one supervisor comes and goes and everything else happens,  *)
(* in "pids" all of them come and go and the engines do not tick.          *)
(***************************************************************************)
EXTENDS CliProcess, DaemonSupervision

VARIABLE scene
MCVars == <<scene, vars, superVars>>

MCInit ==
  /\ scene \in {"call", "ledger", "pids"} /\ Init /\ SuperInit
  /\ scene # "call" => writer = "done"

\* Which one does not matter.
OneSupervisor ==
  \A s \in Supervisors : s # (CHOOSE t \in Supervisors : TRUE) => sup'[s] = "off"

MCNext ==
  \/ scene = "call" /\ Next /\ UNCHANGED <<scene, superVars>>
  \/ scene = "ledger" /\ SuperNext /\ OneSupervisor /\ UNCHANGED <<scene, vars>>
  \/ scene = "pids" /\ SuperNext /\ UNCHANGED <<scene, vars, engine>>

MCFairness ==
  /\ WF_vars(scene = "call" /\ CallerStep)
  /\ WF_vars(scene = "call" /\ DeadlinePasses)
  /\ WF_vars(scene = "call" /\ WriterDone)
  /\ \A s \in Streams : WF_vars(scene = "call" /\ ReaderStep(s))
  /\ \A s \in Supervisors : WF_superVars(scene # "call" /\ SupervisorStep(s))
  /\ \A p \in Pids : WF_superVars(scene = "ledger" /\ EngineStep(p))
  /\ WF_superVars(scene # "call" /\ WorkerStep)
  /\ WF_superVars(scene # "call" /\ StateAges)

MCSpec == MCInit /\ [][MCNext]_MCVars /\ MCFairness

\* The types of both systems.
ProcessesTypeOK == TypeOK /\ SuperTypeOK

\* CallEnds of CliProcess, in its own behaviours: the time limit bounds a call.
BoundedCallEnds == scene = "call" => CallEnds
=============================================================================
