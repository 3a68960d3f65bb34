---------------------------- MODULE MCPidFileLock -----------------------------
(* Processes are interchangeable: symmetry for the safety runs.             *)
EXTENDS PidFileLock, TLC

ProcessSymmetry == Permutations(Processes)
==============================================================================
