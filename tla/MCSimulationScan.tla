--------------------------- MODULE MCSimulationScan ---------------------------
(* The clients of a scan are interchangeable: symmetry for the safety run.  *)
EXTENDS SimulationScan, TLC

ClientSymmetry == Permutations(Clients)
==============================================================================
