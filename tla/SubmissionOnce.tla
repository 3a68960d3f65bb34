---------------------------- MODULE SubmissionOnce ----------------------------
(***************************************************************************)
(* What the journaled submission path promises for each alpha, with        *)
(* processes, files and messages left out: an attempt is in doubt until it *)
(* is disproved, proved, or handed to a person; only a disproved attempt   *)
(* may be followed by another; and the platform commits at most once.      *)
(* docs/architecture/OPEN_COGNITION_CONTROLLED_EXECUTION.md states it as   *)
(* "it never causes an ambiguous POST to be repeated".                     *)
(***************************************************************************)
EXTENDS Naturals

CONSTANT Alphas

VARIABLES
  knowledge,   \* alpha -> what the run durably knows of its submission
  effects      \* alpha -> POSTs whose write the platform committed

onceVars == <<knowledge, effects>>

Knowledge == {"open", "in_doubt", "accepted", "review"}

OnceInit ==
  /\ knowledge = [a \in Alphas |-> "open"]
  /\ effects = [a \in Alphas |-> 0]

Learn(a, from, to) ==
  /\ knowledge[a] = from
  /\ knowledge' = [knowledge EXCEPT ![a] = to]
  /\ UNCHANGED effects

Attempt(a) == Learn(a, "open", "in_doubt")

\* Only an attempt without an effect may be disproved.
Disprove(a) == effects[a] = 0 /\ Learn(a, "in_doubt", "open")

Prove(a) == Learn(a, "in_doubt", "accepted")

GiveUp(a) == Learn(a, "in_doubt", "review")

\* A delayed request can take effect after the run has stopped waiting for it.
TakeEffect(a) ==
  /\ knowledge[a] # "open"
  /\ effects[a] = 0
  /\ effects' = [effects EXCEPT ![a] = 1]
  /\ UNCHANGED knowledge

OnceNext ==
  \E a \in Alphas : Attempt(a) \/ Disprove(a) \/ Prove(a) \/ GiveUp(a) \/ TakeEffect(a)

OnceSpec == OnceInit /\ [][OnceNext]_onceVars
==============================================================================
