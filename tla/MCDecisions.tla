---------------------------- MODULE MCDecisions ----------------------------
(***************************************************************************)
(* Parts that share no state, checked in one run: each behaviour is of one *)
(* of them, and the others stay in an initial state of their own.          *)
(***************************************************************************)
EXTENDS PidFileLock, RunMemory, FailureTriage, LiveCheck, AlphaListing, PolicyMemory, CandidateChoice

CONSTANT Bare     \* of LiveCheck's two alphas, the one without platform checks

\* Rows of a scan: too few to tell, all low, one ready among low ones, good
\* without and with ready ones.
MCBatches == {<<2, 1, 9>>, <<0, 0, 20>>, <<1, 0, 19>>, <<0, 9, 11>>, <<10, 4, 6>>}
MCSlices == {1, 2} \X {1, 2}

\* Candidates of two families, one of them named by its route alone: for every cap
\* enough of a kind to pass it, and one expression twice.
Candidate(expression, field, family, route, base) ==
  [expression |-> expression, field |-> field, price |-> expression \in {"e4", "e6"},
   family |-> family, route |-> route, skeleton |-> NoName, base |-> base]
MCKinds ==
  {Candidate("e1", "f1", 1, 0, NoName), Candidate("e2", "f2", 1, 0, NoName),
   Candidate("e3", "f2", 2, 0, "b2"), Candidate("e1", "f1", 2, 0, "b2"),
   Candidate("e4", "f3", NoName, 2, NoName), Candidate("e5", "f4", 1, 0, "b1"),
   Candidate("e6", "f2", 1, 0, "b1")}
MCPools == {p \in [1..5 -> MCKinds] : Cardinality({p[c] : c \in 1..5}) = 5} \cup [1..3 -> MCKinds]
MCMeasures ==
  {<<[tested |-> 8, low |-> 8, productive |-> 0]>>, <<[tested |-> 10, low |-> 9, productive |-> 1]>>}

CONSTANTS l1, l2, l3
MCAccount == <<l1, l2, l3>>
MCDataFields == <<l1, l2, l3>>
MCDataSets == <<l3>>

VARIABLE scene
scenes == {"lock", "memory", "triage", "check", "listing", "policy", "choice"}
MCVars ==
  <<scene, vars, memoryVars, triageVars, liveVars, listingVars, policyVars, choiceVars>>

MCInit ==
  /\ scene \in scenes
  /\ \E c \in {"pending", "partial"} :
       /\ stored = [a \in MetricReady |-> IF a = Bare THEN "bare" ELSE c]
       /\ scene = "check" \/ c = "pending"
  /\ scene = "triage" \/ (known = "new" /\ row = EmptyRow("none"))
  /\ Init /\ MemoryInit /\ TriageInit /\ LiveInit /\ ListingInit /\ PolicyInit
  /\ ChoiceInit

MCNext ==
  \/ /\ scene = "lock" /\ Next
     /\ UNCHANGED <<scene, memoryVars, triageVars, liveVars, listingVars, policyVars, choiceVars>>
  \/ /\ scene = "memory" /\ MemoryNext
     /\ UNCHANGED <<scene, vars, triageVars, liveVars, listingVars, policyVars, choiceVars>>
  \/ /\ scene = "triage" /\ TriageNext
     /\ UNCHANGED <<scene, vars, memoryVars, liveVars, listingVars, policyVars, choiceVars>>
  \/ /\ scene = "check" /\ LiveNext
     /\ UNCHANGED <<scene, vars, memoryVars, triageVars, listingVars, policyVars, choiceVars>>
  \/ /\ scene = "listing" /\ ListingNext
     /\ UNCHANGED <<scene, vars, memoryVars, triageVars, liveVars, policyVars, choiceVars>>
  \/ /\ scene = "policy" /\ PolicyNext
     /\ UNCHANGED <<scene, vars, memoryVars, triageVars, liveVars, listingVars, choiceVars>>
  \/ /\ scene = "choice" /\ ChoiceNext
     /\ UNCHANGED <<scene, vars, memoryVars, triageVars, liveVars, listingVars, policyVars>>

MCFairness ==
  /\ WF_memoryVars(scene = "memory" /\ LoopStep)
  /\ WF_memoryVars(scene = "memory" /\ SyncStep("worker"))
  /\ WF_liveVars(scene = "check" /\ RunStep)
  /\ \A a \in MetricReady : WF_liveVars(scene = "check" /\ PlatformComputes(a))

MCSpec == MCInit /\ [][MCNext]_MCVars /\ MCFairness

\* The types of all parts.
DecisionsTypeOK ==
  /\ TypeOK /\ MemoryTypeOK /\ TriageTypeOK /\ LiveTypeOK
  /\ ListingTypeOK /\ PolicyTypeOK /\ ChoiceTypeOK

\* ResultsArrive of RunMemory, in its own behaviours: memory and evaluation see
\* every good result in the end.
MemoryResultsArrive == scene = "memory" => ResultsArrive
=============================================================================
