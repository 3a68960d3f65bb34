------------------------------ MODULE RunMemory ------------------------------
(***************************************************************************)
(* What becomes of the result rows of a run: the closed loop of the engine *)
(* (diagnosis, triage, memory and evaluation stages) and the asynchronous  *)
(* memory worker, which write into the same SQLite store.                  *)
(*                                                                         *)
(* A row waits for its result without an alpha ("pending") and then has    *)
(* one of an alpha, weak or good.  The diagnosis reads *_results.json, its *)
(* own diagnosis_results.json included.  A synchronisation of the memory   *)
(* reads the files once and upserts the nodes, then the edges, each in a   *)
(* transaction of its own; here one step writes the run's node, one those  *)
(* of the candidates and one the edges.                                    *)
(***************************************************************************)
EXTENDS FiniteSets, Integers

CONSTANTS Rows,
          CopyCap,      \* bound: copies of a diagnosed row that are told apart
          MaxDeaths     \* bound: deaths, and memory stages that raise

ASSUME RunMemoryConstants == CopyCap \in Nat \ {0} /\ MaxDeaths \in Nat

VARIABLES
  results,      \* the stages' result files: what each row says
  diagnosed,    \* diagnosis_results.json: copies of each row in each state
  triaged,      \* scan_results_snapshot.json: <<row, state>>
  evaluated,    \* output_evaluation_report.json is of this snapshot
  loop,         \* the closed loop's stage
  sync,         \* of each writer: [at, spent, seen]
  checkpoint,   \* stage_checkpoints/memory.json
  runNode,      \* the run's node: spent simulations it tells, or NoNode
  nodes, edges, \* candidate nodes, by id, and those with their edge to the run
  deaths

memoryFiles == <<triaged, evaluated, checkpoint>>
store == <<runNode, nodes, edges>>
memoryVars == <<results, diagnosed, memoryFiles, loop, sync, store, deaths>>

Writers == {"engine", "worker"}
States == {"pending", "weak", "good"}
NoNode == -1
Off == [at |-> "off", spent |-> 0, seen |-> {}]
Death == deaths < MaxDeaths /\ deaths' = deaths + 1

MemoryInit ==
  /\ results = [r \in Rows |-> "none"]
  /\ diagnosed = [rs \in Rows \X States |-> 0]
  /\ triaged = {} /\ evaluated = {} /\ loop = "idle"
  /\ sync = [w \in Writers |-> Off] /\ checkpoint = "none"
  /\ runNode = NoNode /\ nodes = {} /\ edges = {} /\ deaths = 0

\* The scan, or the reconciliation, writes a row; a final row stays.
RowIsWritten(r) ==
  /\ results[r] \in {"none", "pending"}
  /\ \E s \in States : s # results[r] /\ results' = [results EXCEPT ![r] = s]
  /\ UNCHANGED <<diagnosed, memoryFiles, loop, sync, store, deaths>>

----------------------------------------------------------------------------
(* Diagnosis, triage, evaluation                                           *)

Capped(n) == IF n > CopyCap THEN CopyCap ELSE n

\* load_scan_rows: the rows of every *_results.json, the last diagnosis' too.
LoadedRows ==
  [rs \in Rows \X States |->
     Capped(diagnosed[rs] + (IF results[rs[1]] = rs[2] THEN 1 ELSE 0))]

DiagnosisStage ==
  /\ loop = "idle" /\ loop' = "triage"
  /\ diagnosed' = LoadedRows
  /\ UNCHANGED <<results, memoryFiles, sync, store, deaths>>

\* dedupe_triage_rows: by alpha or, as long as there is none, by expression; a
\* row's pending copy and its final one stay two rows.
Deduped == {rs \in Rows \X States : diagnosed[rs] > 0}

TriageStage ==
  /\ loop = "triage" /\ loop' = "memory"
  /\ triaged' = Deduped
  /\ UNCHANGED <<results, diagnosed, evaluated, checkpoint, sync, store, deaths>>

\* evaluate_run_outputs: the report is of the snapshot that it finds.
Evaluated == triaged

EvaluationStage ==
  /\ loop = "evaluation" /\ loop' = "idle" /\ evaluated' = Evaluated
  /\ UNCHANGED <<results, diagnosed, triaged, checkpoint, sync, store, deaths>>

----------------------------------------------------------------------------
(* The memory                                                              *)

\* _candidate_node_id: by alpha, or else by file and index.
CandidateId(file, r, s) == IF s = "pending" THEN <<r, file>> ELSE <<r, "alpha">>

Candidates ==
  {CandidateId("results", r, results[r]) : r \in {x \in Rows : results[x] # "none"}}
    \cup {CandidateId("diagnosis", rs[1], rs[2]) : rs \in {t \in Rows \X States : diagnosed[t] > 0}}

Spent == Cardinality({r \in Rows : results[r] # "none"})

Goes(w, at) == sync' = [sync EXCEPT ![w].at = at]

\* sync_run_memory reads the ledger and the files.
SyncBegins(w) ==
  /\ sync[w].at = "off"
  /\ IF w = "engine" THEN loop = "memory" /\ checkpoint' = "running" ELSE UNCHANGED checkpoint
  /\ sync' = [sync EXCEPT ![w] = [at |-> "run", spent |-> Spent, seen |-> Candidates]]
  /\ UNCHANGED <<results, diagnosed, triaged, evaluated, loop, store, deaths>>

\* Faulty variant: INSERT OR IGNORE.
FirstWritten(old, new) == IF old = NoNode THEN new ELSE old

\* upsert_node: the later writer wins.
Upserted(old, new) == new

UpsertsRun(w) ==
  /\ sync[w].at = "run" /\ Goes(w, "candidates")
  /\ runNode' = Upserted(runNode, sync[w].spent)
  /\ UNCHANGED <<results, diagnosed, memoryFiles, loop, nodes, edges, deaths>>

\* Faulty variant: nothing new, no edges.
AfterNewNodes(w) == IF sync[w].seen \subseteq nodes THEN "reports" ELSE "edges"

AfterNodes(w) == "edges"

UpsertsCandidates(w) ==
  /\ sync[w].at = "candidates" /\ Goes(w, AfterNodes(w))
  /\ nodes' = nodes \cup sync[w].seen
  /\ UNCHANGED <<results, diagnosed, memoryFiles, loop, runNode, edges, deaths>>

UpsertsEdges(w) ==
  /\ sync[w].at = "edges" /\ Goes(w, "reports")
  /\ edges' = edges \cup sync[w].seen
  /\ UNCHANGED <<results, diagnosed, memoryFiles, loop, runNode, nodes, deaths>>

\* The events and the report; the engine's stage is completed.
Reports(w) ==
  /\ sync[w].at = "reports" /\ sync' = [sync EXCEPT ![w] = Off]
  /\ IF w = "engine" THEN loop' = "evaluation" /\ checkpoint' = "completed"
                     ELSE UNCHANGED <<loop, checkpoint>>
  /\ UNCHANGED <<results, diagnosed, triaged, evaluated, store, deaths>>

\* The store is locked, or a result file is torn: the stage fails and so does
\* the delivery that ran it.
MemoryFails ==
  /\ sync["engine"].at # "off" /\ Death
  /\ sync' = [sync EXCEPT !["engine"] = Off] /\ checkpoint' = "failed" /\ loop' = "idle"
  /\ UNCHANGED <<results, diagnosed, triaged, evaluated, store>>

EngineDies ==
  /\ loop # "idle" /\ Death
  /\ sync' = [sync EXCEPT !["engine"] = Off] /\ loop' = "idle"
  /\ UNCHANGED <<results, diagnosed, memoryFiles, store>>

WorkerEnds ==
  /\ sync["worker"].at # "off" /\ Death
  /\ sync' = [sync EXCEPT !["worker"] = Off]
  /\ UNCHANGED <<results, diagnosed, memoryFiles, loop, store>>

----------------------------------------------------------------------------
SyncStep(w) ==
  SyncBegins(w) \/ UpsertsRun(w) \/ UpsertsCandidates(w) \/ UpsertsEdges(w) \/ Reports(w)
LoopStep == DiagnosisStage \/ TriageStage \/ EvaluationStage \/ SyncStep("engine")

MemoryNext ==
  \/ \E r \in Rows : RowIsWritten(r)
  \/ LoopStep \/ SyncStep("worker")
  \/ MemoryFails \/ EngineDies \/ WorkerEnds

\* The closed loop is run again, and the worker goes on with what it began.
MemoryFairness == WF_memoryVars(LoopStep) /\ WF_memoryVars(SyncStep("worker"))
MemorySpec == MemoryInit /\ [][MemoryNext]_memoryVars /\ MemoryFairness

----------------------------------------------------------------------------
(* Properties                                                              *)

MemoryTypeOK ==
  /\ results \in [Rows -> States \cup {"none"}]
  /\ diagnosed \in [Rows \X States -> 0..CopyCap]
  /\ triaged \subseteq Rows \X States /\ evaluated \subseteq Rows \X States
  /\ loop \in {"idle", "triage", "memory", "evaluation"}
  /\ \A w \in Writers : sync[w].at \in {"off", "run", "candidates", "edges", "reports"}
  /\ checkpoint \in {"none", "running", "completed", "failed"}
  /\ edges \subseteq nodes /\ deaths \in 0..MaxDeaths

\* A memory stage that says completed has stored every candidate that its files
\* named, with its edge to the run, whatever an interrupted attempt or the
\* worker has left half written before.
MemoryIsWhole ==
  [][(checkpoint = "running" /\ checkpoint' = "completed")
       => sync["engine"].seen \subseteq nodes' \cap edges']_memoryVars

\* A good result comes to the evaluation and to the memory, and the memory
\* comes to tell what the run has spent and stays so, however the engine's copy
\* and the worker's older one interleave.
ResultsArrive ==
  /\ <>[](runNode = Spent)
  /\ \A r \in Rows : results[r] = "good" ~>
       <<r, "good">> \in evaluated /\ <<r, "alpha">> \in edges
=============================================================================
