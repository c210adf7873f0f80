-------------------------- MODULE ExtractionPipeline --------------------------
(***************************************************************************)
(* runPipeline() of the worker: discovery, then the tier 0 collectors and  *)
(* their gate, then tier 1 and tier 2 together and the tier 1 threshold,   *)
(* then post-processing, which ends with the normalized graph.  At most    *)
(* MaxConcurrency collectors are between their start and the end of their  *)
(* write (p-limit).  Every await is a step of its own.                     *)
(*                                                                         *)
(* A write is one transaction, retried when it fails; a failure does not   *)
(* tell whether the transaction was committed.  A transaction whose answer *)
(* is lost is taken to be decided before the next try begins, a second     *)
(* later.  A crash of the process is a matter of AssessmentRun.            *)
(* Every execute() is taken to end: its timeout aborts the requests it     *)
(* waits for.                                                              *)
(***************************************************************************)
EXTENDS Naturals, FiniteSets

CONSTANTS
  Discovery,             \* the collector of phase 1
  Tier0, Tier1, Tier2,   \* the other collectors
  MaxConcurrency,        \* MAX_CONCURRENCY
  WriteTries             \* tries of writeCollectorData()

Collector == {Discovery} \cup Tier0 \cup Tier1 \cup Tier2

ASSUME PipelineAssumption ==
  /\ IsFiniteSet(Collector)
  /\ Discovery \notin Tier0 \cup Tier1 \cup Tier2
  /\ Tier0 \cap Tier1 = {} /\ Tier0 \cap Tier2 = {} /\ Tier1 \cap Tier2 = {}
  /\ MaxConcurrency \in Nat \ {0}
  /\ WriteTries \in Nat \ {0}

VARIABLES
  phase,      \* where runPipeline() is
  job,        \* where runAndPersist() of each collector is
  result,     \* what run() of each collector returned
  try,        \* loop variable attempt of writeCollectorData()
  copies,     \* how often the collector's findings are in the database
  errors,     \* errors[] is not empty
  returned,   \* the status that runPipeline() returned
  run,        \* status of the run, as isCancelRequested() sees it
  shutdown,   \* shuttingDown
  lateStarts  \* history: how many began to extract after a SIGTERM

jobVars == <<job, result, try, copies>>
envVars == <<run, shutdown>>
vars == <<phase, jobVars, errors, returned, envVars, lateStarts>>

\* A collector that was skipped, or that noticed the cancellation or its timeout in
\* time to give up in an orderly way, returns "success" without any findings.
Results == {"success", "partial", "failed"}

\* The collectors that a phase runs.
Members(ph) == CASE ph = "discovery" -> {Discovery}
                 [] ph = "tier0"     -> Tier0
                 [] ph = "phase3"    -> Tier1 \cup Tier2
                 [] OTHER            -> {}

TypeOK ==
  /\ phase \in {"preflight", "discovery", "tier0", "phase3", "post", "normalize", "returned"}
  /\ job \in [Collector -> {"waiting", "checking", "executing", "writing", "done"}]
  /\ result \in [Collector -> Results \cup {"none"}]
  /\ try \in [Collector -> 0..(WriteTries - 1)]
  /\ copies \in [Collector -> Nat]
  /\ errors \in BOOLEAN
  /\ returned \in {"none", "completed", "completed_warnings", "failed"}
  /\ run \in {"running", "cancel_requested", "cancelled"}
  /\ shutdown \in BOOLEAN
  /\ lateStarts \in Nat

Init ==
  /\ phase = "preflight"
  /\ job = [c \in Collector |-> "waiting"]
  /\ result = [c \in Collector |-> "none"]
  /\ try = [c \in Collector |-> 0]
  /\ copies = [c \in Collector |-> 0]
  /\ errors = FALSE
  /\ returned = "none"
  /\ run = "running"
  /\ shutdown = FALSE
  /\ lateStarts = 0

Failed(S) == {c \in S : result[c] = "failed"}
InFlight  == {c \in Collector : job[c] \notin {"waiting", "done"}}
PhaseDone == \A c \in Members(phase) : job[c] = "done"

Goto(ph) == phase' = ph /\ UNCHANGED returned
Return(status) == phase' = "returned" /\ returned' = status

-----------------------------------------------------------------------------
(* One collector: run() and writeCollectorData().                          *)

JobGoto(c, pc) == job' = [job EXCEPT ![c] = pc]

Ran(c, r) ==
  /\ JobGoto(c, "writing")
  /\ result' = [result EXCEPT ![c] = r]

\* Mutant: only the cancellation is looked at.
StartAnyway(c) ==
  /\ c \in Members(phase)
  /\ job[c] = "waiting"
  /\ Cardinality(InFlight) < MaxConcurrency
  /\ JobGoto(c, "checking")
  /\ UNCHANGED <<phase, result, try, copies, errors, returned, envVars, lateStarts>>

\* run() up to its first await.  The shutdown flag is read once, before it.
Start(c) ==
  /\ c \in Members(phase)
  /\ job[c] = "waiting"
  /\ Cardinality(InFlight) < MaxConcurrency
  /\ IF shutdown THEN Ran(c, "success")
                 ELSE JobGoto(c, "checking") /\ UNCHANGED result
  /\ UNCHANGED <<phase, try, copies, errors, returned, envVars, lateStarts>>

\* isCancelRequested(); if it throws, the collector fails.
Check(c) ==
  /\ job[c] = "checking"
  /\ \/ /\ run = "cancel_requested"
        /\ Ran(c, "success")
        /\ UNCHANGED lateStarts
     \/ /\ Ran(c, "failed")
        /\ UNCHANGED lateStarts
     \/ /\ run # "cancel_requested"
        /\ JobGoto(c, "executing")
        /\ lateStarts' = IF shutdown THEN lateStarts + 1 ELSE lateStarts
        /\ UNCHANGED result
  /\ UNCHANGED <<phase, try, copies, errors, returned, envVars>>

\* execute() returns or throws.
Execute(c) ==
  /\ job[c] = "executing"
  /\ \E r \in Results : Ran(c, r)
  /\ UNCHANGED <<phase, try, copies, errors, returned, envVars, lateStarts>>

\* Mutant: the transaction does not delete first.
CommitWithoutDelete(c) == copies' = [copies EXCEPT ![c] = @ + 1]

\* The transaction replaces what the collector stored before.
Commit(c) == copies' = [copies EXCEPT ![c] = 1]

WriteEnds(c) ==
  /\ JobGoto(c, "done")
  /\ try' = [try EXCEPT ![c] = 0]

Write(c) ==
  /\ job[c] = "writing"
  /\ Commit(c)
  /\ WriteEnds(c)
  /\ UNCHANGED <<phase, result, errors, returned, envVars, lateStarts>>

\* Mutant: one try too many.
WriteFailsOnceMore(c) ==
  /\ job[c] = "writing"
  /\ Commit(c) \/ UNCHANGED copies
  /\ IF try[c] < WriteTries THEN /\ try' = [try EXCEPT ![c] = @ + 1]
                                 /\ UNCHANGED job
                            ELSE WriteEnds(c)
  /\ UNCHANGED <<phase, result, errors, returned, envVars, lateStarts>>

\* A try fails, committed or not.  After the last writeCollectorData() throws,
\* which runAndPersist() only logs.
WriteFails(c) ==
  /\ job[c] = "writing"
  /\ Commit(c) \/ UNCHANGED copies
  /\ IF try[c] < WriteTries - 1 THEN /\ try' = [try EXCEPT ![c] = @ + 1]
                                     /\ UNCHANGED job
                                ELSE WriteEnds(c)
  /\ UNCHANGED <<phase, result, errors, returned, envVars, lateStarts>>

CollectorStep(c) == Start(c) \/ Check(c) \/ Execute(c) \/ Write(c) \/ WriteFails(c)

-----------------------------------------------------------------------------
(* The phases.                                                             *)

\* A field-level-security query that fails is a warning.
Preflight ==
  /\ phase = "preflight"
  /\ errors' \in BOOLEAN
  /\ Goto("discovery")
  /\ UNCHANGED <<jobVars, envVars, lateStarts>>

DiscoveryGate ==
  /\ phase = "discovery" /\ PhaseDone
  /\ IF result[Discovery] = "failed" THEN Return("failed") ELSE Goto("tier0")
  /\ UNCHANGED <<jobVars, errors, envVars, lateStarts>>

\* Mutants: the gate opens on the first success; it opens when the collectors
\* have started (a Promise.all over promises that were not returned).
Tier0GateAny ==
  /\ phase = "tier0" /\ PhaseDone
  /\ IF Failed(Tier0) = Tier0 THEN Return("failed") ELSE Goto("phase3")
  /\ UNCHANGED <<jobVars, errors, envVars, lateStarts>>

Tier0GateEarly ==
  /\ phase = "tier0" /\ \A c \in Tier0 : job[c] # "waiting"
  /\ IF Failed(Tier0) # {} THEN Return("failed") ELSE Goto("phase3")
  /\ UNCHANGED <<jobVars, errors, envVars, lateStarts>>

Tier0Gate ==
  /\ phase = "tier0" /\ PhaseDone
  /\ IF Failed(Tier0) # {} THEN Return("failed") ELSE Goto("phase3")
  /\ UNCHANGED <<jobVars, errors, envVars, lateStarts>>

\* tier1SuccessRate < 0.5
BelowThreshold == 2 * Cardinality(Tier1 \ Failed(Tier1)) < Cardinality(Tier1)

Phase3Gate ==
  /\ phase = "phase3" /\ PhaseDone
  /\ IF BelowThreshold
       THEN Return("failed") /\ UNCHANGED errors
       ELSE /\ Goto("post")
            /\ errors' = (errors \/ Failed(Tier1 \cup Tier2) # {})
  /\ UNCHANGED <<jobVars, envVars, lateStarts>>

\* Plugin activation, relationships, metrics, validation, blueprint, summaries:
\* whatever fails becomes a warning, and nothing is written.
PostProcess ==
  /\ phase = "post"
  /\ errors' \in {errors, TRUE}
  /\ Goto("normalize")
  /\ UNCHANGED <<jobVars, envVars, lateStarts>>

\* runBB3(), whose failure is a warning, and writeIRGraph(), whose failure is only
\* logged; what it writes is not modelled.
Normalize ==
  /\ phase = "normalize"
  /\ errors' \in {errors, TRUE}
  /\ Return(IF errors' THEN "completed_warnings" ELSE "completed")
  /\ UNCHANGED <<jobVars, envVars, lateStarts>>

PipelineStep == \/ Preflight \/ DiscoveryGate \/ Tier0Gate \/ Phase3Gate
                \/ PostProcess \/ Normalize

-----------------------------------------------------------------------------
(* Surroundings.  A second cancel handler may turn the request into         *)
(* 'cancelled', which isCancelRequested() does not recognize.              *)

CancelRequested ==
  /\ run = "running" /\ run' = "cancel_requested"
  /\ UNCHANGED <<phase, jobVars, errors, returned, shutdown, lateStarts>>

Cancelled ==
  /\ run = "cancel_requested" /\ run' = "cancelled"
  /\ UNCHANGED <<phase, jobVars, errors, returned, shutdown, lateStarts>>

\* Only the flag: the callback that ends the process comes later.
Sigterm ==
  /\ ~shutdown /\ shutdown' = TRUE
  /\ UNCHANGED <<phase, jobVars, errors, returned, run, lateStarts>>

-----------------------------------------------------------------------------
\* The process leaves runPipeline().  With this step the absence of deadlock means
\* that the pipeline returns: every other step makes progress.
Terminated == phase = "returned" /\ UNCHANGED vars

Next ==
  \/ PipelineStep
  \/ \E c \in Collector : CollectorStep(c)
  \/ CancelRequested \/ Cancelled \/ Sigterm
  \/ Terminated

Spec == Init /\ [][Next]_vars

-----------------------------------------------------------------------------
(* Properties.                                                             *)

\* When runPipeline() has returned, no collector extracts or writes any more, so
\* the release of the run that follows publishes findings that stay as they are.
\* It holds because runAndPersist() never rejects: Promise.all() would return at
\* the first rejection and leave the other collectors writing.
NothingRunsAfterReturn == phase = "returned" => InFlight = {}

\* Phases are barriers: no collector starts before those it depends on have
\* ended, without failing, and have tried to store what they found.
PhasesAreBarriers ==
  \A c \in Collector : job[c] # "waiting" =>
    /\ c # Discovery => job[Discovery] = "done" /\ result[Discovery] # "failed"
    /\ c \in Tier1 \cup Tier2 =>
         \A t \in Tier0 : job[t] = "done" /\ result[t] # "failed"

\* What a completed status promises: every collector has run, no mandatory one
\* failed, half of the important ones did not, and a failure of any other is
\* visible as completed_warnings.
CompletedKeepsGates ==
  returned \in {"completed", "completed_warnings"} =>
    /\ \A c \in Collector : job[c] = "done"
    /\ Failed({Discovery} \cup Tier0) = {}
    /\ ~BelowThreshold
    /\ returned = "completed" => Failed(Collector) = {}

\* A write that is retried after it was committed does not double the findings;
\* what is stored is what a collector returned that has ended.
FindingsStoredOnce ==
  \A c \in Collector :
    /\ copies[c] <= 1
    /\ copies[c] = 1 => result[c] # "none" /\ job[c] \in {"writing", "done"}

\* After a SIGTERM the worker only finishes what it has begun: no more than
\* MaxConcurrency collectors, those that read the flag before, begin to extract.
ShutdownStopsExtraction == lateStarts <= MaxConcurrency
===============================================================================
