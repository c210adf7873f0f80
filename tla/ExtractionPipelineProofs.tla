----------------------- MODULE ExtractionPipelineProofs -----------------------
(***************************************************************************)
(* Proofs about ExtractionPipeline for all sets of collectors.  What the   *)
(* gates have established is carried by the phase: a phase is reached only *)
(* when the collectors of the phases before have ended, and those that are *)
(* mandatory have not failed.                                              *)
(***************************************************************************)
EXTENDS ExtractionPipeline, FiniteSetTheorems, TLAPS

Gated     == {"tier0", "phase3", "post", "normalize"}
Mandatory == {Discovery} \cup Tier0

\* What each phase knows.  A collector waits until its phase is reached.
DiscoveryKnown ==
  /\ phase = "preflight" => \A c \in Collector : job[c] = "waiting"
  /\ phase = "discovery" => \A c \in Collector \ {Discovery} : job[c] = "waiting"
  /\ phase \in Gated => job[Discovery] = "done" /\ result[Discovery] # "failed"

Tier0Known ==
  /\ phase = "tier0" => \A c \in Tier1 \cup Tier2 : job[c] = "waiting"
  /\ phase \in Gated \ {"tier0"} =>
       \A c \in Tier0 : job[c] = "done" /\ result[c] # "failed"

Phase3Known ==
  phase \in {"post", "normalize"} =>
    /\ \A c \in Collector : job[c] = "done"
    /\ ~BelowThreshold
    /\ ~errors => Failed(Tier1 \cup Tier2) = {}

ReturnedKnown ==
  /\ phase = "returned" <=> returned # "none"
  /\ phase = "returned" => \A c \in Collector : job[c] \in {"waiting", "done"}

Stored ==
  \A c \in Collector :
    /\ job[c] \in {"writing", "done"} <=> result[c] # "none"
    /\ copies[c] \in {0, 1}
    /\ copies[c] = 1 => job[c] \in {"writing", "done"}

\* Every collector that reads the flag too early is one of those in flight when it
\* is set.
Checking == {c \in Collector : job[c] = "checking"}

LateStarts ==
  /\ Cardinality(InFlight) <= MaxConcurrency
  /\ ~shutdown => lateStarts = 0
  /\ shutdown => lateStarts + Cardinality(Checking) <= MaxConcurrency

PhaseInv == /\ TypeOK /\ DiscoveryKnown /\ Tier0Known /\ Phase3Known
            /\ ReturnedKnown /\ Stored /\ PhasesAreBarriers /\ CompletedKeepsGates

IInv == PhaseInv /\ LateStarts

-----------------------------------------------------------------------------
LEMMA Collectors ==
  /\ IsFiniteSet(Collector)
  /\ Discovery \in Collector /\ Tier0 \subseteq Collector
  /\ Tier1 \subseteq Collector /\ Tier2 \subseteq Collector
  /\ \A ph : Members(ph) \subseteq Collector
  /\ MaxConcurrency \in Nat \ {0} /\ WriteTries \in Nat \ {0}
BY PipelineAssumption DEF Collector, Members

\* A collector step changes one collector, in a phase that runs collectors.
LEMMA OneCollector ==
  ASSUME PhaseInv, NEW c \in Collector, CollectorStep(c)
  PROVE  /\ phase \in {"discovery", "tier0", "phase3"}
         /\ UNCHANGED <<phase, errors, returned, run, shutdown>>
         /\ job[c] # "done"
         /\ job[c] = "waiting" => c \in Members(phase)
         /\ \E pc \in {"checking", "executing", "writing", "done"} : job' = [job EXCEPT ![c] = pc]
         /\ \E r \in Results \cup {"none"} : result' = [result EXCEPT ![c] = r]
         /\ \E k \in {0, 1} : copies' = [copies EXCEPT ![c] = k]
         /\ \E t \in 0..(WriteTries - 1) : try' = [try EXCEPT ![c] = t]
         /\ lateStarts' \in Nat
<1> USE DEF PhaseInv, TypeOK
<1>1. job[c] # "done" /\ (job[c] = "waiting" => c \in Members(phase))
  BY DEF CollectorStep, Start, Check, Execute, Write, WriteFails
<1>2. phase \in {"discovery", "tier0", "phase3"}
  BY <1>1 DEF Members, DiscoveryKnown, Phase3Known, ReturnedKnown
<1>3. UNCHANGED <<phase, errors, returned, run, shutdown>>
  BY DEF CollectorStep, Start, Check, Execute, Write, WriteFails, envVars
<1>4. result[c] \in Results \cup {"none"} /\ copies[c] \in {0, 1}
      /\ try[c] \in 0..(WriteTries - 1) /\ 0 \in 0..(WriteTries - 1)
  BY Collectors DEF Stored
<1>5. result = [result EXCEPT ![c] = result[c]] /\ copies = [copies EXCEPT ![c] = copies[c]]
      /\ try = [try EXCEPT ![c] = try[c]] /\ job = [job EXCEPT ![c] = job[c]]
  OBVIOUS
<1>6. CASE Start(c)
  BY <1>1, <1>2, <1>3, <1>4, <1>5, <1>6 DEF Start, Ran, JobGoto, Results
<1>7. CASE Check(c)
  BY <1>1, <1>2, <1>3, <1>4, <1>5, <1>7 DEF Check, Ran, JobGoto, Results
<1>8. CASE Execute(c)
  BY <1>1, <1>2, <1>3, <1>4, <1>5, <1>8 DEF Execute, Ran, JobGoto, Results
<1>9. CASE Write(c)
  BY <1>1, <1>2, <1>3, <1>4, <1>5, <1>9 DEF Write, WriteEnds, Commit, JobGoto
<1>10. CASE WriteFails(c)
  <2>1. CASE try[c] < WriteTries - 1
    <3>1. try' = [try EXCEPT ![c] = try[c] + 1] /\ UNCHANGED <<job, result, lateStarts>>
      BY <1>10, <2>1 DEF WriteFails
    <3>2. try[c] + 1 \in 0..(WriteTries - 1)
      BY <1>4, <2>1, Collectors
    <3>3. \E k \in {0, 1} : copies' = [copies EXCEPT ![c] = k]
      BY <1>4, <1>5, <1>10 DEF WriteFails, Commit
    <3>4. job[c] = "writing"
      BY <1>10 DEF WriteFails
    <3> QED
      BY <1>1, <1>2, <1>3, <1>4, <1>5, <3>1, <3>2, <3>3, <3>4
  <2>2. CASE ~(try[c] < WriteTries - 1)
    BY <1>1, <1>2, <1>3, <1>4, <1>5, <1>10, <2>2 DEF WriteFails, WriteEnds, Commit, JobGoto
  <2> QED
    BY <2>1, <2>2
<1> QED
  BY <1>1, <1>2, <1>3, <1>6, <1>7, <1>8, <1>9, <1>10 DEF CollectorStep

LEMMA InitInvariant == Init => IInv
<1> SUFFICES ASSUME Init PROVE IInv
  OBVIOUS
<1>1. TypeOK
  <2>1. 0 \in 0..(WriteTries - 1)
    BY Collectors
  <2> QED
    BY <2>1 DEF Init, TypeOK
<1>2. InFlight = {} /\ Checking = {}
  BY DEF Init, InFlight, Checking
<1>3. LateStarts
  BY <1>2, FS_EmptySet, Collectors DEF Init, LateStarts
<1>4. DiscoveryKnown /\ Tier0Known /\ Phase3Known /\ ReturnedKnown /\ Stored
      /\ PhasesAreBarriers /\ CompletedKeepsGates
  BY Collectors DEF Init, DiscoveryKnown, Tier0Known, Phase3Known, ReturnedKnown, Stored,
     PhasesAreBarriers, CompletedKeepsGates, Gated
<1> QED
  BY <1>1, <1>3, <1>4 DEF IInv, PhaseInv

-----------------------------------------------------------------------------
(* Steps of a collector.                                                   *)

LEMMA CollectorKeepsPhaseInv ==
  ASSUME PhaseInv, NEW c \in Collector, CollectorStep(c)
  PROVE  PhaseInv'
<1>0. PICK pc \in {"checking", "executing", "writing", "done"} : job' = [job EXCEPT ![c] = pc]
  BY OneCollector
<1>r. PICK r \in Results \cup {"none"} : result' = [result EXCEPT ![c] = r]
  BY OneCollector
<1>k. PICK k \in {0, 1} : copies' = [copies EXCEPT ![c] = k]
  BY OneCollector
<1>t. PICK t \in 0..(WriteTries - 1) : try' = [try EXCEPT ![c] = t]
  BY OneCollector
<1>p. /\ phase \in {"discovery", "tier0", "phase3"}
      /\ UNCHANGED <<phase, errors, returned, run, shutdown>>
      /\ job[c] # "done" /\ (job[c] = "waiting" => c \in Members(phase))
      /\ lateStarts' \in Nat
  BY OneCollector
<1>o. /\ \A d \in Collector : job[d] = "done" => d # c /\ job'[d] = "done" /\ result'[d] = result[d]
      /\ \A d \in Collector : d # c => job'[d] = job[d]
  BY <1>0, <1>r, <1>p DEF PhaseInv, TypeOK
<1>1. TypeOK'
  BY <1>0, <1>r, <1>k, <1>t, <1>p DEF PhaseInv, TypeOK
<1>2. DiscoveryKnown'
  BY <1>p, <1>o, Collectors DEF PhaseInv, DiscoveryKnown, Gated, Members
<1>3. Tier0Known'
  BY <1>p, <1>o, Collectors, PipelineAssumption DEF PhaseInv, Tier0Known, Gated, Members
<1>4. Phase3Known' /\ ReturnedKnown' /\ CompletedKeepsGates'
  BY <1>p DEF PhaseInv, Phase3Known, ReturnedKnown, CompletedKeepsGates
<1>5. Stored'
  <2> SUFFICES ASSUME NEW d \in Collector
               PROVE  /\ job'[d] \in {"writing", "done"} <=> result'[d] # "none"
                      /\ copies'[d] \in {0, 1}
                      /\ copies'[d] = 1 => job'[d] \in {"writing", "done"}
    BY DEF Stored
  <2> USE DEF PhaseInv, TypeOK, Stored
  <2>1. CASE d # c
    BY <2>1, <1>0, <1>r, <1>k
  <2>2. CASE d = c
    <3>1. CASE Start(c)
      BY <2>2, <3>1 DEF Start, Ran, JobGoto
    <3>2. CASE Check(c)
      BY <2>2, <3>2 DEF Check, Ran, JobGoto
    <3>3. CASE Execute(c)
      BY <2>2, <3>3 DEF Execute, Ran, JobGoto, Results
    <3>4. CASE Write(c)
      BY <2>2, <3>4 DEF Write, WriteEnds, Commit, JobGoto
    <3>5. CASE WriteFails(c)
      BY <2>2, <3>5 DEF WriteFails, WriteEnds, Commit, JobGoto
    <3> QED
      BY <3>1, <3>2, <3>3, <3>4, <3>5 DEF CollectorStep
  <2> QED
    BY <2>1, <2>2
<1>6. PhasesAreBarriers'
  <2> SUFFICES ASSUME NEW d \in Collector, job'[d] # "waiting"
               PROVE  /\ d # Discovery => job'[Discovery] = "done" /\ result'[Discovery] # "failed"
                      /\ d \in Tier1 \cup Tier2 =>
                           \A t0 \in Tier0 : job'[t0] = "done" /\ result'[t0] # "failed"
    BY DEF PhasesAreBarriers
  <2>1. CASE job[d] # "waiting"
    BY <2>1, <1>o, Collectors DEF PhaseInv, PhasesAreBarriers
  <2>2. CASE job[d] = "waiting"
    <3>1. d = c /\ c \in Members(phase)
      BY <2>2, <1>o, <1>p
    <3>2. c # Discovery => phase \in Gated
      BY <3>1, <1>p DEF Members, Gated
    <3>3. c \in Tier1 \cup Tier2 => phase \in Gated \ {"tier0"}
      BY <3>1, <1>p, PipelineAssumption DEF Members, Gated
    <3> QED
      BY <3>1, <3>2, <3>3, <1>o, Collectors DEF PhaseInv, DiscoveryKnown, Tier0Known
  <2> QED
    BY <2>1, <2>2
<1> QED
  BY <1>1, <1>2, <1>3, <1>4, <1>5, <1>6 DEF PhaseInv

-----------------------------------------------------------------------------
(* Steps of the pipeline and of its surroundings.                          *)

LEMMA PipelineKeepsPhaseInv ==
  ASSUME PhaseInv, PipelineStep
  PROVE  PhaseInv'
<1> USE DEF PhaseInv
<1>1. UNCHANGED <<job, result, try, copies, run, shutdown, lateStarts>>
  BY DEF PipelineStep, Preflight, DiscoveryGate, Tier0Gate, Phase3Gate, PostProcess, Normalize,
     jobVars, envVars
<1>2. Stored' /\ PhasesAreBarriers' /\ (BelowThreshold' <=> BelowThreshold)
      /\ \A S : Failed(S)' = Failed(S)
  BY <1>1 DEF Stored, PhasesAreBarriers, BelowThreshold, Failed
<1>3. CASE Preflight
  <2>1. phase = "preflight" /\ phase' = "discovery" /\ UNCHANGED returned /\ errors' \in BOOLEAN
    BY <1>3 DEF Preflight, Goto
  <2> QED
    BY <1>1, <1>2, <2>1 DEF TypeOK, DiscoveryKnown, Tier0Known, Phase3Known, ReturnedKnown,
       CompletedKeepsGates, Gated
<1>4. CASE DiscoveryGate
  <2>1. phase = "discovery" /\ UNCHANGED errors /\ job[Discovery] = "done"
    BY <1>4 DEF DiscoveryGate, PhaseDone, Members
  <2>2. CASE result[Discovery] = "failed"
    <3>1. phase' = "returned" /\ returned' = "failed"
      BY <1>4, <2>2 DEF DiscoveryGate, Return
    <3> QED
      BY <1>1, <1>2, <2>1, <3>1 DEF TypeOK, DiscoveryKnown, Tier0Known, Phase3Known,
         ReturnedKnown, CompletedKeepsGates, Gated
  <2>3. CASE result[Discovery] # "failed"
    <3>1. phase' = "tier0" /\ UNCHANGED returned
      BY <1>4, <2>3 DEF DiscoveryGate, Goto
    <3> QED
      BY <1>1, <1>2, <2>1, <2>3, <3>1, Collectors, PipelineAssumption
      DEF TypeOK, DiscoveryKnown, Tier0Known, Phase3Known, ReturnedKnown,
          CompletedKeepsGates, Gated
  <2> QED
    BY <2>2, <2>3
<1>5. CASE Tier0Gate
  <2>1. phase = "tier0" /\ UNCHANGED errors /\ \A c \in Tier0 : job[c] = "done"
    BY <1>5 DEF Tier0Gate, PhaseDone, Members
  <2>2. CASE Failed(Tier0) # {}
    <3>1. phase' = "returned" /\ returned' = "failed"
      BY <1>5, <2>2 DEF Tier0Gate, Return
    <3>2. \A c \in Collector : job[c] \in {"waiting", "done"}
      BY <2>1 DEF DiscoveryKnown, Tier0Known, Gated, Collector
    <3> QED
      BY <1>1, <1>2, <2>1, <3>1, <3>2 DEF TypeOK, DiscoveryKnown, Tier0Known, Phase3Known,
         ReturnedKnown, CompletedKeepsGates, Gated
  <2>3. CASE Failed(Tier0) = {}
    <3>1. phase' = "phase3" /\ UNCHANGED returned
      BY <1>5, <2>3 DEF Tier0Gate, Goto
    <3>2. \A c \in Tier0 : result[c] # "failed"
      BY <2>3 DEF Failed
    <3> QED
      BY <1>1, <1>2, <2>1, <3>1, <3>2
      DEF TypeOK, DiscoveryKnown, Tier0Known, Phase3Known, ReturnedKnown,
          CompletedKeepsGates, Gated
  <2> QED
    BY <2>2, <2>3
<1>6. CASE Phase3Gate
  <2>1. phase = "phase3" /\ \A c \in Tier1 \cup Tier2 : job[c] = "done"
    BY <1>6 DEF Phase3Gate, PhaseDone, Members
  <2>2. \A c \in Collector : job[c] = "done"
    BY <2>1 DEF DiscoveryKnown, Tier0Known, Gated, Collector
  <2>3. CASE BelowThreshold
    <3>1. phase' = "returned" /\ returned' = "failed" /\ UNCHANGED errors
      BY <1>6, <2>3 DEF Phase3Gate, Return
    <3> QED
      BY <1>1, <1>2, <2>2, <3>1 DEF TypeOK, DiscoveryKnown, Tier0Known, Phase3Known,
         ReturnedKnown, CompletedKeepsGates, Gated
  <2>4. CASE ~BelowThreshold
    <3>1. /\ phase' = "post" /\ UNCHANGED returned
          /\ errors' = (errors \/ Failed(Tier1 \cup Tier2) # {})
      BY <1>6, <2>4 DEF Phase3Gate, Goto
    <3> QED
      BY <1>1, <1>2, <2>1, <2>2, <2>4, <3>1
      DEF TypeOK, DiscoveryKnown, Tier0Known, Phase3Known, ReturnedKnown,
          CompletedKeepsGates, Gated
  <2> QED
    BY <2>3, <2>4
<1>7. CASE PostProcess
  <2>1. phase = "post" /\ phase' = "normalize" /\ UNCHANGED returned
        /\ errors' \in {errors, TRUE}
    BY <1>7 DEF PostProcess, Goto
  <2> QED
    BY <1>1, <1>2, <2>1 DEF TypeOK, DiscoveryKnown, Tier0Known, Phase3Known, ReturnedKnown,
       CompletedKeepsGates, Gated
<1>8. CASE Normalize
  <2>1. /\ phase = "normalize" /\ phase' = "returned" /\ errors' \in {errors, TRUE}
        /\ returned' = IF errors' THEN "completed_warnings" ELSE "completed"
    BY <1>8 DEF Normalize, Return
  <2>2. /\ \A c \in Collector : job[c] = "done"
        /\ Failed({Discovery} \cup Tier0) = {} /\ ~BelowThreshold
    BY <2>1 DEF DiscoveryKnown, Tier0Known, Phase3Known, Gated, Failed
  <2>3. returned' = "completed" => Failed(Collector) = {}
    BY <2>1, <2>2 DEF Phase3Known, TypeOK, Failed, Collector
  <2>4. CompletedKeepsGates'
    BY <1>1, <1>2, <2>2, <2>3 DEF CompletedKeepsGates
  <2> QED
    BY <1>1, <1>2, <2>1, <2>2, <2>4 DEF TypeOK, DiscoveryKnown, Tier0Known, Phase3Known,
       ReturnedKnown, Gated
<1> QED
  BY <1>3, <1>4, <1>5, <1>6, <1>7, <1>8 DEF PipelineStep

LEMMA SurroundingsKeepPhaseInv ==
  ASSUME PhaseInv, CancelRequested \/ Cancelled \/ Sigterm \/ UNCHANGED vars
  PROVE  PhaseInv'
<1>1. /\ UNCHANGED <<phase, job, result, try, copies, errors, returned, lateStarts>>
      /\ run' \in {"running", "cancel_requested", "cancelled"} /\ shutdown' \in BOOLEAN
  BY DEF PhaseInv, TypeOK, CancelRequested, Cancelled, Sigterm, vars, jobVars, envVars
<1>2. BelowThreshold' <=> BelowThreshold
  BY <1>1 DEF BelowThreshold, Failed
<1> QED
  BY <1>1, <1>2 DEF PhaseInv, TypeOK, DiscoveryKnown, Tier0Known, Phase3Known, ReturnedKnown,
     Stored, PhasesAreBarriers, CompletedKeepsGates, Failed

-----------------------------------------------------------------------------
(* The bound on the collectors that start after a SIGTERM.                 *)

LEMMA FiniteInFlight ==
  /\ IsFiniteSet(InFlight) /\ IsFiniteSet(Checking)
  /\ Cardinality(InFlight) \in Nat /\ Cardinality(Checking) \in Nat
  /\ Cardinality(Checking) <= Cardinality(InFlight)
<1>1. InFlight \subseteq Collector /\ Checking \subseteq InFlight
  BY DEF InFlight, Checking
<1> QED
  BY <1>1, Collectors, FS_Subset, FS_CardinalityType

LEMMA CollectorKeepsLateStarts ==
  ASSUME PhaseInv, LateStarts, NEW c \in Collector, CollectorStep(c)
  PROVE  LateStarts'
<1> USE DEF PhaseInv, TypeOK
<1>1. CASE Start(c)
  <2>1. Cardinality(InFlight) < MaxConcurrency /\ job[c] = "waiting"
        /\ UNCHANGED <<shutdown, lateStarts>>
    BY <1>1 DEF Start, envVars
  <2>2. InFlight' = InFlight \cup {c}
    BY <1>1 DEF Start, Ran, JobGoto, InFlight
  <2>3. Cardinality(InFlight') <= MaxConcurrency
    <3>1. Cardinality(InFlight \cup {c}) <= Cardinality(InFlight) + 1
      <4>1. c \notin InFlight
        BY <2>1 DEF InFlight
      <4>2. Cardinality(InFlight \cup {c}) = Cardinality(InFlight) + 1
        <5> HIDE DEF PhaseInv, TypeOK
        <5> QED BY <4>1, FiniteInFlight, FS_AddElement
      <4> QED
        BY <4>2, FiniteInFlight
    <3>2. Cardinality(InFlight) + 1 <= MaxConcurrency
      BY <2>1, FiniteInFlight, Collectors
    <3>3. Cardinality(InFlight \cup {c}) \in Nat
      BY FiniteInFlight, FS_AddElement, FS_CardinalityType
    <3> QED
      BY <2>2, <3>1, <3>2, <3>3, FiniteInFlight, Collectors
  <2>4. shutdown => Checking' = Checking
    BY <1>1 DEF Start, Ran, JobGoto, Checking
  <2> QED
    BY <2>1, <2>3, <2>4 DEF LateStarts
<1>2. CASE Check(c)
  <2>1. c \in Checking /\ UNCHANGED shutdown
    BY <1>2 DEF Check, envVars, Checking
  <2>2. Checking' = Checking \ {c}
    BY <1>2 DEF Check, Ran, JobGoto, Checking
  <2>3. InFlight' = InFlight
    BY <1>2 DEF Check, Ran, JobGoto, InFlight
  <2>4. Cardinality(Checking') = Cardinality(Checking) - 1
    BY <2>1, <2>2, FiniteInFlight, FS_RemoveElement
  <2>5. lateStarts' \in Nat /\ (~shutdown => lateStarts' = lateStarts)
        /\ lateStarts' <= lateStarts + 1
    BY <1>2 DEF Check
  <2> QED
    BY <2>1, <2>3, <2>4, <2>5, FiniteInFlight, Collectors DEF LateStarts
<1>3. CASE Execute(c) \/ Write(c) \/ WriteFails(c)
  <2>1. UNCHANGED <<shutdown, lateStarts>>
    BY <1>3 DEF Execute, Write, WriteFails, envVars
  <2>2. Checking' = Checking
    BY <1>3 DEF Execute, Write, WriteFails, WriteEnds, Ran, JobGoto, Checking
  <2>3. InFlight' \subseteq InFlight
    BY <1>3 DEF Execute, Write, WriteFails, WriteEnds, Ran, JobGoto, InFlight
  <2>4. Cardinality(InFlight') <= Cardinality(InFlight) /\ Cardinality(InFlight') \in Nat
    BY <2>3, FiniteInFlight, FS_Subset, FS_CardinalityType
  <2> QED
    BY <2>1, <2>2, <2>4, FiniteInFlight, Collectors DEF LateStarts
<1> QED
  BY <1>1, <1>2, <1>3 DEF CollectorStep

LEMMA OthersKeepLateStarts ==
  ASSUME PhaseInv, LateStarts,
         PipelineStep \/ CancelRequested \/ Cancelled \/ Sigterm \/ UNCHANGED vars
  PROVE  LateStarts'
<1>1. UNCHANGED <<job, lateStarts>>
  BY DEF PipelineStep, Preflight, DiscoveryGate, Tier0Gate, Phase3Gate, PostProcess, Normalize,
     CancelRequested, Cancelled, Sigterm, vars, jobVars, envVars
<1>2. InFlight' = InFlight /\ Checking' = Checking
  BY <1>1 DEF InFlight, Checking
<1>3. CASE Sigterm
  BY <1>1, <1>2, <1>3, FiniteInFlight, Collectors DEF Sigterm, LateStarts
<1>4. CASE UNCHANGED shutdown
  BY <1>1, <1>2, <1>4 DEF LateStarts
<1>5. Sigterm \/ UNCHANGED shutdown
  BY DEF PipelineStep, Preflight, DiscoveryGate, Tier0Gate, Phase3Gate, PostProcess, Normalize,
     CancelRequested, Cancelled, vars, envVars
<1> QED
  BY <1>3, <1>4, <1>5

-----------------------------------------------------------------------------
LEMMA NextInvariant == IInv /\ [Next]_vars => IInv'
<1> SUFFICES ASSUME IInv, [Next]_vars PROVE IInv'
  OBVIOUS
<1>1. CASE \E c \in Collector : CollectorStep(c)
  BY <1>1, CollectorKeepsPhaseInv, CollectorKeepsLateStarts DEF IInv
<1>2. CASE PipelineStep
  BY <1>2, PipelineKeepsPhaseInv, OthersKeepLateStarts DEF IInv
<1>3. CASE CancelRequested \/ Cancelled \/ Sigterm \/ UNCHANGED vars
  BY <1>3, SurroundingsKeepPhaseInv, OthersKeepLateStarts DEF IInv
<1> QED
  BY <1>1, <1>2, <1>3 DEF Next, Terminated

\* The inductive invariant holds in every reachable state.
THEOREM PipelineInvariant == Spec => []IInv
BY InitInvariant, NextInvariant, PTL DEF Spec

\* Every variable keeps its range, for every set of collectors.
THEOREM PipelineTypeCorrect == Spec => []TypeOK
<1>1. IInv => TypeOK
  BY DEF IInv, PhaseInv
<1> QED
  BY <1>1, PipelineInvariant, PTL

\* When runPipeline() has returned, nothing extracts or writes any more.
THEOREM PipelineQuietAfterReturn == Spec => []NothingRunsAfterReturn
<1>1. IInv => NothingRunsAfterReturn
  BY DEF IInv, PhaseInv, ReturnedKnown, NothingRunsAfterReturn, InFlight
<1> QED
  BY <1>1, PipelineInvariant, PTL

\* No collector starts before those it depends on have ended without failing.
THEOREM PipelineBarriers == Spec => []PhasesAreBarriers
<1>1. IInv => PhasesAreBarriers
  BY DEF IInv, PhaseInv
<1> QED
  BY <1>1, PipelineInvariant, PTL

\* A completed status means that every gate of runPipeline() was passed.
THEOREM PipelineCompletedKeepsGates == Spec => []CompletedKeepsGates
<1>1. IInv => CompletedKeepsGates
  BY DEF IInv, PhaseInv
<1> QED
  BY <1>1, PipelineInvariant, PTL

\* A retried write does not store the findings of a collector twice.
THEOREM PipelineStoresOnce == Spec => []FindingsStoredOnce
<1>1. IInv => FindingsStoredOnce
  BY DEF IInv, PhaseInv, Stored, FindingsStoredOnce
<1> QED
  BY <1>1, PipelineInvariant, PTL

\* After a SIGTERM at most MaxConcurrency collectors begin to extract.
THEOREM PipelineShutdown == Spec => []ShutdownStopsExtraction
<1>1. IInv => ShutdownStopsExtraction
  BY FiniteInFlight, Collectors DEF IInv, PhaseInv, TypeOK, LateStarts, ShutdownStopsExtraction
<1> QED
  BY <1>1, PipelineInvariant, PTL
===============================================================================
