------------------------- MODULE AssessmentRunProofs -------------------------
(***************************************************************************)
(* Proofs about AssessmentRun for any number of runs, projects, handlers   *)
(* and restarts.  The safety properties are not inductive alone: they need *)
(* that a handler which inserts, dispatches or launches a run is the only  *)
(* one holding it, and that no container has been started for that run.    *)
(***************************************************************************)
EXTENDS AssessmentRun, TLAPS

\* A handler is idle iff it holds no row, and no two handlers hold the same.
TriggersHoldDistinctRows ==
  /\ \A t \in TriggerReq : trigger[t].run = NoRun <=> trigger[t] = IdleTrigger
  /\ \A t, u \in TriggerReq :
       trigger[t].run = trigger[u].run /\ trigger[t].run # NoRun => t = u

\* The row a handler is about to insert does not exist; the row it has inserted
\* and not launched has no container.
HeldRowsAreFresh ==
  \A t \in TriggerReq :
    /\ trigger[t].pc \in {"orgChecked", "capChecked", "allowed"}
         => status[trigger[t].run] = "absent"
    /\ trigger[t].pc \in {"inserted", "dispatched"}
         => /\ status[trigger[t].run] # "absent"
            /\ container[trigger[t].run] = "none"

\* Containers exist for inserted rows only, and each has a number.
ContainersAreNumbered ==
  \A r \in Run :
    /\ status[r] = "absent" => container[r] = "none"
    /\ container[r] # "none" => started[r] # 0

\* A cancel handler works on a row it has read.
CancelsNameRows ==
  \A c \in CancelReq : cancel[c].run \in Run => status[cancel[c].run] # "absent"

IInv ==
  /\ TypeOK
  /\ TriggersHoldDistinctRows
  /\ HeldRowsAreFresh
  /\ ContainersAreNumbered
  /\ OneUnfinishedRunPerProject
  /\ RunningRowsAreLeased
  /\ CompletedRunIsQuiet

-----------------------------------------------------------------------------
(* Typing.                                                                 *)

LEMMA InitTyped == Init => TypeOK
BY RunAssumption
DEF Init, TypeOK, Status, Leases, Outcomes, Containers, TriggerPcs, Statements,
    IdleTrigger, IdleCancel

TriggerTypeOK == trigger \in [TriggerReq -> [pc : TriggerPcs, run : Run \cup {NoRun}]]

LEMMA TriggerMoveTyped ==
  ASSUME TriggerTypeOK, NEW t \in TriggerReq
  PROVE  /\ TriggerEnds(t) => TriggerTypeOK'
         /\ \A pc \in TriggerPcs : TriggerGoto(t, pc) => TriggerTypeOK'
BY DEF TriggerTypeOK, TriggerEnds, TriggerGoto, IdleTrigger, TriggerPcs

LEMMA TriggerTyped ==
  ASSUME TypeOK, NEW t \in TriggerReq,
         TriggerStep(t) \/ \E r \in Run : TriggerCheckOrg(t, r)
  PROVE  TypeOK'
<1>1. TriggerTypeOK
  BY DEF TypeOK, TriggerTypeOK
<1>2. TriggerEnds(t) => TriggerTypeOK'
  BY <1>1, TriggerMoveTyped
<1>3. \A pc \in TriggerPcs : TriggerGoto(t, pc) => TriggerTypeOK'
  BY <1>1, TriggerMoveTyped
<1>4. ASSUME NEW r \in Run, TriggerCheckOrg(t, r) PROVE TypeOK'
  <2>1. TriggerTypeOK'
    BY <1>1, <1>4 DEF TriggerCheckOrg, TriggerTypeOK, TriggerPcs
  <2>2. QED
    BY <1>4, <2>1 DEF TriggerCheckOrg, TriggerTypeOK, TypeOK, rowVars, attVars, procVars
<1>5. ASSUME TriggerCheckCap(t) \/ TriggerCheckRate(t) \/ TriggerAborts(t) PROVE TypeOK'
  <2>1. TriggerTypeOK'
    BY <1>2, <1>3, <1>5 DEF TriggerCheckCap, TriggerCheckRate, TriggerAborts, TriggerPcs
  <2>2. UNCHANGED <<rowVars, attVars, procVars, cancel, sweep>>
    BY <1>5 DEF TriggerCheckCap, TriggerCheckRate, TriggerAborts
  <2>3. QED
    BY <2>1, <2>2 DEF TriggerTypeOK, TypeOK, rowVars, attVars, procVars
<1>6. CASE TriggerInsert(t)
  <2>1. TriggerTypeOK'
    BY <1>2, <1>3, <1>6 DEF TriggerInsert, TriggerPcs
  <2>2. status' \in [Run -> Status \cup {"absent"}] /\ recent' \in [Run -> BOOLEAN]
    BY <1>6 DEF TriggerInsert, TypeOK, Status
  <2>3. UNCHANGED <<worker, lease, retryCount, coldLate, normalization,
                    attVars, procVars, cancel, sweep>>
    BY <1>6 DEF TriggerInsert
  <2>4. QED
    BY <2>1, <2>2, <2>3 DEF TriggerTypeOK, TypeOK, attVars, procVars
<1>7. CASE TriggerDispatch(t)
  <2>1. TriggerTypeOK'
    BY <1>2, <1>3, <1>7 DEF TriggerDispatch, TriggerPcs
  <2>2. status' \in [Run -> Status \cup {"absent"}]
    BY <1>7 DEF TriggerDispatch, TypeOK, Status
  <2>3. UNCHANGED <<worker, lease, retryCount, recent, coldLate, normalization,
                    attVars, procVars, cancel, sweep>>
    BY <1>7 DEF TriggerDispatch
  <2>4. QED
    BY <2>1, <2>2, <2>3 DEF TriggerTypeOK, TypeOK, attVars, procVars
<1>8. CASE TriggerLaunch(t)
  <2>1. TriggerTypeOK'
    BY <1>2, <1>8 DEF TriggerLaunch
  <2>2. /\ container' \in [Run -> Containers]
        /\ started' \in [Run -> 0..(JobRetries + 1)]
    BY <1>8, RunAssumption DEF TriggerLaunch, TypeOK, Containers
  <2>3. UNCHANGED <<rowVars, attVars, outcome, sigterm, cancel, sweep>>
    BY <1>8 DEF TriggerLaunch
  <2>4. QED
    BY <2>1, <2>2, <2>3 DEF TriggerTypeOK, TypeOK, rowVars, attVars
<1>9. QED
  BY <1>4, <1>5, <1>6, <1>7, <1>8 DEF TriggerStep

LEMMA CancelTyped ==
  ASSUME TypeOK, NEW c \in CancelReq,
         CancelWrite(c) \/ \E r \in Run : CancelRead(c, r)
  PROVE  TypeOK'
<1> USE RunAssumption DEF TypeOK, rowVars, attVars, procVars
<1>1. ASSUME NEW r \in Run, CancelRead(c, r) PROVE TypeOK'
  BY <1>1 DEF CancelRead
<1>2. CASE CancelWrite(c)
  <2>1. CancelTarget(cancel[c].seen) \in Status
    BY DEF CancelTarget, Status, Terminal
  <2>2. IdleCancel \in [run : Run \cup {NoRun}, seen : Status]
    BY DEF IdleCancel, Status
  <2>3. QED
    BY <1>2, <2>1, <2>2 DEF CancelWrite
<1>3. QED
  BY <1>1, <1>2

LEMMA ReleaseTyped ==
  ASSUME TypeOK, NEW r \in Run, NEW final \in Outcomes, ReleaseLease(r, final)
  PROVE  /\ status' \in [Run -> Status \cup {"absent"}]
         /\ worker' \in [Run -> 0..(JobRetries + 1)]
         /\ lease' \in [Run -> Leases]
<1>1. Outcomes \subseteq Status
  BY DEF Outcomes, Status, Terminal
<1>2. 0 \in 0..(JobRetries + 1) /\ "null" \in Leases
  BY RunAssumption DEF Leases
<1>3. QED
  BY <1>1, <1>2 DEF TypeOK, ReleaseLease

LEMMA WorkerTyped ==
  ASSUME TypeOK, NEW r \in Run, WorkerStep(r)
  PROVE  TypeOK'
<1> USE RunAssumption DEF TypeOK, rowVars, attVars, procVars, ContainerGoto, Containers
<1>1. CASE Claim(r)
  BY <1>1 DEF Claim, Status, Leases
<1>2. CASE ClaimFails(r)
  BY <1>2 DEF ClaimFails, ExitWith1
<1>3. CASE CreateAttempt(r)
  BY <1>3 DEF CreateAttempt
<1>4. CASE PipelineReturns(r)
  BY <1>4 DEF PipelineReturns
<1>5. CASE Release(r)
  BY <1>5, ReleaseTyped DEF Release
<1>6. CASE CloseAttempt(r)
  BY <1>6 DEF CloseAttempt
<1>7. CASE SigtermShutdown(r)
  BY <1>7, ReleaseTyped DEF SigtermShutdown, ExitWith1, Outcomes
<1>8. QED
  BY <1>1, <1>2, <1>3, <1>4, <1>5, <1>6, <1>7 DEF WorkerStep

LEMMA ContainerTyped ==
  ASSUME TypeOK, NEW r \in Run,
         RenewLease(r) \/ LeaseLost(r) \/ Sigterm(r) \/ Crash(r) \/ Restart(r)
  PROVE  TypeOK'
<1> USE RunAssumption DEF TypeOK, rowVars, attVars, procVars, ContainerGoto, Containers
<1>1. CASE RenewLease(r)
  BY <1>1 DEF RenewLease, Leases
<1>2. CASE LeaseLost(r)
  BY <1>2 DEF LeaseLost, ExitWith1
<1>3. CASE Sigterm(r)
  BY <1>3 DEF Sigterm
<1>4. CASE Crash(r)
  BY <1>4 DEF Crash, ExitWith1
<1>5. CASE Restart(r)
  BY <1>5 DEF Restart
<1>6. QED
  BY <1>1, <1>2, <1>3, <1>4, <1>5

LEMMA TimeTyped ==
  ASSUME TypeOK, NEW r \in Run, TimePasses(r)
  PROVE  TypeOK'
BY DEF TypeOK, rowVars, attVars, procVars, TimePasses, LeaseAges, DispatchAges,
       AttemptAges, CreationAges, Leases

LEMMA SweepTyped == TypeOK /\ Sweep => TypeOK'
<1> SUFFICES ASSUME TypeOK, Sweep PROVE TypeOK'
  OBVIOUS
<1> USE RunAssumption DEF TypeOK, rowVars, attVars, procVars, Statements, Status, Terminal
<1>1. CASE SweepLeases
  BY <1>1 DEF SweepLeases, Leases
<1>2. CASE SweepColdStart
  BY <1>2 DEF SweepColdStart
<1>3. CASE SweepRequeue
  BY <1>3 DEF SweepRequeue
<1>4. CASE SweepGiveUp
  BY <1>4 DEF SweepGiveUp
<1>5. CASE SweepAttempts
  BY <1>5 DEF SweepAttempts
<1>6. CASE SweepNormalization
  BY <1>6 DEF SweepNormalization
<1>7. QED
  BY <1>1, <1>2, <1>3, <1>4, <1>5, <1>6 DEF Sweep

LEMMA NextTyped == TypeOK /\ [Next]_vars => TypeOK'
<1>1. ASSUME TypeOK, Next PROVE TypeOK'
  BY <1>1, TriggerTyped, CancelTyped, WorkerTyped, ContainerTyped, TimeTyped, SweepTyped
  DEF Next
<1>2. ASSUME TypeOK, UNCHANGED vars PROVE TypeOK'
  BY <1>2 DEF vars, rowVars, attVars, procVars, TypeOK
<1>3. QED
  BY <1>1, <1>2

\* Every variable keeps its type, in particular no container is numbered beyond
\* the restarts Cloud Run grants.
THEOREM TypeCorrect == Spec => []TypeOK
<1>1. QED
  BY InitTyped, NextTyped, PTL DEF Spec

-----------------------------------------------------------------------------
(* The inductive invariant, one lemma per kind of step.                    *)

LEMMA InitInvariant == Init => IInv
BY InitTyped
DEF Init, IInv, TriggersHoldDistinctRows, HeldRowsAreFresh, ContainersAreNumbered,
    OneUnfinishedRunPerProject, RunningRowsAreLeased,
    CompletedRunIsQuiet, IdleTrigger, Indexed, Status, Terminal

\* Steps of the clock, of the attempts and of the handlers' reads.
LEMMA QuietStep ==
  ASSUME IInv, TypeOK',
         UNCHANGED <<status, worker, lease, trigger, container, started>>
  PROVE  IInv'
BY DEF IInv, TriggersHoldDistinctRows, HeldRowsAreFresh, ContainersAreNumbered,
       OneUnfinishedRunPerProject, RunningRowsAreLeased, CompletedRunIsQuiet

\* A lease that changes but is still there.
LEMMA LeaseStep ==
  ASSUME IInv, TypeOK',
         UNCHANGED <<status, worker, trigger, container, started>>,
         \A r \in Run : lease'[r] = "null" <=> lease[r] = "null"
  PROVE  IInv'
<1>1. RunningRowsAreLeased'
  BY DEF IInv, RunningRowsAreLeased
<1>2. QED
  BY <1>1 DEF IInv, TriggersHoldDistinctRows, HeldRowsAreFresh, ContainersAreNumbered,
              OneUnfinishedRunPerProject, CompletedRunIsQuiet

\* A container that moves on, ends or is started again without touching the row.
LEMMA ContainerStep ==
  ASSUME IInv, TypeOK', NEW r \in Run, NEW pc \in Containers \ {"none"},
         container[r] # "none", ContainerGoto(r, pc),
         pc \in {"claimed", "extracting", "finishing"}
           => container[r] \in {"claimed", "extracting", "finishing"},
         \A q \in Run : started[q] # 0 => started'[q] # 0,
         UNCHANGED <<status, worker, lease, trigger>>
  PROVE  IInv'
<1>1. /\ \A q \in Run : container'[q] = IF q = r THEN pc ELSE container[q]
      /\ \A q \in Run : container'[q] = "none" <=> container[q] = "none"
  BY DEF IInv, TypeOK, ContainerGoto
<1>2. HeldRowsAreFresh'
  <2> SUFFICES ASSUME NEW t \in TriggerReq,
                      trigger[t].pc \in {"inserted", "dispatched"}
               PROVE  container'[trigger[t].run] = "none"
    BY DEF IInv, HeldRowsAreFresh
  <2>1. container[trigger[t].run] = "none"
    BY DEF IInv, HeldRowsAreFresh
  <2>2. trigger[t].run # r
    BY <2>1
  <2>3. QED
    BY <2>1, <2>2 DEF IInv, TypeOK, ContainerGoto
<1>3. ContainersAreNumbered'
  BY <1>1 DEF IInv, ContainersAreNumbered
<1>4. CompletedRunIsQuiet'
  BY <1>1 DEF IInv, CompletedRunIsQuiet
<1>5. QED
  BY <1>2, <1>3, <1>4 DEF IInv, TriggersHoldDistinctRows, OneUnfinishedRunPerProject, RunningRowsAreLeased

\* Where a cancellation may come from.
LEMMA CancelSources ==
  \A s \in Status :
    /\ "cancel_requested" \in ValidTransitions[s] => s = "running"
    /\ "cancelled" \in ValidTransitions[s] => s \in Indexed
    /\ "running" \in Indexed
BY DEF ValidTransitions, Indexed, Status, Terminal

\* A change of status that needs no worker: a cancel request or a sweep.
LEMMA StatusStep ==
  ASSUME IInv, TypeOK',
         UNCHANGED <<worker, lease, trigger, container, started>>,
         \A r \in Run : status'[r] # status[r] =>
           /\ status[r] \in Indexed
           /\ status'[r] \in {"queued", "stalled", "failed", "cancelled", "cancel_requested"}
           /\ worker[r] # 0 => status'[r] \in {"cancel_requested", "cancelled"}
  PROVE  IInv'
<1>1. \A r \in Run : status'[r] = "absent" <=> status[r] = "absent"
  BY DEF Indexed, Status, Terminal
<1>2. HeldRowsAreFresh'
  <2> SUFFICES ASSUME NEW t \in TriggerReq
               PROVE  /\ trigger[t].pc \in {"orgChecked", "capChecked", "allowed"}
                           => status'[trigger[t].run] = "absent"
                      /\ trigger[t].pc \in {"inserted", "dispatched"}
                           => status'[trigger[t].run] # "absent"
    BY DEF IInv, HeldRowsAreFresh
  <2>1. trigger[t].pc # "idle" => trigger[t].run \in Run
    BY DEF IInv, TypeOK, TriggersHoldDistinctRows, IdleTrigger
  <2>2. QED
    BY <1>1, <2>1 DEF IInv, HeldRowsAreFresh
<1>3. ContainersAreNumbered'
  BY <1>1 DEF IInv, ContainersAreNumbered
<1>4. OneUnfinishedRunPerProject'
  BY DEF IInv, OneUnfinishedRunPerProject
<1>5. RunningRowsAreLeased'
  BY DEF IInv, RunningRowsAreLeased
<1>6. CompletedRunIsQuiet'
  BY DEF IInv, CompletedRunIsQuiet
<1>7. QED
  BY <1>2, <1>3, <1>4, <1>5, <1>6 DEF IInv, TriggersHoldDistinctRows

\* A release by the worker, which then ends or goes on to close its attempt.
LEMMA ReleaseStep ==
  ASSUME IInv, TypeOK', NEW r \in Run, NEW final \in Outcomes, NEW pc \in {"released", "exit1"},
         container[r] # "none", ContainerGoto(r, pc), ReleaseLease(r, final),
         UNCHANGED <<trigger, started>>
  PROVE  IInv'
<1>1. CASE UNCHANGED <<status, worker, lease>>
  BY <1>1, ContainerStep DEF Containers
<1>2. CASE /\ Owns(r)
           /\ TriggerAllows(status[r], final)
           /\ status' = [status EXCEPT ![r] = final]
           /\ worker' = [worker EXCEPT ![r] = 0]
           /\ lease' = [lease EXCEPT ![r] = "null"]
  <2>1. worker[r] # 0
    BY <1>2 DEF Owns, IInv, ContainersAreNumbered
  <2>2. status[r] \in {"running", "cancel_requested", "cancelled"}
    BY <2>1 DEF IInv, RunningRowsAreLeased
  <2>3. /\ \A q \in Run : status'[q] = IF q = r THEN final ELSE status[q]
        /\ \A q \in Run : worker'[q] = IF q = r THEN 0 ELSE worker[q]
        /\ \A q \in Run : lease'[q] = IF q = r THEN "null" ELSE lease[q]
        /\ \A q \in Run : container'[q] = IF q = r THEN pc ELSE container[q]
    BY <1>2 DEF IInv, TypeOK, ContainerGoto
  <2>4. final \notin {"absent", "dispatched", "running", "cancel_requested"} \cup Indexed
    BY DEF Outcomes, Indexed, Status, Terminal
  <2>5. HeldRowsAreFresh'
    <3> SUFFICES ASSUME NEW t \in TriggerReq, trigger[t].pc # "idle"
                 PROVE  /\ trigger[t].run \in Run /\ trigger[t].run # r
      BY <2>3 DEF IInv, HeldRowsAreFresh
    <3>1. trigger[t].run \in Run
      BY DEF IInv, TypeOK, TriggersHoldDistinctRows, IdleTrigger
    <3>2. trigger[t].pc \in {"orgChecked", "capChecked", "allowed", "inserted", "dispatched"}
      BY DEF IInv, TypeOK, TriggerPcs
    <3>3. QED
      BY <2>2, <3>1, <3>2 DEF IInv, HeldRowsAreFresh
  <2>6. ContainersAreNumbered'
    BY <2>3, <2>4 DEF IInv, ContainersAreNumbered
  <2>7. OneUnfinishedRunPerProject'
    BY <2>3, <2>4 DEF IInv, OneUnfinishedRunPerProject
  <2>8. RunningRowsAreLeased'
    BY <2>3, <2>4 DEF IInv, RunningRowsAreLeased
  <2>9. CompletedRunIsQuiet'
    BY <2>3 DEF IInv, CompletedRunIsQuiet
  <2>10. QED
    BY <2>5, <2>6, <2>7, <2>8, <2>9 DEF IInv, TriggersHoldDistinctRows
<1>3. QED
  BY <1>1, <1>2 DEF ReleaseLease

\* The claim: the row is dispatched, and its trigger handler has launched the container.
LEMMA ClaimStep ==
  ASSUME IInv, TypeOK', NEW r \in Run, Claim(r)
  PROVE  IInv'
<1>1. container[r] = "booting" /\ status[r] = "dispatched" /\ started[r] # 0
  BY DEF Claim, ClaimGuard, IInv, ContainersAreNumbered
<1>2. /\ \A q \in Run : status'[q] = IF q = r THEN "running" ELSE status[q]
      /\ \A q \in Run : worker'[q] = IF q = r THEN started[r] ELSE worker[q]
      /\ \A q \in Run : lease'[q] = IF q = r THEN "live" ELSE lease[q]
      /\ \A q \in Run : container'[q] = IF q = r THEN "claimed" ELSE container[q]
      /\ UNCHANGED <<trigger, started>>
  BY <1>1 DEF Claim, IInv, TypeOK, ContainerGoto
<1>3. HeldRowsAreFresh'
  <2> SUFFICES ASSUME NEW t \in TriggerReq, trigger[t].pc # "idle"
               PROVE  /\ trigger[t].run \in Run /\ trigger[t].run # r
    BY <1>2 DEF IInv, HeldRowsAreFresh
  <2>1. trigger[t].run \in Run
    BY DEF IInv, TypeOK, TriggersHoldDistinctRows, IdleTrigger
  <2>2. trigger[t].pc \in {"orgChecked", "capChecked", "allowed", "inserted", "dispatched"}
    BY DEF IInv, TypeOK, TriggerPcs
  <2>3. QED
    BY <1>1, <2>1, <2>2 DEF IInv, HeldRowsAreFresh
<1>4. ContainersAreNumbered'
  BY <1>1, <1>2 DEF IInv, ContainersAreNumbered
<1>5. OneUnfinishedRunPerProject'
  BY <1>1, <1>2 DEF IInv, OneUnfinishedRunPerProject, Indexed, Status, Terminal
<1>6. RunningRowsAreLeased'
  BY <1>1, <1>2 DEF IInv, RunningRowsAreLeased
<1>7. CompletedRunIsQuiet'
  BY <1>2 DEF IInv, CompletedRunIsQuiet
<1>8. QED
  BY <1>2, <1>3, <1>4, <1>5, <1>6, <1>7 DEF IInv, TriggersHoldDistinctRows

\* A handler moves on or ends; rows and containers stay.
LEMMA HandlerMoves ==
  ASSUME IInv, TypeOK', NEW t \in TriggerReq,
         UNCHANGED <<status, worker, lease, container, started>>,
         \/ TriggerEnds(t)
         \/ \E pc \in {"capChecked", "allowed"} :
              /\ trigger[t].pc \in {"orgChecked", "capChecked"}
              /\ TriggerGoto(t, pc)
  PROVE  IInv'
<1>1. ASSUME TriggerEnds(t) PROVE TriggersHoldDistinctRows' /\ HeldRowsAreFresh'
  <2>1. \A u \in TriggerReq : trigger'[u] = IF u = t THEN IdleTrigger ELSE trigger[u]
    BY <1>1 DEF TriggerEnds, IInv, TypeOK
  <2>2. IdleTrigger.run = NoRun /\ IdleTrigger.pc = "idle"
    BY DEF IdleTrigger
  <2>3. TriggersHoldDistinctRows'
    BY <2>1, <2>2 DEF IInv, TriggersHoldDistinctRows
  <2>4. HeldRowsAreFresh'
    BY <2>1, <2>2 DEF IInv, HeldRowsAreFresh
  <2>5. QED
    BY <2>3, <2>4
<1>2. ASSUME NEW pc \in {"capChecked", "allowed"},
             trigger[t].pc \in {"orgChecked", "capChecked"}, TriggerGoto(t, pc)
      PROVE  TriggersHoldDistinctRows' /\ HeldRowsAreFresh'
  <2>1. \A u \in TriggerReq : /\ trigger'[u].run = trigger[u].run
                              /\ trigger'[u].pc = IF u = t THEN pc ELSE trigger[u].pc
    BY <1>2 DEF TriggerGoto, IInv, TypeOK
  <2>2. \A u \in TriggerReq : trigger'[u] = IdleTrigger <=> trigger[u] = IdleTrigger
    BY <1>2, <2>1 DEF TriggerGoto, IdleTrigger, IInv, TypeOK
  <2>3. TriggersHoldDistinctRows'
    BY <2>1, <2>2 DEF IInv, TriggersHoldDistinctRows
  <2>4. HeldRowsAreFresh'
    BY <1>2, <2>1 DEF IInv, HeldRowsAreFresh
  <2>5. QED
    BY <2>3, <2>4
<1>3. QED
  BY <1>1, <1>2 DEF IInv, ContainersAreNumbered, OneUnfinishedRunPerProject, RunningRowsAreLeased, CompletedRunIsQuiet

\* The first check takes a row that does not exist and nobody else holds.
LEMMA CheckOrgStep ==
  ASSUME IInv, TypeOK', NEW t \in TriggerReq, NEW r \in Run, TriggerCheckOrg(t, r)
  PROVE  IInv'
<1>1. \A u \in TriggerReq :
        trigger'[u] = IF u = t THEN [pc |-> "orgChecked", run |-> r] ELSE trigger[u]
  BY DEF TriggerCheckOrg, IInv, TypeOK
<1>2. r # NoRun
  BY RunAssumption
<1>3. TriggersHoldDistinctRows'
  BY <1>1, <1>2 DEF TriggerCheckOrg, IInv, TriggersHoldDistinctRows, IdleTrigger
<1>4. HeldRowsAreFresh'
  BY <1>1 DEF TriggerCheckOrg, IInv, HeldRowsAreFresh, rowVars, procVars
<1>5. QED
  BY <1>3, <1>4 DEF TriggerCheckOrg, rowVars, procVars, IInv, ContainersAreNumbered,
    OneUnfinishedRunPerProject, RunningRowsAreLeased,
    CompletedRunIsQuiet

\* createRun(): the insertion goes through only if the project has no other row
\* in the index.
LEMMA InsertStep ==
  ASSUME IInv, TypeOK', NEW t \in TriggerReq, TriggerInsert(t)
  PROVE  IInv'
<1> DEFINE r == trigger[t].run
<1>1. UNCHANGED <<worker, lease, container, started>>
  BY DEF TriggerInsert, procVars
<1>2. CASE Unfinished(ProjectOf[r]) # {}
  BY <1>1, <1>2, HandlerMoves DEF TriggerInsert
<1>3. CASE Unfinished(ProjectOf[r]) = {}
  <2>1. r \in Run /\ status[r] = "absent" /\ container[r] = "none" /\ worker[r] = 0
    <3>1. r \in Run /\ status[r] = "absent"
      BY DEF TriggerInsert, IInv, TypeOK, TriggersHoldDistinctRows, IdleTrigger, HeldRowsAreFresh
    <3>2. QED
      BY <3>1 DEF IInv, ContainersAreNumbered, RunningRowsAreLeased
  <2>2. /\ \A q \in Run : status'[q] = IF q = r THEN "queued" ELSE status[q]
        /\ \A u \in TriggerReq : /\ trigger'[u].run = trigger[u].run
                                 /\ trigger'[u].pc = IF u = t THEN "inserted" ELSE trigger[u].pc
        /\ \A u \in TriggerReq : u # t => trigger'[u] = trigger[u]
    BY <1>3 DEF TriggerInsert, TriggerGoto, IInv, TypeOK
  <2>3. trigger'[t] # IdleTrigger /\ trigger[t] # IdleTrigger
    BY <2>2 DEF TriggerInsert, IdleTrigger
  <2>4. TriggersHoldDistinctRows'
    BY <2>2, <2>3 DEF IInv, TriggersHoldDistinctRows
  <2>5. HeldRowsAreFresh'
    <3> SUFFICES ASSUME NEW u \in TriggerReq, trigger'[u].pc # "idle"
                 PROVE  /\ trigger'[u].pc \in {"orgChecked", "capChecked", "allowed"}
                             => status'[trigger'[u].run] = "absent"
                        /\ trigger'[u].pc \in {"inserted", "dispatched"}
                             => /\ status'[trigger'[u].run] # "absent"
                                /\ container[trigger'[u].run] = "none"
      BY <1>1 DEF HeldRowsAreFresh
    <3>1. CASE u = t
      BY <2>1, <2>2, <3>1
    <3>2. CASE u # t
      <4>1. trigger[u].run \in Run /\ trigger[u].run # r
        BY <2>1, <2>2, <3>2, RunAssumption DEF IInv, TypeOK, TriggersHoldDistinctRows, IdleTrigger
      <4>2. QED
        BY <2>2, <3>2, <4>1 DEF IInv, HeldRowsAreFresh
    <3>3. QED
      BY <3>1, <3>2
  <2>6. ContainersAreNumbered'
    BY <1>1, <2>1, <2>2 DEF IInv, ContainersAreNumbered
  <2>7. OneUnfinishedRunPerProject'
    BY <1>3, <2>2 DEF IInv, OneUnfinishedRunPerProject, Unfinished
  <2>8. RunningRowsAreLeased' /\ CompletedRunIsQuiet'
    BY <1>1, <2>1, <2>2 DEF IInv, RunningRowsAreLeased, CompletedRunIsQuiet
  <2>9. QED
    BY <2>4, <2>5, <2>6, <2>7, <2>8 DEF IInv
<1>4. QED
  BY <1>2, <1>3

\* casDispatch(): the handler holds the row, hence no container was ever started
\* for it and nobody owns it.
LEMMA DispatchStep ==
  ASSUME IInv, TypeOK', NEW t \in TriggerReq, TriggerDispatch(t)
  PROVE  IInv'
<1> DEFINE r == trigger[t].run
<1>1. UNCHANGED <<worker, lease, container, started>>
  BY DEF TriggerDispatch, procVars
<1>2. CASE status[r] # "queued"
  BY <1>1, <1>2, HandlerMoves DEF TriggerDispatch
<1>3. CASE status[r] = "queued"
  <2>1. r \in Run /\ container[r] = "none" /\ worker[r] = 0
    <3>1. r \in Run
      BY DEF TriggerDispatch, IInv, TypeOK, TriggersHoldDistinctRows, IdleTrigger
    <3>2. QED
      BY <1>3, <3>1 DEF TriggerDispatch, IInv, HeldRowsAreFresh, ContainersAreNumbered,
        RunningRowsAreLeased
  <2>2. /\ \A q \in Run : status'[q] = IF q = r THEN "dispatched" ELSE status[q]
        /\ \A u \in TriggerReq : /\ trigger'[u].run = trigger[u].run
                                 /\ trigger'[u].pc = IF u = t THEN "dispatched"
                                                             ELSE trigger[u].pc
        /\ \A u \in TriggerReq : u # t => trigger'[u] = trigger[u]
    BY <1>3 DEF TriggerDispatch, TriggerGoto, IInv, TypeOK
  <2>3. trigger'[t] # IdleTrigger /\ trigger[t] # IdleTrigger /\ trigger[t].pc = "inserted"
    BY <2>2 DEF TriggerDispatch, IdleTrigger
  <2>4. TriggersHoldDistinctRows'
    BY <2>2, <2>3 DEF IInv, TriggersHoldDistinctRows
  <2>5. HeldRowsAreFresh'
    <3>1. \A q \in Run : status'[q] = "absent" <=> status[q] = "absent"
      BY <1>3, <2>2
    <3>2. \A u \in TriggerReq : trigger[u].pc # "idle" => trigger[u].run \in Run
      BY DEF IInv, TypeOK, TriggersHoldDistinctRows, IdleTrigger
    <3>3. ASSUME NEW u \in TriggerReq
          PROVE  /\ trigger'[u].pc \in {"orgChecked", "capChecked", "allowed"}
                      => status'[trigger'[u].run] = "absent"
                 /\ trigger'[u].pc \in {"inserted", "dispatched"}
                      => /\ status'[trigger'[u].run] # "absent"
                         /\ container[trigger'[u].run] = "none"
      BY <2>1, <2>2, <2>3, <3>1, <3>2 DEF IInv, HeldRowsAreFresh
    <3>4. QED
      BY <1>1, <3>3 DEF HeldRowsAreFresh
  <2>6. ContainersAreNumbered'
    BY <1>1, <2>1, <2>2 DEF IInv, ContainersAreNumbered
  <2>7. OneUnfinishedRunPerProject'
    BY <1>3, <2>2 DEF IInv, OneUnfinishedRunPerProject, Indexed, Status, Terminal
  <2>8. RunningRowsAreLeased' /\ CompletedRunIsQuiet'
    BY <1>1, <2>1, <2>2 DEF IInv, RunningRowsAreLeased, CompletedRunIsQuiet
  <2>9. QED
    BY <2>4, <2>5, <2>6, <2>7, <2>8 DEF IInv
<1>4. QED
  BY <1>2, <1>3

\* dispatchWorker(): the handler lets the row go as the container starts.
LEMMA LaunchStep ==
  ASSUME IInv, TypeOK', NEW t \in TriggerReq, TriggerLaunch(t)
  PROVE  IInv'
<1> DEFINE r == trigger[t].run
<1>1. UNCHANGED <<status, worker, lease>> /\ TriggerEnds(t)
  BY DEF TriggerLaunch, rowVars
<1>2. CASE UNCHANGED <<container, started>>
  BY <1>1, <1>2, HandlerMoves
<1>3. CASE /\ container' = [container EXCEPT ![r] = "booting"]
           /\ started' = [started EXCEPT ![r] = 1]
  <2>1. r \in Run /\ status[r] # "absent"
    <3>1. r \in Run
      BY DEF TriggerLaunch, IInv, TypeOK, TriggersHoldDistinctRows, IdleTrigger
    <3>2. QED
      BY <3>1 DEF TriggerLaunch, IInv, HeldRowsAreFresh, ContainersAreNumbered
  <2>2. /\ \A q \in Run : container'[q] = IF q = r THEN "booting" ELSE container[q]
        /\ \A q \in Run : started'[q] = IF q = r THEN 1 ELSE started[q]
        /\ \A u \in TriggerReq : trigger'[u] = IF u = t THEN IdleTrigger ELSE trigger[u]
    BY <1>1, <1>3, <2>1 DEF TriggerEnds, IInv, TypeOK
  <2>3. IdleTrigger.run = NoRun /\ IdleTrigger.pc = "idle"
    BY DEF IdleTrigger
  <2>4. TriggersHoldDistinctRows'
    BY <2>2, <2>3 DEF IInv, TriggersHoldDistinctRows
  <2>5. HeldRowsAreFresh'
    <3> SUFFICES ASSUME NEW u \in TriggerReq, u # t
                 PROVE  /\ trigger[u].pc \in {"orgChecked", "capChecked", "allowed"}
                             => status[trigger[u].run] = "absent"
                        /\ trigger[u].pc \in {"inserted", "dispatched"}
                             => /\ status[trigger[u].run] # "absent"
                                /\ container'[trigger[u].run] = "none"
      BY <1>1, <2>2, <2>3 DEF HeldRowsAreFresh
    <3>1. trigger[u].pc # "idle" => trigger[u].run \in Run /\ trigger[u].run # r
      BY <2>1, RunAssumption DEF IInv, TypeOK, TriggersHoldDistinctRows, IdleTrigger
    <3>2. QED
      BY <2>2, <3>1 DEF IInv, HeldRowsAreFresh
  <2>6. ContainersAreNumbered' /\ CompletedRunIsQuiet'
    BY <1>1, <2>1, <2>2 DEF IInv, ContainersAreNumbered, CompletedRunIsQuiet
  <2>7. QED
    BY <1>1, <2>4, <2>5, <2>6 DEF IInv, OneUnfinishedRunPerProject,
      RunningRowsAreLeased
<1>4. QED
  BY <1>2, <1>3 DEF TriggerLaunch

LEMMA TriggerInvariant ==
  ASSUME IInv, TypeOK', NEW t \in TriggerReq,
         TriggerStep(t) \/ \E r \in Run : TriggerCheckOrg(t, r)
  PROVE  IInv'
<1>1. CASE TriggerCheckCap(t)
  BY <1>1, HandlerMoves DEF TriggerCheckCap, rowVars, procVars
<1>2. CASE TriggerCheckRate(t)
  BY <1>2, HandlerMoves DEF TriggerCheckRate, rowVars, procVars
<1>3. CASE TriggerAborts(t)
  BY <1>3, HandlerMoves DEF TriggerAborts, rowVars, procVars
<1>4. QED
  BY <1>1, <1>2, <1>3, CheckOrgStep, InsertStep, DispatchStep, LaunchStep DEF TriggerStep

LEMMA CancelInvariant ==
  ASSUME IInv, TypeOK', CancelsNameRows, NEW c \in CancelReq,
         CancelWrite(c) \/ \E r \in Run : CancelRead(c, r)
  PROVE  IInv'
<1>1. ASSUME NEW r \in Run, CancelRead(c, r) PROVE IInv'
  BY <1>1, QuietStep DEF CancelRead, rowVars, procVars
<1>2. CASE CancelWrite(c)
  <2> DEFINE r == cancel[c].run
             target == CancelTarget(cancel[c].seen)
  <2>1. UNCHANGED <<worker, lease, trigger, container, started>>
    BY <1>2 DEF CancelWrite, procVars
  <2>2. \A q \in Run : status'[q] # status[q] =>
          q = r /\ status'[q] = target /\ target \in ValidTransitions[status[q]]
    BY <1>2 DEF CancelWrite, TriggerAllows, IInv, TypeOK
  <2>3. target \in {"cancel_requested", "cancelled"}
    BY DEF CancelTarget
  <2>4. ASSUME NEW q \in Run, status'[q] # status[q]
        PROVE  /\ status[q] \in Indexed
               /\ status'[q] \in {"cancel_requested", "cancelled"}
               /\ status'[q] = "cancel_requested" => status[q] = "running"
    BY <2>2, <2>3, <2>4, CancelSources DEF IInv, TypeOK, CancelsNameRows
  <2>5. QED
    BY <2>1, <2>4, StatusStep
<1>3. QED
  BY <1>1, <1>2

LEMMA WorkerInvariant ==
  ASSUME IInv, TypeOK', NEW r \in Run,
         \/ WorkerStep(r) \/ RenewLease(r) \/ LeaseLost(r)
         \/ Sigterm(r) \/ Crash(r) \/ Restart(r)
  PROVE  IInv'
<1> USE DEF rowVars, Containers
<1>1. CASE Claim(r)
  BY <1>1, ClaimStep
<1>2. CASE ClaimFails(r) \/ LeaseLost(r) \/ Crash(r)
  BY <1>2, ContainerStep
  DEF ClaimFails, LeaseLost, Crash, ExitWith1, HeartbeatActive, Alive, Working
<1>3. CASE CreateAttempt(r) \/ PipelineReturns(r) \/ CloseAttempt(r)
  BY <1>3, ContainerStep DEF CreateAttempt, PipelineReturns, CloseAttempt
<1>4. CASE Restart(r)
  <2>1. \A q \in Run : started[q] # 0 => started'[q] # 0
    BY <1>4 DEF Restart, IInv, TypeOK
  <2>2. QED
    BY <1>4, <2>1, ContainerStep DEF Restart
<1>5. CASE Release(r)
  BY <1>5, ReleaseStep DEF Release, IInv, TypeOK
<1>6. CASE SigtermShutdown(r)
  BY <1>6, ReleaseStep DEF SigtermShutdown, Working, ExitWith1, Outcomes
<1>7. CASE Sigterm(r)
  BY <1>7, QuietStep DEF Sigterm
<1>8. CASE RenewLease(r)
  <2>1. lease[r] # "null"
    BY <1>8 DEF RenewLease, HeartbeatActive, Owns, IInv, ContainersAreNumbered, RunningRowsAreLeased
  <2>2. \A q \in Run : lease'[q] = "null" <=> lease[q] = "null"
    BY <1>8, <2>1 DEF RenewLease, IInv, TypeOK
  <2>3. QED
    BY <1>8, <2>2, LeaseStep DEF RenewLease, procVars
<1>9. QED
  BY <1>1, <1>2, <1>3, <1>4, <1>5, <1>6, <1>7, <1>8 DEF WorkerStep

LEMMA SweepInvariant ==
  ASSUME IInv, TypeOK', Sweep
  PROVE  IInv'
<1> USE DEF rowVars, procVars
<1>1. CASE SweepLeases
  <2> DEFINE lost == {r \in Run : status[r] = "running" /\ lease[r] = "overdue"}
  <2>1. /\ \A r \in Run : status'[r] = IF r \in lost THEN "stalled" ELSE status[r]
        /\ \A r \in Run : worker'[r] = IF r \in lost THEN 0 ELSE worker[r]
        /\ \A r \in Run : lease'[r] = IF r \in lost THEN "null" ELSE lease[r]
        /\ UNCHANGED <<trigger, container, started>>
    BY <1>1 DEF SweepLeases
  <2>2. \A r \in Run : status'[r] = "absent" <=> status[r] = "absent"
    BY <2>1
  <2>3. \A t \in TriggerReq : trigger[t].pc # "idle" => trigger[t].run \in Run
    BY DEF IInv, TypeOK, TriggersHoldDistinctRows, IdleTrigger
  <2>4. HeldRowsAreFresh'
    BY <2>1, <2>2, <2>3 DEF IInv, HeldRowsAreFresh
  <2>5. ContainersAreNumbered'
    BY <2>1 DEF IInv, ContainersAreNumbered
  <2>6. OneUnfinishedRunPerProject'
    BY <2>1 DEF IInv, OneUnfinishedRunPerProject, Indexed, Status, Terminal
  <2>7. RunningRowsAreLeased' /\ CompletedRunIsQuiet'
    BY <2>1 DEF IInv, RunningRowsAreLeased, CompletedRunIsQuiet
  <2>8. QED
    BY <2>1, <2>4, <2>5, <2>6, <2>7 DEF IInv, TriggersHoldDistinctRows
<1>2. CASE SweepColdStart \/ SweepRequeue \/ SweepGiveUp
  <2>1. UNCHANGED <<worker, lease, trigger, container, started>>
    BY <1>2 DEF SweepColdStart, SweepRequeue, SweepGiveUp
  <2>2. ASSUME NEW r \in Run, status'[r] # status[r]
        PROVE  /\ status[r] \in {"dispatched", "stalled"}
               /\ status'[r] \in {"stalled", "queued", "failed"}
    BY <1>2, <2>2 DEF SweepColdStart, SweepRequeue, SweepGiveUp
  <2>3. ASSUME NEW r \in Run, status'[r] # status[r] PROVE worker[r] = 0
    BY <2>2, <2>3 DEF IInv, RunningRowsAreLeased
  <2>4. QED
    BY <2>1, <2>2, <2>3, StatusStep DEF Indexed, Status, Terminal
<1>3. CASE SweepAttempts \/ SweepNormalization
  BY <1>3, QuietStep DEF SweepAttempts, SweepNormalization
<1>4. QED
  BY <1>1, <1>2, <1>3 DEF Sweep

LEMMA TimeInvariant ==
  ASSUME IInv, TypeOK', NEW r \in Run, TimePasses(r)
  PROVE  IInv'
<1>1. CASE LeaseAges(r)
  <2>1. \A q \in Run : lease'[q] = "null" <=> lease[q] = "null"
    BY <1>1 DEF LeaseAges, IInv, TypeOK
  <2>2. QED
    BY <1>1, <2>1, LeaseStep DEF LeaseAges, procVars
<1>2. CASE DispatchAges(r) \/ AttemptAges(r) \/ CreationAges(r)
  BY <1>2, QuietStep DEF DispatchAges, AttemptAges, CreationAges, rowVars, procVars
<1>3. QED
  BY <1>1, <1>2 DEF TimePasses

\* No statement of the code deletes a row.
LEMMA RowsStay ==
  ASSUME IInv, Next
  PROVE  \A r \in Run : status[r] # "absent" => status'[r] # "absent"
<1>1. ASSUME NEW t \in TriggerReq, TriggerStep(t) \/ \E r \in Run : TriggerCheckOrg(t, r)
      PROVE  \A r \in Run : status[r] # "absent" => status'[r] # "absent"
  BY <1>1 DEF IInv, TypeOK, rowVars, TriggerStep, TriggerCheckOrg, TriggerCheckCap, TriggerCheckRate,
    TriggerInsert, TriggerDispatch, TriggerLaunch, TriggerAborts
<1>2. ASSUME NEW c \in CancelReq, CancelWrite(c) \/ \E r \in Run : CancelRead(c, r)
      PROVE  \A r \in Run : status[r] # "absent" => status'[r] # "absent"
  BY <1>2 DEF IInv, TypeOK, rowVars, CancelWrite, CancelRead, CancelTarget
<1>3. ASSUME NEW r \in Run, NEW final \in Outcomes, ReleaseLease(r, final)
      PROVE  \A q \in Run : status[q] # "absent" => status'[q] # "absent"
  BY <1>3 DEF IInv, TypeOK, ReleaseLease, Outcomes
<1>4. ASSUME NEW r \in Run, WorkerStep(r)
      PROVE  \A q \in Run : status[q] # "absent" => status'[q] # "absent"
  <2>1. CASE Release(r) \/ SigtermShutdown(r)
    BY <2>1, <1>3 DEF Release, SigtermShutdown, Outcomes, IInv, TypeOK
  <2>2. CASE Claim(r)
    BY <2>2 DEF Claim, IInv, TypeOK
  <2>3. QED
    BY <1>4, <2>1, <2>2 DEF rowVars, WorkerStep, ClaimFails, CreateAttempt,
      PipelineReturns, CloseAttempt
<1>5. ASSUME NEW r \in Run,
             \/ RenewLease(r) \/ LeaseLost(r) \/ Sigterm(r) \/ Crash(r) \/ Restart(r)
             \/ TimePasses(r)
      PROVE  UNCHANGED status
  BY <1>5 DEF rowVars, RenewLease, LeaseLost, Sigterm, Crash, Restart, TimePasses,
    LeaseAges, DispatchAges, AttemptAges, CreationAges
<1>6. ASSUME Sweep
      PROVE  \A r \in Run : status[r] # "absent" => status'[r] # "absent"
  BY <1>6 DEF rowVars, Sweep, SweepLeases, SweepColdStart, SweepRequeue, SweepGiveUp,
    SweepAttempts, SweepNormalization
<1>7. QED
  BY <1>1, <1>2, <1>4, <1>5, <1>6 DEF Next

LEMMA CancelsStayNamed ==
  ASSUME IInv, CancelsNameRows, Next
  PROVE  CancelsNameRows'
<1>1. CASE UNCHANGED cancel
  BY <1>1, RowsStay DEF CancelsNameRows
<1>2. ASSUME NEW c \in CancelReq, NEW r \in Run, CancelRead(c, r) PROVE CancelsNameRows'
  <2>1. status'[r] # "absent"
    BY <1>2 DEF CancelRead, rowVars, Status, Terminal
  <2>2. \A d \in CancelReq : cancel'[d].run = IF d = c THEN r ELSE cancel[d].run
    BY <1>2 DEF CancelRead, IInv, TypeOK
  <2>3. QED
    BY <2>1, <2>2, RowsStay DEF CancelsNameRows
<1>3. ASSUME NEW c \in CancelReq, CancelWrite(c) PROVE CancelsNameRows'
  <2>1. \A d \in CancelReq : cancel'[d].run = IF d = c THEN NoRun ELSE cancel[d].run
    BY <1>3 DEF CancelWrite, IdleCancel, IInv, TypeOK
  <2>2. QED
    BY <2>1, RowsStay, RunAssumption DEF CancelsNameRows
<1>4. QED
  <2>1. ASSUME NEW t \in TriggerReq, TriggerStep(t) \/ \E r \in Run : TriggerCheckOrg(t, r)
        PROVE  UNCHANGED cancel
    BY <2>1 DEF TriggerStep, TriggerCheckOrg, TriggerCheckCap, TriggerCheckRate,
      TriggerInsert, TriggerDispatch, TriggerLaunch, TriggerAborts
  <2>2. ASSUME NEW r \in Run, WorkerStep(r) PROVE UNCHANGED cancel
    BY <2>2 DEF WorkerStep, Claim, ClaimFails, CreateAttempt, PipelineReturns, Release,
      CloseAttempt, SigtermShutdown
  <2>3. ASSUME NEW r \in Run,
               \/ RenewLease(r) \/ LeaseLost(r) \/ Sigterm(r) \/ Crash(r) \/ Restart(r)
               \/ TimePasses(r)
        PROVE  UNCHANGED cancel
    BY <2>3 DEF RenewLease, LeaseLost, Sigterm, Crash, Restart, TimePasses,
      LeaseAges, DispatchAges, AttemptAges, CreationAges
  <2>4. ASSUME Sweep PROVE UNCHANGED cancel
    BY <2>4 DEF Sweep, SweepLeases, SweepColdStart, SweepRequeue, SweepGiveUp,
      SweepAttempts, SweepNormalization
  <2>5. QED
    BY <1>1, <1>2, <1>3, <2>1, <2>2, <2>3, <2>4 DEF Next

LEMMA NextInvariant == IInv /\ CancelsNameRows /\ [Next]_vars => (IInv /\ CancelsNameRows)'
<1>1. ASSUME IInv, CancelsNameRows, Next PROVE (IInv /\ CancelsNameRows)'
  <2>1. TypeOK'
    BY <1>1, NextTyped DEF IInv
  <2>2. CancelsNameRows'
    BY <1>1, CancelsStayNamed
  <2>3. ASSUME NEW t \in TriggerReq, TriggerStep(t) \/ \E r \in Run : TriggerCheckOrg(t, r)
        PROVE  IInv'
    BY <1>1, <2>1, <2>3, TriggerInvariant
  <2>4. ASSUME NEW c \in CancelReq, CancelWrite(c) \/ \E r \in Run : CancelRead(c, r)
        PROVE  IInv'
    BY <1>1, <2>1, <2>4, CancelInvariant
  <2>5. ASSUME NEW r \in Run,
               \/ WorkerStep(r) \/ RenewLease(r) \/ LeaseLost(r)
               \/ Sigterm(r) \/ Crash(r) \/ Restart(r)
        PROVE  IInv'
    BY <1>1, <2>1, <2>5, WorkerInvariant
  <2>6. ASSUME NEW r \in Run, TimePasses(r) PROVE IInv'
    BY <1>1, <2>1, <2>6, TimeInvariant
  <2>7. ASSUME Sweep PROVE IInv'
    BY <1>1, <2>1, <2>7, SweepInvariant
  <2>8. QED
    BY <1>1, <2>2, <2>3, <2>4, <2>5, <2>6, <2>7 DEF Next
<1>2. ASSUME IInv, CancelsNameRows, UNCHANGED vars PROVE (IInv /\ CancelsNameRows)'
  <2>1. TypeOK'
    BY <1>2, NextTyped DEF IInv
  <2>2. UNCHANGED <<status, worker, lease, trigger, container, started, cancel>>
    BY <1>2 DEF vars, rowVars, procVars
  <2>3. QED
    BY <1>2, <2>1, <2>2, QuietStep DEF CancelsNameRows
<1>3. QED
  BY <1>1, <1>2

LEMMA Invariance == Spec => [](IInv /\ CancelsNameRows)
<1>1. Init => IInv /\ CancelsNameRows
  BY InitInvariant, RunAssumption DEF Init, CancelsNameRows, IdleCancel
<1>2. QED
  BY <1>1, NextInvariant, PTL DEF Spec

\* The index check of createRun() is enough: the races between the reads of the
\* trigger handlers never leave a project with two unfinished runs.
THEOREM OneUnfinished == Spec => []OneUnfinishedRunPerProject
<1>1. IInv => OneUnfinishedRunPerProject
  BY DEF IInv
<1>2. QED
  BY <1>1, Invariance, PTL

\* Ownership and expiry are set and cleared together, and every running row has
\* both, so that the sweeper sees every dead worker.
THEOREM SweeperSeesEveryWorker == Spec => []RunningRowsAreLeased
<1>1. IInv => RunningRowsAreLeased
  BY DEF IInv
<1>2. QED
  BY <1>1, Invariance, PTL

\* No container extracts for a completed run.
THEOREM CompletedIsFinal == Spec => []CompletedRunIsQuiet
<1>1. IInv => CompletedRunIsQuiet
  BY DEF IInv
<1>2. QED
  BY <1>1, Invariance, PTL

-----------------------------------------------------------------------------
(* AssessmentRun implements RunStateMachine.                               *)

\* The abstract module reads the status column the same way.
LEMMA SameStatus ==
  /\ Promise!Status = Status
  /\ Promise!Indexed = Indexed
  /\ Promise!ValidTransitions = ValidTransitions
<1>1. Promise!Status = Status /\ Promise!Terminal = Terminal
  BY DEF Promise!Status, Status, Promise!Terminal, Terminal
<1>2. QED
  BY <1>1 DEF Promise!Indexed, Indexed, Promise!ValidTransitions, ValidTransitions

LEMMA OneRowMoves ==
  ASSUME TypeOK, TypeOK', NEW r \in Run,
         \A q \in Run : q # r => status'[q] = status[q],
         UNCHANGED retryCount,
         Promise!RowStep(r)
  PROVE  Promise!Next
<1>1. \A q \in Run : Promise!RowStep(q)
  BY DEF Promise!RowStep, Promise!Keep
<1>2. \A q, s \in Run : Promise!Create(q) /\ Promise!Create(s) => q = s
  BY DEF Promise!Create
<1>3. QED
  BY <1>1, <1>2, SameStatus DEF Promise!Next, TypeOK

LEMMA AdvanceIsRowStep ==
  ASSUME TypeOK, NEW r \in Run, UNCHANGED retryCount,
         status[r] # "absent", TriggerAllows(status[r], status'[r]),
         status[r] = "stalled" => status'[r] \notin {"queued", "failed"}
  PROVE  Promise!RowStep(r)
BY SameStatus DEF TypeOK, TriggerAllows, Promise!RowStep, Promise!Advance, Promise!Keep

LEMMA InitPromise == Init => Promise!Init
BY DEF Init, Promise!Init

\* The trigger handlers create a row or move their own.
LEMMA TriggerKeepsPromise ==
  ASSUME IInv, TypeOK', NEW t \in TriggerReq,
         TriggerStep(t) \/ \E r \in Run : TriggerCheckOrg(t, r)
  PROVE  Promise!Next \/ UNCHANGED <<status, retryCount>>
<1> DEFINE r == trigger[t].run
<1>1. trigger[t].pc # "idle" => r \in Run
  BY DEF IInv, TypeOK, TriggersHoldDistinctRows, IdleTrigger
<1>2. CASE TriggerInsert(t)
  <2>1. CASE Unfinished(ProjectOf[r]) # {}
    BY <1>2, <2>1 DEF TriggerInsert
  <2>2. CASE Unfinished(ProjectOf[r]) = {}
    <3>1. r \in Run /\ status[r] = "absent" /\ UNCHANGED retryCount
      BY <1>1, <1>2 DEF TriggerInsert, IInv, HeldRowsAreFresh
    <3>2. /\ status'[r] = "queued"
          /\ \A q \in Run : q # r => status'[q] = status[q]
      BY <1>2, <2>2, <3>1 DEF TriggerInsert, IInv, TypeOK
    <3>3. Promise!Unfinished(ProjectOf[r]) = {}
      BY <2>2, SameStatus DEF Unfinished, Promise!Unfinished
    <3>4. Promise!RowStep(r)
      BY <3>1, <3>2, <3>3 DEF Promise!RowStep, Promise!Create
    <3>5. QED
      BY <3>1, <3>2, <3>4, OneRowMoves DEF IInv
  <2>3. QED
    BY <2>1, <2>2
<1>3. CASE TriggerDispatch(t)
  <2>1. CASE status[r] # "queued"
    BY <1>3, <2>1 DEF TriggerDispatch
  <2>2. CASE status[r] = "queued"
    <3>1. r \in Run /\ UNCHANGED retryCount
      BY <1>1, <1>3 DEF TriggerDispatch
    <3>2. /\ status'[r] = "dispatched"
          /\ \A q \in Run : q # r => status'[q] = status[q]
      BY <1>3, <2>2, <3>1 DEF TriggerDispatch, IInv, TypeOK
    <3>3. "dispatched" \in ValidTransitions["queued"]
      BY DEF ValidTransitions, Status, Terminal
    <3>4. QED
      BY <2>2, <3>1, <3>2, <3>3, AdvanceIsRowStep, OneRowMoves DEF IInv, TriggerAllows
  <2>3. QED
    BY <2>1, <2>2
<1>4. QED
  BY <1>2, <1>3 DEF TriggerStep, TriggerCheckOrg, TriggerCheckCap, TriggerCheckRate,
    TriggerLaunch, TriggerAborts, rowVars

\* A cancel never fails or re-queues a row.
LEMMA CancelKeepsPromise ==
  ASSUME IInv, TypeOK', CancelsNameRows, NEW c \in CancelReq, CancelWrite(c)
  PROVE  Promise!Next \/ UNCHANGED <<status, retryCount>>
<1> DEFINE r == cancel[c].run
           target == CancelTarget(cancel[c].seen)
<1>1. UNCHANGED retryCount
  BY DEF CancelWrite
<1>2. CASE UNCHANGED status
  BY <1>1, <1>2
<1>3. CASE /\ r \in Run /\ TriggerAllows(status[r], target)
           /\ status' = [status EXCEPT ![r] = target]
  <2>1. /\ status'[r] = target
        /\ \A q \in Run : q # r => status'[q] = status[q]
    BY <1>3 DEF IInv, TypeOK
  <2>2. target \notin {"queued", "failed"} /\ status[r] # "absent"
    BY <1>3 DEF CancelTarget, CancelsNameRows
  <2>3. Promise!RowStep(r)
    BY <1>1, <1>3, <2>1, <2>2, AdvanceIsRowStep DEF IInv
  <2>4. QED
    BY <1>1, <1>3, <2>1, <2>3, OneRowMoves DEF IInv
<1>4. r \notin Run => UNCHANGED status
  BY DEF CancelWrite, IInv, TypeOK
<1>5. QED
  BY <1>2, <1>3, <1>4 DEF CancelWrite

\* A release is fenced by worker_id: the sweeper has cleared it on a stalled
\* row, which therefore is never failed by its old worker.
LEMMA ReleaseKeepsPromise ==
  ASSUME IInv, TypeOK', NEW r \in Run, NEW final \in Outcomes, ReleaseLease(r, final),
         container[r] # "none", UNCHANGED retryCount
  PROVE  Promise!Next \/ UNCHANGED <<status, retryCount>>
<1>1. CASE UNCHANGED status
  BY <1>1
<1>2. CASE /\ Owns(r)
           /\ TriggerAllows(status[r], final)
           /\ status' = [status EXCEPT ![r] = final]
  <2>1. worker[r] # 0
    BY <1>2 DEF Owns, IInv, ContainersAreNumbered
  <2>2. status[r] \in {"running", "cancel_requested", "cancelled"}
    BY <2>1 DEF IInv, RunningRowsAreLeased
  <2>3. /\ status'[r] = final
        /\ \A q \in Run : q # r => status'[q] = status[q]
    BY <1>2 DEF IInv, TypeOK
  <2>4. Promise!RowStep(r)
    BY <1>2, <2>2, <2>3, AdvanceIsRowStep DEF IInv
  <2>5. QED
    BY <2>3, <2>4, OneRowMoves DEF IInv
<1>3. QED
  BY <1>1, <1>2 DEF ReleaseLease

LEMMA WorkerKeepsPromise ==
  ASSUME IInv, TypeOK', NEW r \in Run, WorkerStep(r)
  PROVE  Promise!Next \/ UNCHANGED <<status, retryCount>>
<1>1. CASE Claim(r)
  <2>1. /\ status[r] = "dispatched" /\ status'[r] = "running"
        /\ \A q \in Run : q # r => status'[q] = status[q]
        /\ UNCHANGED retryCount
    BY <1>1 DEF Claim, ClaimGuard, IInv, TypeOK
  <2>2. "running" \in ValidTransitions["dispatched"]
    BY DEF ValidTransitions, Status, Terminal
  <2>3. QED
    BY <2>1, <2>2, AdvanceIsRowStep, OneRowMoves DEF IInv, TriggerAllows
<1>2. CASE Release(r)
  BY <1>2, ReleaseKeepsPromise DEF Release, IInv, TypeOK
<1>3. CASE SigtermShutdown(r)
  BY <1>3, ReleaseKeepsPromise DEF SigtermShutdown, Working, Outcomes
<1>4. QED
  BY <1>1, <1>2, <1>3 DEF WorkerStep, ClaimFails, CreateAttempt, PipelineReturns,
    CloseAttempt, rowVars

\* The edges of the two statements that find lost workers.
LEMMA SweepEdges ==
  /\ "stalled" \in ValidTransitions["running"]
  /\ "stalled" \in ValidTransitions["dispatched"]
  /\ {"running", "dispatched"} \subseteq Status
BY DEF ValidTransitions, Status, Terminal

\* Each UPDATE of the sweeper moves all its rows along one edge.
LEMMA SweepKeepsPromise ==
  ASSUME IInv, TypeOK', Sweep
  PROVE  Promise!Next \/ UNCHANGED <<status, retryCount>>
<1>1. ASSUME NEW r \in Run PROVE Promise!RowStep(r) /\ ~Promise!Create(r)
  <2>1. CASE SweepLeases
    BY <2>1, SweepEdges, SameStatus DEF SweepLeases, IInv, TypeOK, Promise!RowStep, Promise!Keep,
      Promise!Advance, Promise!Create
  <2>2. CASE SweepColdStart
    BY <2>2, SweepEdges, SameStatus DEF SweepColdStart, IInv, TypeOK, Promise!RowStep, Promise!Keep,
      Promise!Advance, Promise!Create
  <2>3. CASE SweepRequeue
    BY <2>3 DEF SweepRequeue, IInv, TypeOK, Promise!RowStep, Promise!Keep, Promise!Requeue,
      Promise!Create
  <2>4. CASE SweepGiveUp
    BY <2>4 DEF SweepGiveUp, IInv, TypeOK, Promise!RowStep, Promise!Keep, Promise!GiveUp,
      Promise!Create
  <2>5. CASE SweepAttempts \/ SweepNormalization
    BY <2>5 DEF SweepAttempts, SweepNormalization, rowVars, Promise!RowStep, Promise!Keep,
      Promise!Create
  <2>6. QED
    BY <2>1, <2>2, <2>3, <2>4, <2>5 DEF Sweep
<1>2. QED
  BY <1>1, SameStatus DEF Promise!Next, TypeOK

LEMMA NextKeepsPromise ==
  IInv /\ CancelsNameRows /\ [Next]_vars => [Promise!Next]_<<status, retryCount>>
<1>1. ASSUME IInv, CancelsNameRows, Next
      PROVE  Promise!Next \/ UNCHANGED <<status, retryCount>>
  <2>1. TypeOK'
    BY <1>1, NextTyped DEF IInv
  <2>2. ASSUME NEW t \in TriggerReq, TriggerStep(t) \/ \E r \in Run : TriggerCheckOrg(t, r)
        PROVE  Promise!Next \/ UNCHANGED <<status, retryCount>>
    BY <1>1, <2>1, <2>2, TriggerKeepsPromise
  <2>3. ASSUME NEW c \in CancelReq, CancelWrite(c) \/ \E r \in Run : CancelRead(c, r)
        PROVE  Promise!Next \/ UNCHANGED <<status, retryCount>>
    BY <1>1, <2>1, <2>3, CancelKeepsPromise DEF CancelRead, rowVars
  <2>4. ASSUME NEW r \in Run, WorkerStep(r)
        PROVE  Promise!Next \/ UNCHANGED <<status, retryCount>>
    BY <1>1, <2>1, <2>4, WorkerKeepsPromise
  <2>5. ASSUME NEW r \in Run,
               \/ RenewLease(r) \/ LeaseLost(r) \/ Sigterm(r) \/ Crash(r) \/ Restart(r)
               \/ TimePasses(r)
        PROVE  UNCHANGED <<status, retryCount>>
    BY <2>5 DEF rowVars, RenewLease, LeaseLost, Sigterm, Crash, Restart, TimePasses,
      LeaseAges, DispatchAges, AttemptAges, CreationAges
  <2>6. ASSUME Sweep PROVE Promise!Next \/ UNCHANGED <<status, retryCount>>
    BY <1>1, <2>1, <2>6, SweepKeepsPromise
  <2>7. QED
    BY <1>1, <2>2, <2>3, <2>4, <2>5, <2>6 DEF Next
<1>2. UNCHANGED vars => UNCHANGED <<status, retryCount>>
  BY DEF vars, rowVars
<1>3. QED
  BY <1>1, <1>2

\* API, worker and sweeper together keep what the table promises to pollers, for
\* any number of runs and handlers.
THEOREM Refinement == Spec => KeepsPromise
<1>1. QED
  BY InitPromise, Invariance, NextKeepsPromise, PTL DEF Spec, KeepsPromise, Promise!Spec
==============================================================================
