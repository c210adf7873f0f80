---------------------------- MODULE AssessmentRun ----------------------------
(***************************************************************************)
(* The life of an assessment run.  Four kinds of actors write the same     *)
(* assessment_runs row:                                                    *)
(*                                                                         *)
(*   - POST .../assessment/run handlers of the API (TriggerReq): three     *)
(*     reads, an INSERT, a compare-and-set UPDATE and the call that starts *)
(*     a Cloud Run execution, each with an await in between;               *)
(*   - POST .../cancel handlers (CancelReq): read the row, then UPDATE it  *)
(*     by id on the strength of what was read;                             *)
(*   - the worker container of the run, which claims it with a lease,      *)
(*     renews the lease from a timer, and releases it with a final status; *)
(*   - the sweeper, a pg_cron job of several UPDATE statements.            *)
(*                                                                         *)
(* Every UPDATE passes through the trigger modelled by TriggerAllows.      *)
(* NOW() comparisons are nondeterministic: a lease may lapse at any time   *)
(* (a stalled event loop, an unreachable database), however often it is    *)
(* renewed.  LeaseTiming models the clock.                                 *)
(***************************************************************************)
EXTENDS RunStatus, Naturals, FiniteSets

CONSTANTS
  Run,            \* ids of assessment_runs rows
  NoRun,          \* "no row"
  Project, Org,
  ProjectOf,      \* [Run -> Project]: the project a row id is created for
  OrgOf,          \* [Project -> Org]
  TriggerReq,     \* concurrent trigger requests
  CancelReq,      \* concurrent cancel requests
  MaxRetries,     \* assessment_runs.max_retries
  MaxGlobalRuns,  \* MAX_GLOBAL_CONCURRENT_RUNS
  JobRetries      \* restarts of a failed container by Cloud Run

ASSUME RunAssumption ==
  /\ NoRun \notin Run
  /\ ProjectOf \in [Run -> Project]
  /\ OrgOf \in [Project -> Org]
  /\ MaxRetries \in Nat
  /\ MaxGlobalRuns \in Nat
  /\ JobRetries \in Nat

VARIABLES
  \* columns of assessment_runs
  status,          \* "absent" until the row is inserted
  worker,          \* worker_id: number of the owning container, 0 for NULL
  lease,           \* lease_expires_at against NOW()
  retryCount,      \* retry_count
  recent,          \* created_at is less than five minutes ago
  coldLate,        \* dispatched_at is more than five minutes ago
  normalization,   \* normalization_status
  \* the run_attempts row of the run
  attempt,         \* exit_reason, "open" while ended_at is NULL
  attemptOld,      \* started_at is more than five minutes ago
  \* processes
  trigger,         \* trigger handlers
  cancel,          \* cancel handlers
  sweep,           \* the statement the sweeper executes next
  container,       \* where the run's worker process is
  started,         \* containers started for the run so far
  outcome,         \* what runPipeline() returned
  sigterm          \* a SIGTERM whose shutdown callback has not finished

rowVars  == <<status, worker, lease, retryCount, recent, coldLate, normalization>>
attVars  == <<attempt, attemptOld>>
procVars == <<container, started, outcome, sigterm>>
vars == <<rowVars, attVars, procVars, trigger, cancel, sweep>>

Leases     == {"null", "live", "expired", "overdue"}
Outcomes   == {"completed", "completed_warnings", "failed"}
Containers == {"none", "booting", "claimed", "extracting", "finishing",
               "released", "exit0", "exit1"}
TriggerPcs == {"idle", "orgChecked", "capChecked", "allowed", "inserted", "dispatched"}
Statements == {"leases", "coldStart", "requeue", "giveUp", "attempts", "normalization"}

TypeOK ==
  /\ status \in [Run -> Status \cup {"absent"}]
  /\ worker \in [Run -> 0..(JobRetries + 1)]
  /\ lease \in [Run -> Leases]
  /\ retryCount \in [Run -> Nat]
  /\ recent \in [Run -> BOOLEAN]
  /\ coldLate \in [Run -> BOOLEAN]
  /\ normalization \in [Run -> {"pending", "failed"}]
  /\ attempt \in [Run -> {"none", "open", "success", "infrastructure_kill"}]
  /\ attemptOld \in [Run -> BOOLEAN]
  /\ trigger \in [TriggerReq -> [pc : TriggerPcs, run : Run \cup {NoRun}]]
  /\ cancel \in [CancelReq -> [run : Run \cup {NoRun}, seen : Status]]
  /\ sweep \in Statements
  /\ container \in [Run -> Containers]
  /\ started \in [Run -> 0..(JobRetries + 1)]
  /\ outcome \in [Run -> Outcomes]
  /\ sigterm \in [Run -> {"none", "first", "late"}]

IdleTrigger == [pc |-> "idle", run |-> NoRun]
IdleCancel  == [run |-> NoRun, seen |-> "queued"]

Init ==
  /\ status = [r \in Run |-> "absent"]
  /\ worker = [r \in Run |-> 0]
  /\ lease = [r \in Run |-> "null"]
  /\ retryCount = [r \in Run |-> 0]
  /\ recent = [r \in Run |-> FALSE]
  /\ coldLate = [r \in Run |-> FALSE]
  /\ normalization = [r \in Run |-> "pending"]
  /\ attempt = [r \in Run |-> "none"]
  /\ attemptOld = [r \in Run |-> FALSE]
  /\ trigger = [t \in TriggerReq |-> IdleTrigger]
  /\ cancel = [c \in CancelReq |-> IdleCancel]
  /\ sweep = "leases"
  /\ container = [r \in Run |-> "none"]
  /\ started = [r \in Run |-> 0]
  /\ outcome = [r \in Run |-> "failed"]
  /\ sigterm = [r \in Run |-> "none"]

-----------------------------------------------------------------------------
(* Trigger handler.  Its reads are separate awaits; the id of the row it   *)
(* will insert is picked up front.                                         *)

CountedOfOrg(o) == {r \in Run : OrgOf[ProjectOf[r]] = o /\ status[r] \in Counted}
CountedRuns     == {r \in Run : status[r] \in Counted}
\* Mutant: the index misses stalled runs.
UnfinishedCounted(p) == {r \in Run : ProjectOf[r] = p /\ status[r] \in Counted}
Unfinished(p)   == {r \in Run : ProjectOf[r] = p /\ status[r] \in Indexed}

TriggerGoto(t, pc) == trigger' = [trigger EXCEPT ![t].pc = pc]
TriggerEnds(t)     == trigger' = [trigger EXCEPT ![t] = IdleTrigger]

\* countActiveRunsByOrg() > 0 answers 409 and leaves everything as it was.
TriggerCheckOrg(t, r) ==
  /\ trigger[t] = IdleTrigger
  /\ status[r] = "absent"
  /\ \A u \in TriggerReq : trigger[u].run # r
  /\ CountedOfOrg(OrgOf[ProjectOf[r]]) = {}
  /\ trigger' = [trigger EXCEPT ![t] = [pc |-> "orgChecked", run |-> r]]
  /\ UNCHANGED <<rowVars, attVars, procVars, cancel, sweep>>

TriggerCheckCap(t) ==
  /\ trigger[t].pc = "orgChecked"
  /\ IF Cardinality(CountedRuns) >= MaxGlobalRuns THEN TriggerEnds(t)
                                                  ELSE TriggerGoto(t, "capChecked")
  /\ UNCHANGED <<rowVars, attVars, procVars, cancel, sweep>>

\* The latest run of the project is recent iff some run of it is.
TriggerCheckRate(t) ==
  /\ trigger[t].pc = "capChecked"
  /\ IF \E q \in Run : ProjectOf[q] = ProjectOf[trigger[t].run] /\ recent[q]
       THEN TriggerEnds(t)
       ELSE TriggerGoto(t, "allowed")
  /\ UNCHANGED <<rowVars, attVars, procVars, cancel, sweep>>

\* createRun(): the partial unique index rejects a second unfinished run.
TriggerInsert(t) ==
  LET r == trigger[t].run IN
  /\ trigger[t].pc = "allowed"
  /\ IF Unfinished(ProjectOf[r]) # {}
       THEN /\ TriggerEnds(t)
            /\ UNCHANGED <<status, recent>>
       ELSE /\ TriggerGoto(t, "inserted")
            /\ status' = [status EXCEPT ![r] = "queued"]
            /\ recent' = [recent EXCEPT ![r] = TRUE]
  /\ UNCHANGED <<worker, lease, retryCount, coldLate, normalization,
                 attVars, procVars, cancel, sweep>>

\* casDispatch(): WHERE id = r AND status = 'queued'.
TriggerDispatch(t) ==
  LET r == trigger[t].run IN
  /\ trigger[t].pc = "inserted"
  /\ IF status[r] = "queued"
       THEN /\ status' = [status EXCEPT ![r] = "dispatched"]
            /\ TriggerGoto(t, "dispatched")
       ELSE /\ TriggerEnds(t)
            /\ UNCHANGED status
  /\ UNCHANGED <<worker, lease, retryCount, recent, coldLate, normalization,
                 attVars, procVars, cancel, sweep>>

\* dispatchWorker(): fire and forget; a failed call is only logged.
TriggerLaunch(t) ==
  LET r == trigger[t].run IN
  /\ trigger[t].pc = "dispatched"
  /\ TriggerEnds(t)
  /\ \/ /\ container' = [container EXCEPT ![r] = "booting"]
        /\ started' = [started EXCEPT ![r] = 1]
     \/ UNCHANGED <<container, started>>
  /\ UNCHANGED <<rowVars, attVars, outcome, sigterm, cancel, sweep>>

\* The API instance dies, or an awaited call throws, between two steps.
TriggerAborts(t) ==
  /\ trigger[t] # IdleTrigger
  /\ TriggerEnds(t)
  /\ UNCHANGED <<rowVars, attVars, procVars, cancel, sweep>>

TriggerStep(t) ==
  \/ TriggerCheckCap(t) \/ TriggerCheckRate(t) \/ TriggerInsert(t)
  \/ TriggerDispatch(t) \/ TriggerLaunch(t) \/ TriggerAborts(t)

-----------------------------------------------------------------------------
(* Cancel handler.  A terminal row, or one already in cancel_requested,    *)
(* is answered without an UPDATE.                                          *)

CancelRead(c, r) ==
  /\ cancel[c] = IdleCancel
  /\ status[r] \in Status \ (Terminal \cup {"cancel_requested"})
  /\ cancel' = [cancel EXCEPT ![c] = [run |-> r, seen |-> status[r]]]
  /\ UNCHANGED <<rowVars, attVars, procVars, trigger, sweep>>

CancelTarget(seen) == IF seen = "running" THEN "cancel_requested" ELSE "cancelled"

\* updateRunStatus(): WHERE id = r only.  If the trigger raises, the handler
\* answers 500 and the row is unchanged.
CancelWrite(c) ==
  LET r      == cancel[c].run
      target == CancelTarget(cancel[c].seen) IN
  /\ cancel[c] # IdleCancel
  /\ status' = IF TriggerAllows(status[r], target)
                 THEN [status EXCEPT ![r] = target] ELSE status
  /\ cancel' = [cancel EXCEPT ![c] = IdleCancel]
  /\ UNCHANGED <<worker, lease, retryCount, recent, coldLate, normalization,
                 attVars, procVars, trigger, sweep>>

-----------------------------------------------------------------------------
(* Worker container: main() of the worker, the lease manager, the SIGTERM  *)
(* callback, and Cloud Run's restart of a container that exits with 1.     *)

\* The process has reached claim() successfully and still runs.
Working(r) == container[r] \in {"claimed", "extracting", "finishing", "released"}
Alive(r)   == container[r] = "booting" \/ Working(r)

\* WHERE worker_id = self.
Owns(r) == worker[r] = started[r]

ContainerGoto(r, pc) == container' = [container EXCEPT ![r] = pc]

ExitWith1(r) ==
  /\ ContainerGoto(r, "exit1")
  /\ sigterm' = [sigterm EXCEPT ![r] = "none"]

ClaimGuard(r) ==
  /\ status[r] = "dispatched"
  /\ worker[r] = 0 \/ lease[r] \in {"expired", "overdue"}

\* Mutant: the claim does not set an expiry time.
ClaimWithoutExpiry(r) ==
  /\ container[r] = "booting"
  /\ ClaimGuard(r)
  /\ status' = [status EXCEPT ![r] = "running"]
  /\ worker' = [worker EXCEPT ![r] = started[r]]
  /\ ContainerGoto(r, "claimed")
  /\ UNCHANGED <<lease, retryCount, recent, coldLate, normalization, attVars,
                 started, outcome, sigterm, trigger, cancel, sweep>>

\* LeaseManager.claim()
Claim(r) ==
  /\ container[r] = "booting"
  /\ ClaimGuard(r)
  /\ status' = [status EXCEPT ![r] = "running"]
  /\ worker' = [worker EXCEPT ![r] = started[r]]
  /\ lease' = [lease EXCEPT ![r] = "live"]
  /\ ContainerGoto(r, "claimed")
  /\ UNCHANGED <<retryCount, recent, coldLate, normalization, attVars,
                 started, outcome, sigterm, trigger, cancel, sweep>>

\* Mutant: the result of the claim is ignored.
ClaimFailsGoesOn(r) ==
  /\ container[r] = "booting"
  /\ ~ClaimGuard(r)
  /\ ContainerGoto(r, "claimed")
  /\ UNCHANGED <<rowVars, attVars, started, outcome, sigterm, trigger, cancel, sweep>>

\* No row matched: process.exit(1).
ClaimFails(r) ==
  /\ container[r] = "booting"
  /\ ~ClaimGuard(r)
  /\ ExitWith1(r)
  /\ UNCHANGED <<rowVars, attVars, started, outcome, trigger, cancel, sweep>>

\* createRunAttempt(), then startHeartbeat().
CreateAttempt(r) ==
  /\ container[r] = "claimed"
  /\ ContainerGoto(r, "extracting")
  /\ attempt' = [attempt EXCEPT ![r] = "open"]
  /\ UNCHANGED <<rowVars, attemptOld, started, outcome, sigterm,
                 trigger, cancel, sweep>>

\* The renewal timer runs until stopHeartbeat(); a renewal that was waiting to
\* retry then may still be issued later, until the process exits.
HeartbeatActive(r) == container[r] \in {"extracting", "finishing", "released"}

\* LeaseManager.renew(): WHERE worker_id = self, whatever the status.
RenewLease(r) ==
  /\ HeartbeatActive(r)
  /\ Owns(r)
  /\ lease' = [lease EXCEPT ![r] = "live"]
  /\ UNCHANGED <<status, worker, retryCount, recent, coldLate, normalization,
                 attVars, procVars, trigger, cancel, sweep>>

\* renew() matched no row: process.exit(1).
LeaseLost(r) ==
  /\ HeartbeatActive(r)
  /\ ~Owns(r)
  /\ ExitWith1(r)
  /\ UNCHANGED <<rowVars, attVars, started, outcome, trigger, cancel, sweep>>

\* runPipeline() returns.  A cancellation only makes the collectors that have
\* not started yet return empty results, which count as successes.
PipelineReturns(r) ==
  /\ container[r] = "extracting"
  /\ \E o \in Outcomes : outcome' = [outcome EXCEPT ![r] = o]
  /\ ContainerGoto(r, "finishing")
  /\ UNCHANGED <<rowVars, attVars, started, sigterm, trigger, cancel, sweep>>

\* Mutants: the release is not fenced by worker_id; it clears the lease also when
\* the trigger refuses the status.
ReleaseUnfenced(r, final) ==
  \/ /\ TriggerAllows(status[r], final)
     /\ status' = [status EXCEPT ![r] = final]
     /\ worker' = [worker EXCEPT ![r] = 0]
     /\ lease' = [lease EXCEPT ![r] = "null"]
  \/ UNCHANGED <<status, worker, lease>>

ReleaseInTwoParts(r, final) ==
  \/ /\ Owns(r)
     /\ status' = IF TriggerAllows(status[r], final)
                    THEN [status EXCEPT ![r] = final] ELSE status
     /\ worker' = [worker EXCEPT ![r] = 0]
     /\ UNCHANGED lease
  \/ UNCHANGED <<status, worker, lease>>

\* LeaseManager.release(): nothing changes when no row matches, when the
\* trigger raises or when the database is unreachable: errors are swallowed.
ReleaseLease(r, final) ==
  \/ /\ Owns(r)
     /\ TriggerAllows(status[r], final)
     /\ status' = [status EXCEPT ![r] = final]
     /\ worker' = [worker EXCEPT ![r] = 0]
     /\ lease' = [lease EXCEPT ![r] = "null"]
  \/ UNCHANGED <<status, worker, lease>>

\* Both releases use the one-connection heartbeat pool, so that a SIGTERM which
\* arrived before the pipeline returned is served first.
Release(r) ==
  /\ container[r] = "finishing"
  /\ sigterm[r] # "first"
  /\ ReleaseLease(r, outcome[r])
  /\ ContainerGoto(r, "released")
  /\ UNCHANGED <<retryCount, recent, coldLate, normalization, attVars,
                 started, outcome, sigterm, trigger, cancel, sweep>>

\* updateRunAttempt(..., 0, 'success') for every outcome; its errors are
\* swallowed too.  Then process.exit(0).
CloseAttempt(r) ==
  /\ container[r] = "released"
  /\ attempt' \in {attempt, [attempt EXCEPT ![r] = "success"]}
  /\ ContainerGoto(r, "exit0")
  /\ sigterm' = [sigterm EXCEPT ![r] = "none"]
  /\ UNCHANGED <<rowVars, attemptOld, started, outcome, trigger, cancel, sweep>>

\* The handler is registered right after the claim.
Sigterm(r) ==
  /\ Working(r)
  /\ sigterm[r] = "none"
  /\ sigterm' = [sigterm EXCEPT ![r] =
                   IF container[r] \in {"claimed", "extracting"} THEN "first" ELSE "late"]
  /\ UNCHANGED <<rowVars, attVars, container, started, outcome,
                 trigger, cancel, sweep>>

\* The shutdown callback: release('failed'), then process.exit(1).
SigtermShutdown(r) ==
  /\ Working(r)
  /\ \/ sigterm[r] = "first"
     \/ sigterm[r] = "late" /\ container[r] = "released"
  /\ ReleaseLease(r, "failed")
  /\ ExitWith1(r)
  /\ UNCHANGED <<retryCount, recent, coldLate, normalization, attVars,
                 started, outcome, trigger, cancel, sweep>>

\* An uncaught error, three failed renewals in a row, SIGKILL, out of memory.
\* The catch block of main() neither releases the lease nor ends the attempt.
Crash(r) ==
  /\ Alive(r)
  /\ ExitWith1(r)
  /\ UNCHANGED <<rowVars, attVars, started, outcome, trigger, cancel, sweep>>

\* Mutant: restarts without a limit.
RestartForever(r) ==
  /\ container[r] = "exit1"
  /\ started' = [started EXCEPT ![r] = @ + 1]
  /\ ContainerGoto(r, "booting")
  /\ UNCHANGED <<rowVars, attVars, outcome, sigterm, trigger, cancel, sweep>>

\* Cloud Run restarts a failed task with the same RUN_ID.
Restart(r) ==
  /\ container[r] = "exit1"
  /\ started[r] <= JobRetries
  /\ started' = [started EXCEPT ![r] = @ + 1]
  /\ ContainerGoto(r, "booting")
  /\ UNCHANGED <<rowVars, attVars, outcome, sigterm, trigger, cancel, sweep>>

WorkerStep(r) ==
  \/ Claim(r) \/ ClaimFails(r) \/ CreateAttempt(r) \/ PipelineReturns(r)
  \/ Release(r) \/ CloseAttempt(r) \/ SigtermShutdown(r)

-----------------------------------------------------------------------------
(* Sweeper: six UPDATE statements in the order of the script.  The seventh *)
(* clears idempotency keys, which are not modelled.                        *)

SweepLeases ==
  LET lost == {r \in Run : status[r] = "running" /\ lease[r] = "overdue"} IN
  /\ sweep = "leases" /\ sweep' = "coldStart"
  /\ status' = [r \in Run |-> IF r \in lost THEN "stalled" ELSE status[r]]
  /\ worker' = [r \in Run |-> IF r \in lost THEN 0 ELSE worker[r]]
  /\ lease' = [r \in Run |-> IF r \in lost THEN "null" ELSE lease[r]]
  /\ UNCHANGED <<retryCount, recent, coldLate, normalization, attVars, procVars,
                 trigger, cancel>>

SweepColdStart ==
  LET late == {r \in Run : status[r] = "dispatched" /\ coldLate[r]} IN
  /\ sweep = "coldStart" /\ sweep' = "requeue"
  /\ status' = [r \in Run |-> IF r \in late THEN "stalled" ELSE status[r]]
  /\ UNCHANGED <<worker, lease, retryCount, recent, coldLate, normalization,
                 attVars, procVars, trigger, cancel>>

SweepRequeue ==
  LET retry == {r \in Run : status[r] = "stalled" /\ retryCount[r] < MaxRetries} IN
  /\ sweep = "requeue" /\ sweep' = "giveUp"
  /\ status' = [r \in Run |-> IF r \in retry THEN "queued" ELSE status[r]]
  /\ retryCount' = [r \in Run |-> IF r \in retry THEN retryCount[r] + 1
                                                 ELSE retryCount[r]]
  /\ UNCHANGED <<worker, lease, recent, coldLate, normalization, attVars, procVars,
                 trigger, cancel>>

SweepGiveUp ==
  LET spent == {r \in Run : status[r] = "stalled" /\ retryCount[r] >= MaxRetries} IN
  /\ sweep = "giveUp" /\ sweep' = "attempts"
  /\ status' = [r \in Run |-> IF r \in spent THEN "failed" ELSE status[r]]
  /\ UNCHANGED <<worker, lease, retryCount, recent, coldLate, normalization,
                 attVars, procVars, trigger, cancel>>

\* Mutant: only the attempts of finished runs are closed.
SweepFinishedAttempts ==
  LET dangling == {r \in Run : attempt[r] = "open" /\ attemptOld[r]
                                 /\ status[r] \in Terminal} IN
  /\ sweep = "attempts" /\ sweep' = "normalization"
  /\ attempt' = [r \in Run |-> IF r \in dangling THEN "infrastructure_kill"
                                                 ELSE attempt[r]]
  /\ UNCHANGED <<rowVars, attemptOld, procVars, trigger, cancel>>

SweepAttempts ==
  LET dangling == {r \in Run : attempt[r] = "open" /\ attemptOld[r]} IN
  /\ sweep = "attempts" /\ sweep' = "normalization"
  /\ attempt' = [r \in Run |-> IF r \in dangling THEN "infrastructure_kill"
                                                 ELSE attempt[r]]
  /\ UNCHANGED <<rowVars, attemptOld, procVars, trigger, cancel>>

\* Any of the finished rows may have completed_at more than ten minutes ago.
SweepNormalization ==
  /\ sweep = "normalization" /\ sweep' = "leases"
  /\ \E old \in SUBSET {r \in Run : status[r] \in {"completed", "completed_warnings"}} :
       normalization' = [r \in Run |-> IF r \in old THEN "failed" ELSE normalization[r]]
  /\ UNCHANGED <<status, worker, lease, retryCount, recent, coldLate,
                 attVars, procVars, trigger, cancel>>

Sweep == \/ SweepLeases \/ SweepColdStart \/ SweepRequeue
         \/ SweepGiveUp \/ SweepAttempts \/ SweepNormalization

-----------------------------------------------------------------------------
(* The clock, as the comparisons with NOW() see it.                        *)

LeaseAges(r) ==
  /\ lease[r] \in {"live", "expired"}
  /\ lease' = [lease EXCEPT ![r] = IF @ = "live" THEN "expired" ELSE "overdue"]
  /\ UNCHANGED <<status, worker, retryCount, recent, coldLate, normalization,
                 attVars, procVars, trigger, cancel, sweep>>

DispatchAges(r) ==
  /\ status[r] = "dispatched" /\ ~coldLate[r]
  /\ coldLate' = [coldLate EXCEPT ![r] = TRUE]
  /\ UNCHANGED <<status, worker, lease, retryCount, recent, normalization,
                 attVars, procVars, trigger, cancel, sweep>>

AttemptAges(r) ==
  /\ attempt[r] # "none" /\ ~attemptOld[r]
  /\ attemptOld' = [attemptOld EXCEPT ![r] = TRUE]
  /\ UNCHANGED <<rowVars, attempt, procVars, trigger, cancel, sweep>>

CreationAges(r) ==
  /\ recent[r]
  /\ recent' = [recent EXCEPT ![r] = FALSE]
  /\ UNCHANGED <<status, worker, lease, retryCount, coldLate, normalization,
                 attVars, procVars, trigger, cancel, sweep>>

TimePasses(r) == LeaseAges(r) \/ DispatchAges(r) \/ AttemptAges(r) \/ CreationAges(r)

-----------------------------------------------------------------------------
Next ==
  \/ \E t \in TriggerReq : TriggerStep(t) \/ \E r \in Run : TriggerCheckOrg(t, r)
  \/ \E c \in CancelReq : CancelWrite(c) \/ \E r \in Run : CancelRead(c, r)
  \/ \E r \in Run : WorkerStep(r) \/ RenewLease(r) \/ LeaseLost(r) \/ Sigterm(r)
                      \/ Crash(r) \/ Restart(r) \/ TimePasses(r)
  \/ Sweep

Spec == Init /\ [][Next]_vars

\* API handlers and the worker's own code run on until they finish or abort (a
\* task is killed after the 3600 s timeout of the Cloud Run job at the latest);
\* pg_cron keeps starting the sweeper; time passes.  Nothing forces a user to
\* cancel, a container to be killed, or Cloud Run to restart it.
Fairness ==
  /\ \A t \in TriggerReq : WF_vars(TriggerStep(t))
  /\ \A c \in CancelReq : WF_vars(CancelWrite(c))
  /\ \A r \in Run : WF_vars(WorkerStep(r)) /\ WF_vars(LeaseAges(r))
                       /\ WF_vars(DispatchAges(r)) /\ WF_vars(AttemptAges(r))
  /\ WF_vars(Sweep)

FairSpec == Spec /\ Fairness

-----------------------------------------------------------------------------
(* Properties that hold.                                                   *)

\* A project never has two unfinished runs, whatever the trigger handlers of
\* its users interleave: the index that guards createRun() covers every status
\* from which a run can still move, also the stalled ones.
OneUnfinishedRunPerProject ==
  \A r, q \in Run :
    /\ ProjectOf[r] = ProjectOf[q]
    /\ status[r] \in Indexed /\ status[q] \in Indexed
    => r = q

\* The sweeper can find every running row whose worker is gone: such a row
\* always carries an owner and an expiry time.  An owner is only ever recorded
\* on a row that was running; the release, which may be refused by the trigger,
\* never clears one without the other.
RunningRowsAreLeased ==
  \A r \in Run :
    /\ status[r] = "running" => worker[r] # 0
    /\ worker[r] # 0 <=> lease[r] # "null"
    /\ worker[r] # 0 => status[r] \in {"running", "cancel_requested", "cancelled"}

\* Nobody extracts for a run that a client already sees as completed: the
\* findings behind a finished assessment do not change any more, even though
\* Cloud Run may have started a second container for the run.
CompletedRunIsQuiet ==
  \A r \in Run :
    status[r] \in {"completed", "completed_warnings"} =>
      container[r] \notin {"claimed", "extracting", "finishing"}

\* What pollers of the table are promised (RunStateMachine): legal moves only,
\* one unfinished run per project, and a stalled run with retries left is
\* re-queued, never failed, although API, sweeper and worker race for the row.
Promise == INSTANCE RunStateMachine WITH status <- status, retryCount <- retryCount
KeepsPromise == Promise!Spec

\* No run stays dispatched or running for ever: a lost dispatch, a worker that
\* dies silently and a release that fails are all detected by the sweeper.
InFlightIsTransient ==
  \A r \in Run : status[r] \in {"dispatched", "running"}
                   ~> status[r] \notin {"dispatched", "running"}

\* Every run attempt is eventually closed, by its worker or by the sweeper.
AttemptsAreClosed == \A r \in Run : attempt[r] = "open" ~> attempt[r] # "open"

-----------------------------------------------------------------------------
(* A statement of the documents that the code does not keep.               *)

\* docs/MANUAL-TESTING-GUIDE.md:337, "Status transitions to cancel_requested ->
\* cancelled".  Weakened to any terminal status.
CancelCompletes ==
  \A r \in Run : status[r] = "cancel_requested" ~> status[r] \in Terminal
==============================================================================
