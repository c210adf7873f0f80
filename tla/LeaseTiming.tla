----------------------------- MODULE LeaseTiming -----------------------------
(***************************************************************************)
(* The clock behind the lease of a running assessment run: the worker's    *)
(* renewal timer with its retries, the expiry time in the row, and the     *)
(* periodic sweeper.  AssessmentRun lets a lease lapse at any moment; this *)
(* module says when it may.                                                *)
(*                                                                         *)
(* Time advances in ticks.  The timer fires again after Interval whether   *)
(* or not the previous renewal is over, so two renewals may overlap (Slot).*)
(* The heartbeat pool has no statement timeout of its own: QueryMax is an  *)
(* assumption about the database, and Lag one about the event loop.        *)
(***************************************************************************)
EXTENDS Integers

CONSTANTS
  Lease,      \* LEASE_DURATION_SECONDS
  Interval,   \* HEARTBEAT_INTERVAL_MS
  BackOff,    \* unit of the pause between two tries of renew()
  Buffer,     \* what the sweeper adds to the expiry time
  Period,     \* the schedule of the sweeper
  QueryMax,   \* an UPDATE of the lease is answered or fails within this time
  Lag,        \* how late the event loop may run the timer
  SetupMax    \* time from the claim to startHeartbeat()

\* All the tries of one renewal and the two pauses between them.
RoundMax == 3 * QueryMax + 3 * BackOff

ASSUME TimingAssumption ==
  /\ {Lease, Interval, BackOff, Buffer, Period, QueryMax, Lag, SetupMax} \subseteq Nat
  /\ Interval > 0 /\ Period > 0
  \* a renewal is over before the next but one begins
  /\ RoundMax < 2 * Interval

\* The longest a working process goes without writing its lease: until the first
\* heartbeat, a late one, and a renewal whose last try succeeds in the end.
RenewalGap == SetupMax + Interval + Lag + RoundMax

\* True of the deployed values as long as the database answers.
LeaseOutlastsRenewal == RenewalGap <= Lease + Buffer

Slot == {0, 1}

VARIABLES
  row,      \* status of the run, as far as the sweeper cares
  since,    \* ticks since lease_expires_at was written to NOW() + Lease
  worker,   \* the worker process
  beat,     \* ticks until the timer is due
  pc,       \* renew() in each slot: idle, statement sent, waiting to retry
  try,      \* its loop variable attempt
  clock,    \* ticks since the statement was sent, or since the wait began
  stmt,     \* what the statement did: not executed yet, matched the row, or not
  next      \* ticks until the sweeper runs

workerVars == <<worker, beat, pc, try, clock, stmt>>
vars == <<row, since, next, workerVars>>

TypeOK ==
  /\ row \in {"running", "stalled", "released"}
  /\ since \in Nat
  /\ worker \in {"starting", "alive", "closing", "crashed", "exited"}
  /\ beat \in (-Lag)..Interval
  /\ pc \in [Slot -> {"idle", "sent", "waiting"}]
  /\ try \in [Slot -> 0..2]
  /\ clock \in [Slot -> Nat]
  /\ stmt \in [Slot -> {"pending", "matched", "unmatched"}]
  /\ next \in 0..Period

\* claim() has just succeeded, at any point of the sweeper's period.
Init ==
  /\ row = "running"
  /\ since = 0
  /\ worker = "starting"
  /\ beat = Interval
  /\ pc = [s \in Slot |-> "idle"]
  /\ try = [s \in Slot |-> 0]
  /\ clock = [s \in Slot |-> 0]
  /\ stmt = [s \in Slot |-> "pending"]
  /\ next \in 0..Period

Ended == worker \in {"crashed", "exited"}

\* The process is gone with all that it had in flight.
Ends(how) ==
  /\ worker' = how
  /\ pc' = [s \in Slot |-> "idle"]
  /\ UNCHANGED <<row, since, next, beat, try, clock, stmt>>

StartHeartbeat ==
  /\ worker = "starting"
  /\ worker' = "alive"
  /\ beat' = Interval
  /\ UNCHANGED <<row, since, next, pc, try, clock, stmt>>

\* Send the statement of try n.
Send(s, n) ==
  /\ pc' = [pc EXCEPT ![s] = "sent"]
  /\ try' = [try EXCEPT ![s] = n]
  /\ clock' = [clock EXCEPT ![s] = 0]
  /\ stmt' = [stmt EXCEPT ![s] = "pending"]

\* The timer callback.
Heartbeat(s) ==
  /\ worker = "alive" /\ beat <= 0 /\ pc[s] = "idle"
  /\ Send(s, 0)
  /\ beat' = Interval
  /\ UNCHANGED <<row, since, next, worker>>

\* The database executes UPDATE ... WHERE worker_id = self; the sweeper and the
\* release clear worker_id.
Execute(s) ==
  /\ pc[s] = "sent" /\ stmt[s] = "pending"
  /\ IF row = "running"
       THEN stmt' = [stmt EXCEPT ![s] = "matched"] /\ since' = 0
       ELSE stmt' = [stmt EXCEPT ![s] = "unmatched"] /\ UNCHANGED since
  /\ UNCHANGED <<row, next, worker, beat, pc, try, clock>>

Renewed(s) ==
  /\ pc[s] = "sent" /\ stmt[s] = "matched"
  /\ pc' = [pc EXCEPT ![s] = "idle"]
  /\ UNCHANGED <<row, since, next, worker, beat, try, clock, stmt>>

\* No row came back: the callback exits the process.
LeaseLost(s) ==
  /\ pc[s] = "sent" /\ stmt[s] = "unmatched"
  /\ Ends("exited")

\* The statement fails, executed or not; after a pause it is sent again.
TryFails(s) ==
  /\ pc[s] = "sent" /\ try[s] < 2
  /\ pc' = [pc EXCEPT ![s] = "waiting"]
  /\ clock' = [clock EXCEPT ![s] = 0]
  /\ UNCHANGED <<row, since, next, worker, beat, try, stmt>>

TryAgain(s) ==
  /\ pc[s] = "waiting" /\ clock[s] = BackOff * (try[s] + 1)
  /\ Send(s, try[s] + 1)
  /\ UNCHANGED <<row, since, next, worker, beat>>

\* Mutant: a failed renewal is left to the next heartbeat.
RenewalFailsQuietly(s) ==
  /\ pc[s] = "sent" /\ try[s] = 2
  /\ pc' = [pc EXCEPT ![s] = "idle"]
  /\ UNCHANGED <<row, since, next, worker, beat, try, clock, stmt>>

\* The last try fails: renew() returns false, and the callback exits.
RenewalFails(s) ==
  /\ pc[s] = "sent" /\ try[s] = 2
  /\ Ends("exited")

Crash ==
  /\ ~Ended
  /\ Ends("crashed")

\* Mutant: the buffer is counted twice.
SweepLate ==
  /\ next = 0
  /\ next' = Period
  /\ row' = IF row = "running" /\ since > Lease + 2 * Buffer THEN "stalled" ELSE row
  /\ UNCHANGED <<since, workerVars>>

\* stopHeartbeat() and release().  The heartbeat pool has one connection: a
\* statement that is under way is executed first, but a renewal that waits for
\* its next try will still send it.
Release ==
  /\ worker = "alive"
  /\ \A s \in Slot : pc[s] = "sent" => stmt[s] # "pending"
  /\ worker' = "closing"
  /\ row' = IF row = "running" THEN "released" ELSE row
  /\ UNCHANGED <<since, next, beat, pc, try, clock, stmt>>

\* The attempt is closed and the process exits with 0.
Exit ==
  /\ worker = "closing"
  /\ Ends("exited")

Sweep ==
  /\ next = 0
  /\ next' = Period
  /\ row' = IF row = "running" /\ since > Lease + Buffer THEN "stalled" ELSE row
  /\ UNCHANGED <<since, workerVars>>

\* Mutant: the timer does not have to be served.
TickPastTimer ==
  /\ next > 0
  /\ \A s \in Slot : /\ pc[s] = "sent" => clock[s] < QueryMax
                     /\ pc[s] = "waiting" => clock[s] < BackOff * (try[s] + 1)
  /\ next' = next - 1
  /\ since' = IF row = "running" THEN since + 1 ELSE since
  /\ beat' = IF worker = "alive" THEN beat - 1 ELSE beat
  /\ clock' = [s \in Slot |-> IF pc[s] = "idle" THEN clock[s] ELSE clock[s] + 1]
  /\ UNCHANGED <<row, worker, pc, try, stmt>>

\* Time passes unless something is due.
Tick ==
  /\ next > 0
  /\ worker = "starting" => since < SetupMax
  /\ worker = "alive" => beat > -Lag
  /\ \A s \in Slot : /\ pc[s] = "sent" => clock[s] < QueryMax
                     /\ pc[s] = "waiting" => clock[s] < BackOff * (try[s] + 1)
  /\ next' = next - 1
  /\ since' = IF row = "running" \/ worker \in {"starting", "alive"} THEN since + 1 ELSE since
  /\ beat' = IF worker = "alive" THEN beat - 1 ELSE beat
  /\ clock' = [s \in Slot |-> IF pc[s] = "idle" THEN clock[s] ELSE clock[s] + 1]
  /\ UNCHANGED <<row, worker, pc, try, stmt>>

Next ==
  \/ StartHeartbeat \/ Release \/ Exit \/ Crash \/ Sweep \/ Tick
  \/ \E s \in Slot : \/ Heartbeat(s) \/ Execute(s) \/ Renewed(s) \/ LeaseLost(s)
                     \/ TryFails(s) \/ TryAgain(s) \/ RenewalFails(s)

Spec == Init /\ [][Next]_vars

-----------------------------------------------------------------------------
(* Properties.                                                             *)

\* The run of a worker that stopped renewing is taken back in time: "Worst-case
\* detection: 90s + 30s buffer + 120s sweeper" (lease.ts:9), whatever the phase
\* of the sweeper when the worker died.
DetectedInTime == row = "running" => since <= Lease + Buffer + Period

\* A worker that cannot renew does not go on extracting for ever: the heartbeat
\* ends it within a bounded time, whether or not the sweeper has taken its run.
GivesUpInTime == worker \in {"starting", "alive"} => since <= RenewalGap

\* The lease is exclusive: when the sweeper takes a run away, its worker has
\* ended, because a worker that cannot renew gives up before its lease and the
\* buffer are over.  Nothing else keeps an old worker from writing findings.
SelfFencing == row = "stalled" => worker \notin {"starting", "alive"}

==============================================================================
