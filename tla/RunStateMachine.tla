--------------------------- MODULE RunStateMachine ---------------------------
(***************************************************************************)
(* What the assessment-run table promises to everybody who polls it,       *)
(* whoever writes the rows: at most one unfinished run per project, legal  *)
(* status changes only, terminal rows frozen, and a retry budget that is   *)
(* spent one unit per re-queue and must be exhausted before the sweeper    *)
(* gives a stalled run up.                                                 *)
(*                                                                         *)
(* One step may move several rows: an UPDATE of the sweeper does.          *)
(***************************************************************************)
EXTENDS RunStatus, Naturals

CONSTANTS
  Run,          \* ids of assessment_runs rows
  Project,      \* projects
  ProjectOf,    \* the project a run id is created for
  MaxRetries    \* column max_retries (default 2)

VARIABLES
  status,       \* [Run -> Status \cup {"absent"}]; "absent": not inserted yet
  retryCount    \* [Run -> Nat]; column retry_count

Unfinished(p) == {r \in Run : ProjectOf[r] = p /\ status[r] \in Indexed}

Init ==
  /\ status = [r \in Run |-> "absent"]
  /\ retryCount = [r \in Run |-> 0]

Create(r) ==
  /\ status[r] = "absent"
  /\ Unfinished(ProjectOf[r]) = {}
  /\ status'[r] = "queued"
  /\ retryCount'[r] = retryCount[r]

Requeue(r) ==
  /\ status[r] = "stalled" /\ status'[r] = "queued"
  /\ retryCount[r] < MaxRetries
  /\ retryCount'[r] = retryCount[r] + 1

\* Only the sweeper fails a stalled run, and only once its budget is spent.
GiveUp(r) ==
  /\ status[r] = "stalled" /\ status'[r] = "failed"
  /\ retryCount[r] >= MaxRetries
  /\ retryCount'[r] = retryCount[r]

Advance(r) ==
  /\ status[r] \in Status /\ status'[r] \in ValidTransitions[status[r]]
  /\ ~(status[r] = "stalled" /\ status'[r] \in {"queued", "failed"})
  /\ retryCount'[r] = retryCount[r]

Keep(r) == status'[r] = status[r] /\ retryCount'[r] = retryCount[r]

RowStep(r) == Create(r) \/ Requeue(r) \/ GiveUp(r) \/ Advance(r) \/ Keep(r)

Next ==
  /\ status' \in [Run -> Status \cup {"absent"}]
  /\ retryCount' \in [Run -> Nat]
  /\ \A r \in Run : RowStep(r)
  \* rows are inserted one at a time
  /\ \A r, q \in Run : Create(r) /\ Create(q) => r = q

Spec == Init /\ [][Next]_<<status, retryCount>>
==============================================================================
