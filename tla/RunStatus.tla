------------------------------ MODULE RunStatus ------------------------------
(***************************************************************************)
(* The status column of assessment_runs: its values, the transitions that  *)
(* the database trigger enforce_run_state_machine() lets an UPDATE make,   *)
(* and the two different notions of "active" the code uses: the partial    *)
(* unique index counts a stalled run, the repositories' counters do not.   *)
(***************************************************************************)

Terminal == {"completed", "completed_warnings", "failed", "cancelled"}

Status == {"queued", "dispatched", "running", "stalled", "cancel_requested"}
            \cup Terminal

\* Statuses covered by idx_one_active_run_per_project.
Indexed == Status \ Terminal

\* ACTIVE_STATUSES of the repositories: what the concurrency checks count.
Counted == Indexed \ {"stalled"}

\* valid_transitions of the trigger.
ValidTransitions ==
  [s \in Status |->
     CASE s = "queued"           -> {"dispatched", "cancelled"}
       [] s = "dispatched"       -> {"running", "stalled", "cancelled"}
       [] s = "running"          -> {"completed", "completed_warnings", "failed",
                                     "stalled", "cancel_requested"}
       [] s = "stalled"          -> {"queued", "failed", "cancelled"}
       [] s = "cancel_requested" -> {"cancelled", "failed"}
       [] OTHER                  -> {}]

\* An UPDATE that leaves the status alone passes the trigger; one that changes
\* it must follow ValidTransitions, otherwise the whole UPDATE is rolled back.
TriggerAllows(old, new) == old = new \/ new \in ValidTransitions[old]
==============================================================================
