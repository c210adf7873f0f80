----------------------------- MODULE WebhookEvents -----------------------------
(***************************************************************************)
(* The life of one Stripe event: handleWebhookEvent(), called for every    *)
(* delivery by Stripe and for every retry by processPendingRetries(), and  *)
(* the row of billing_events that they share without a lock.  Every await  *)
(* is a step of its own.                                                   *)
(*                                                                         *)
(* Stripe delivers an event at least once, and again until it is answered  *)
(* with a 2xx status.  Passes of the retry job may overlap: each is an     *)
(* HTTP request to /webhooks/retry.  A pass is followed for the event of   *)
(* this module only.  resetRetryCount() and retryEvent() have no caller    *)
(* and are left out.                                                       *)
(***************************************************************************)
EXTENDS Naturals

CONSTANTS
  Delivery,       \* handlers of POST /webhooks/stripe
  Pass,           \* handlers of POST /webhooks/retry
  MaxRetries,     \* column max_retries, 5 by default
  MaxDeliveries   \* bound: how often Stripe delivers the event

ASSUME WebhookAssumption ==
  /\ Delivery \cap Pass = {}
  /\ MaxRetries \in Nat \ {0}
  /\ MaxDeliveries \in Nat

Handler == Delivery \cup Pass

VARIABLES
  stored,      \* the row exists
  processed,   \* processedAt is not null
  error,       \* error is not null
  retryCount,
  nextRetry,   \* nextRetryAt: null, in the future, or due
  pc, seen,    \* per handler: its next await, and the retryCount it has read (0 when
               \* it no longer matters)
  deliveries,  \* how often Stripe has delivered
  accepted,    \* Stripe was answered 2xx
  applied,     \* history: the effect of the event was applied at least once
  orphaned     \* history: the process of a pass died while it held the event

row == <<stored, processed, error, retryCount, nextRetry>>
vars == <<row, pc, seen, deliveries, accepted, applied, orphaned>>

Places == {"idle", "lookup", "insert", "apply", "mark", "catch", "record",
           "clear", "reread", "reschedule", "giveUp"}

TypeOK ==
  /\ stored \in BOOLEAN /\ processed \in BOOLEAN /\ error \in BOOLEAN
  /\ retryCount \in Nat
  /\ nextRetry \in {"null", "later", "due"}
  /\ pc \in [Handler -> Places]
  /\ \A d \in Delivery : pc[d] \notin {"clear", "reread", "reschedule", "giveUp"}
  /\ seen \in [Handler -> Nat]
  /\ deliveries \in 0..MaxDeliveries
  /\ accepted \in BOOLEAN /\ applied \in BOOLEAN /\ orphaned \in BOOLEAN

Init ==
  /\ stored = FALSE /\ processed = FALSE /\ error = FALSE
  /\ retryCount = 0 /\ nextRetry = "null"
  /\ pc = [h \in Handler |-> "idle"]
  /\ seen = [h \in Handler |-> 0]
  /\ deliveries = 0
  /\ accepted = FALSE /\ applied = FALSE /\ orphaned = FALSE

-----------------------------------------------------------------------------
Goto(h, place) == pc' = [pc EXCEPT ![h] = place]

\* handleWebhookEvent() returns 'success' or 'already_processed'.
Succeed(h) ==
  /\ Goto(h, "idle")
  /\ accepted' = (accepted \/ h \in Delivery)

\* Mutant: a delivery that throws schedules a retry, too.
ThrowAnywhere(h) == Goto(h, "reread") /\ UNCHANGED accepted

\* It throws: Stripe sees a 500, and a pass goes on to its catch.
Throw(h) == Goto(h, IF h \in Pass THEN "reread" ELSE "idle") /\ UNCHANGED accepted

\* It returns an error: 500 for a transient one, 200 otherwise.
ReturnError(h) ==
  \/ h \in Pass /\ Goto(h, "reread") /\ UNCHANGED accepted
  \/ h \in Delivery /\ Goto(h, "idle") /\ accepted' \in {accepted, TRUE}

-----------------------------------------------------------------------------
(* Callers of handleWebhookEvent().                                        *)

Deliver(d) ==
  /\ pc[d] = "idle"
  /\ deliveries < MaxDeliveries /\ deliveries' = deliveries + 1
  /\ Goto(d, "lookup")
  /\ UNCHANGED <<row, seen, accepted, applied, orphaned>>

\* Mutant: the last retry is never due.
DueEarly == stored /\ ~processed /\ nextRetry = "due" /\ retryCount < MaxRetries - 1

Due == stored /\ ~processed /\ nextRetry = "due" /\ retryCount < MaxRetries

Select(p) ==
  /\ pc[p] = "idle" /\ Due
  /\ Goto(p, "clear")
  /\ UNCHANGED <<row, seen, deliveries, accepted, applied, orphaned>>

\* Against duplicate processing: but the row may have changed since it was selected.
Clear(p) ==
  /\ pc[p] = "clear"
  /\ nextRetry' = "null"
  /\ Goto(p, "lookup")
  /\ UNCHANGED <<stored, processed, error, retryCount, seen, deliveries, accepted, applied, orphaned>>

\* The UPDATE is inside the try block; its answer may be lost after the commit.
ClearFails(p) ==
  /\ pc[p] = "clear"
  /\ nextRetry' \in {nextRetry, "null"}
  /\ Goto(p, "reread")
  /\ UNCHANGED <<stored, processed, error, retryCount, seen, deliveries, accepted, applied, orphaned>>

-----------------------------------------------------------------------------
(* handleWebhookEvent().                                                   *)

\* A row without processedAt counts as a failed attempt, even when it belongs to a
\* handler that is still at work.
Lookup(h) ==
  /\ pc[h] = "lookup"
  /\ IF stored /\ processed /\ ~error
       THEN Succeed(h)
       ELSE Goto(h, IF stored THEN "apply" ELSE "insert") /\ UNCHANGED accepted
  /\ UNCHANGED <<row, seen, deliveries, applied, orphaned>>

\* stripe_event_id is unique: the second of two handlers throws.
Insert(h) ==
  /\ pc[h] = "insert"
  /\ IF stored THEN Throw(h) ELSE Goto(h, "apply") /\ UNCHANGED accepted
  /\ stored' = TRUE
  /\ UNCHANGED <<processed, error, retryCount, nextRetry, seen, deliveries, applied, orphaned>>

\* The statements before the try block throw to the caller.  (An INSERT that is committed and
\* whose answer is lost is Insert and Crash.)
LookupFails(h) ==
  /\ pc[h] \in {"lookup", "insert"}
  /\ Throw(h)
  /\ UNCHANGED <<row, seen, deliveries, applied, orphaned>>

\* Mutant: the marking does not wait for the effect.
ApplyAsync(h) ==
  /\ pc[h] = "apply"
  /\ Goto(h, "mark")
  /\ applied' \in {applied, TRUE}
  /\ UNCHANGED <<row, seen, deliveries, accepted, orphaned>>

\* The handler of the event's type; it may fail after it has had an effect.
Apply(h) ==
  /\ pc[h] = "apply"
  /\ \/ Goto(h, "mark") /\ applied' = TRUE
     \/ Goto(h, "catch") /\ applied' \in {applied, TRUE}
  /\ UNCHANGED <<row, seen, deliveries, accepted, orphaned>>

SetProcessed == processed' = TRUE /\ error' = FALSE

Mark(h) ==
  /\ pc[h] = "mark"
  /\ SetProcessed
  /\ Succeed(h)
  /\ UNCHANGED <<stored, retryCount, nextRetry, seen, deliveries, applied, orphaned>>

\* The UPDATE is inside the try block; its answer may be lost after the commit.
MarkFails(h) ==
  /\ pc[h] = "mark"
  /\ SetProcessed \/ UNCHANGED <<processed, error>>
  /\ Goto(h, "catch")
  /\ UNCHANGED <<stored, retryCount, nextRetry, seen, deliveries, accepted, applied, orphaned>>

\* The catch block reads the row ...
Catch(h) ==
  /\ pc[h] = "catch"
  /\ seen' = [seen EXCEPT ![h] = retryCount]
  /\ Goto(h, "record")
  /\ UNCHANGED <<row, deliveries, accepted, applied, orphaned>>

\* Mutant: nextRetryAt is left to scheduleRetry(), which deliveries do not call.
RecordOnly(h) ==
  /\ pc[h] = "record"
  /\ retryCount' = seen[h] + 1 /\ seen' = [seen EXCEPT ![h] = 0]
  /\ error' = (seen[h] + 1 >= MaxRetries)
  /\ ReturnError(h)
  /\ UNCHANGED <<stored, processed, nextRetry, deliveries, applied, orphaned>>

\* ... and writes what follows from it, over whatever happened in between.
Record(h) ==
  /\ pc[h] = "record"
  /\ retryCount' = seen[h] + 1 /\ seen' = [seen EXCEPT ![h] = 0]
  /\ nextRetry' = "later"
  /\ error' = (seen[h] + 1 >= MaxRetries)
  /\ ReturnError(h)
  /\ UNCHANGED <<stored, processed, deliveries, applied, orphaned>>

CatchFails(h) ==
  /\ pc[h] \in {"catch", "record"}
  /\ Throw(h) /\ seen' = [seen EXCEPT ![h] = 0]
  /\ UNCHANGED <<row, deliveries, applied, orphaned>>

-----------------------------------------------------------------------------
(* scheduleRetry(), which a pass calls after the handler has already counted *)
(* the failure.                                                            *)

Reread(p) ==
  /\ pc[p] = "reread"
  /\ \/ /\ retryCount + 1 > MaxRetries
        /\ Goto(p, "giveUp") /\ UNCHANGED seen
     \/ /\ retryCount + 1 <= MaxRetries
        /\ Goto(p, "reschedule") /\ seen' = [seen EXCEPT ![p] = retryCount]
  /\ UNCHANGED <<row, deliveries, accepted, applied, orphaned>>

Reschedule(p) ==
  /\ pc[p] = "reschedule"
  /\ retryCount' = seen[p] + 1 /\ seen' = [seen EXCEPT ![p] = 0]
  /\ nextRetry' = "later"
  /\ Goto(p, "idle")
  /\ UNCHANGED <<stored, processed, error, deliveries, accepted, applied, orphaned>>

GiveUp(p) ==
  /\ pc[p] = "giveUp"
  /\ error' = TRUE
  /\ Goto(p, "idle")
  /\ UNCHANGED <<stored, processed, retryCount, nextRetry, seen, deliveries, accepted, applied, orphaned>>

-----------------------------------------------------------------------------
BackoffEnds ==
  /\ nextRetry = "later" /\ nextRetry' = "due"
  /\ UNCHANGED <<stored, processed, error, retryCount, pc, seen, deliveries, accepted, applied, orphaned>>

\* A pass holds the event from the clearing of its schedule until it sets it again.
Holding == {"lookup", "apply", "mark", "catch", "record", "reread", "reschedule"}

\* A process dies, or the database is gone for longer than one statement: an error of
\* scheduleRetry() is taken for the end of the pass.
Crash(h) ==
  /\ pc[h] # "idle"
  /\ Goto(h, "idle") /\ seen' = [seen EXCEPT ![h] = 0]
  /\ orphaned' = (orphaned \/ (h \in Pass /\ pc[h] \in Holding))
  /\ UNCHANGED <<row, deliveries, accepted, applied>>

HandlerStep(h) == \/ Lookup(h) \/ Insert(h) \/ LookupFails(h)
                  \/ Apply(h) \/ Mark(h) \/ MarkFails(h)
                  \/ Catch(h) \/ Record(h) \/ CatchFails(h)

PassStep(p) == Clear(p) \/ ClearFails(p) \/ Reread(p) \/ Reschedule(p) \/ GiveUp(p)

Next ==
  \/ \E d \in Delivery : Deliver(d)
  \/ \E p \in Pass : Select(p) \/ PassStep(p)
  \/ \E h \in Handler : HandlerStep(h) \/ Crash(h)
  \/ BackoffEnds

Spec == Init /\ [][Next]_vars

\* A handler that lives goes on, and the scheduler keeps calling /webhooks/retry.
Fairness ==
  /\ WF_vars(BackoffEnds)
  /\ \A h \in Handler : WF_vars(HandlerStep(h))
  /\ \A p \in Pass : WF_vars(Select(p) \/ PassStep(p))

FairSpec == Spec /\ Fairness

-----------------------------------------------------------------------------
(* Properties.                                                             *)

Idle == \A h \in Handler : pc[h] = "idle"

\* An event that counts as processed has had its effect, whoever marked it.
ProcessedMeansApplied == processed => applied

\* An event that Stripe will not deliver again, because it was answered 2xx, is
\* forgotten in one way only: the process of a pass dies between clearing nextRetryAt
\* and setting it again.  Otherwise, when no handler works on it, it is processed, or
\* scheduled, or has used up its retries, which getRetryStats() reports.
NoEventIsForgotten ==
  accepted /\ Idle =>
    processed \/ nextRetry # "null" \/ retryCount >= MaxRetries \/ orphaned

\* If passes do not die for ever, such an event comes to an end, although handlers
\* overwrite each other's counts.
PassDies == \E p \in Pass : Crash(p)
AcceptedEventsEnd ==
  <>[][~PassDies]_vars =>
    (accepted ~> (processed \/ retryCount >= MaxRetries \/ orphaned))
===============================================================================
