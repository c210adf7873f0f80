-------------------------- MODULE WebhookEventsProofs --------------------------
(***************************************************************************)
(* Proofs about WebhookEvents for any number of overlapping handlers.  The *)
(* argument for NoEventIsForgotten: an event that was answered 2xx and is  *)
(* neither processed nor scheduled nor out of retries is in the hands of a *)
(* pass that has cleared its schedule and will set it again, or such a     *)
(* pass has died.                                                          *)
(***************************************************************************)
EXTENDS WebhookEvents, TLAPS

InHands == accepted /\ ~processed /\ nextRetry = "null" /\ retryCount < MaxRetries =>
             orphaned \/ \E p \in Pass : pc[p] \in Holding

\* A pass works on a row that exists, and so does a delivery past its lookup.
StoredFirst == \A h \in Handler :
  /\ h \in Pass /\ pc[h] # "idle" => stored /\ pc[h] # "insert"
  /\ pc[h] \in {"apply", "mark", "catch", "record"} => stored

AppliedFirst == /\ processed => applied
                /\ \A h \in Handler : pc[h] = "mark" => applied

Base == TypeOK /\ StoredFirst /\ AppliedFirst

LEMMA Constants == /\ Delivery \subseteq Handler /\ Pass \subseteq Handler
                   /\ \A h \in Handler : (h \in Pass) <=> (h \notin Delivery)
                   /\ MaxRetries \in Nat /\ MaxDeliveries \in Nat
BY WebhookAssumption DEF Handler

LEMMA InitInvariant == Init => Base /\ InHands
<1> SUFFICES ASSUME Init PROVE Base /\ InHands
  OBVIOUS
<1>1. TypeOK
  <2>1. 0 \in 0..MaxDeliveries
    BY Constants
  <2>2. pc \in [Handler -> Places] /\ seen \in [Handler -> Nat]
    BY DEF Init, Places
  <2>3. \A d \in Delivery : pc[d] = "idle"
    BY Constants DEF Init
  <2> QED
    BY <2>1, <2>2, <2>3 DEF Init, TypeOK
<1>2. StoredFirst /\ AppliedFirst /\ InHands
  BY Constants DEF Init, StoredFirst, AppliedFirst, InHands
<1> QED
  BY <1>1, <1>2 DEF Base

-----------------------------------------------------------------------------
(* The type invariant and what holds by the order of the awaits.           *)

LEMMA HandlerKeepsBase ==
  ASSUME Base, NEW h \in Handler, HandlerStep(h) \/ Crash(h)
  PROVE  Base'
<1> USE Constants DEF Base, TypeOK, StoredFirst, AppliedFirst, Goto, Places, row
<1>1. CASE Lookup(h)
  BY <1>1 DEF Lookup, Succeed
<1>2. CASE Insert(h)
  BY <1>2 DEF Insert, Throw
<1>3. CASE Apply(h)
  BY <1>3 DEF Apply
<1>4. CASE Mark(h)
  BY <1>4 DEF Mark, SetProcessed, Succeed
<1>5. CASE MarkFails(h)
  BY <1>5 DEF MarkFails, SetProcessed
<1>6. CASE Catch(h)
  BY <1>6 DEF Catch
<1>7. CASE Record(h)
  <2>1. retryCount' \in Nat /\ seen' \in [Handler -> Nat] /\ error' \in BOOLEAN
    BY <1>7 DEF Record
  <2>2. CASE h \in Pass /\ Goto(h, "reread") /\ UNCHANGED accepted
    BY <1>7, <2>1, <2>2 DEF Record
  <2>3. CASE h \in Delivery /\ Goto(h, "idle") /\ accepted' \in {accepted, TRUE}
    BY <1>7, <2>1, <2>3 DEF Record
  <2> QED
    BY <1>7, <2>2, <2>3 DEF Record, ReturnError
<1>8. CASE CatchFails(h)
  BY <1>8 DEF CatchFails, Throw
<1>9. CASE Crash(h)
  BY <1>9 DEF Crash
<1>10. CASE LookupFails(h)
  BY <1>10 DEF LookupFails, Throw
<1> QED
  BY <1>1, <1>2, <1>3, <1>4, <1>5, <1>6, <1>7, <1>8, <1>9, <1>10 DEF HandlerStep

LEMMA PassKeepsBase ==
  ASSUME Base, NEW p \in Pass, Select(p) \/ PassStep(p)
  PROVE  Base'
<1> USE Constants DEF Base, TypeOK, StoredFirst, AppliedFirst, Goto, Places, row
<1>1. CASE Select(p)
  BY <1>1 DEF Select, Due
<1>2. CASE Clear(p)
  BY <1>2 DEF Clear
<1>3. CASE Reread(p)
  BY <1>3 DEF Reread
<1>4. CASE Reschedule(p)
  BY <1>4 DEF Reschedule
<1>5. CASE GiveUp(p)
  BY <1>5 DEF GiveUp
<1>6. CASE ClearFails(p)
  BY <1>6 DEF ClearFails
<1> QED
  BY <1>1, <1>2, <1>3, <1>4, <1>5, <1>6 DEF PassStep

LEMMA BaseInvariant == Base /\ [Next]_vars => Base'
<1> SUFFICES ASSUME Base, [Next]_vars PROVE Base'
  OBVIOUS
<1>1. CASE \E d \in Delivery : Deliver(d)
  BY <1>1, Constants DEF Deliver, Base, TypeOK, StoredFirst, AppliedFirst, Goto, Places, row
<1>2. CASE BackoffEnds
  BY <1>2 DEF BackoffEnds, Base, TypeOK, StoredFirst, AppliedFirst
<1>3. CASE UNCHANGED vars
  BY <1>3 DEF vars, row, Base, TypeOK, StoredFirst, AppliedFirst
<1> QED
  BY <1>1, <1>2, <1>3, HandlerKeepsBase, PassKeepsBase DEF Next

-----------------------------------------------------------------------------
(* The hands an accepted event is in.                                      *)

LEMMA TakenOver ==
  ASSUME Base, NEW h \in Pass, NEW x \in Holding, pc' = [pc EXCEPT ![h] = x]
  PROVE  InHands'
BY Constants DEF Base, TypeOK, InHands

LEMMA StaysInHands ==
  ASSUME Base, InHands, NEW h \in Handler, NEW x, pc' = [pc EXCEPT ![h] = x],
         h \in Pass => pc[h] \notin Holding,
         UNCHANGED <<accepted, processed, nextRetry, retryCount, orphaned>>
  PROVE  InHands'
<1> SUFFICES ASSUME accepted, ~processed, nextRetry = "null", retryCount < MaxRetries,
                    ~orphaned
             PROVE  \E p \in Pass : pc'[p] \in Holding
  BY DEF InHands
<1>1. PICK p \in Pass : pc[p] \in Holding
  BY DEF InHands
<1>2. p # h /\ pc'[p] = pc[p]
  BY <1>1, Constants DEF Base, TypeOK
<1> QED
  BY <1>1, <1>2

LEMMA Settled ==
  ASSUME processed' \/ nextRetry' # "null" \/ ~(retryCount' < MaxRetries)
  PROVE  InHands'
BY DEF InHands

LEMMA DeliveryKeepsHands ==
  ASSUME Base, InHands, NEW h \in Delivery, Deliver(h) \/ HandlerStep(h) \/ Crash(h)
  PROVE  InHands'
<1> h \in Handler /\ h \notin Pass
  BY Constants
<1>1. CASE Deliver(h)
  BY <1>1, StaysInHands DEF Deliver, Goto, row
<1>2. CASE Lookup(h)
  <2>1. CASE processed
    BY <1>2, <2>1, Settled DEF Lookup, row
  <2>2. CASE ~processed
    BY <1>2, <2>2, StaysInHands DEF Lookup, Goto, row
  <2> QED
    BY <2>1, <2>2
<1>3. CASE Insert(h)
  BY <1>3, StaysInHands DEF Insert, Throw, Goto
<1>4. CASE Apply(h)
  BY <1>4, StaysInHands DEF Apply, Goto, row
<1>5. CASE Mark(h)
  BY <1>5, Settled DEF Mark, SetProcessed
<1>6. CASE MarkFails(h)
  <2>1. CASE SetProcessed
    BY <2>1, Settled DEF SetProcessed
  <2>2. CASE UNCHANGED <<processed, error>>
    BY <1>6, <2>2, StaysInHands DEF MarkFails, Goto
  <2> QED
    BY <1>6, <2>1, <2>2 DEF MarkFails
<1>7. CASE Catch(h)
  BY <1>7, StaysInHands DEF Catch, Goto, row
<1>8. CASE Record(h)
  BY <1>8, Settled DEF Record
<1>9. CASE CatchFails(h)
  BY <1>9, StaysInHands DEF CatchFails, Throw, Goto, row
<1>10. CASE Crash(h)
  <2>1. orphaned' = orphaned
    BY <1>10 DEF Crash, Base, TypeOK
  <2> QED
    BY <1>10, <2>1, StaysInHands DEF Crash, Goto, row
<1>11. CASE LookupFails(h)
  BY <1>11, StaysInHands DEF LookupFails, Throw, Goto, row
<1> QED
  BY <1>1, <1>2, <1>3, <1>4, <1>5, <1>6, <1>7, <1>8, <1>9, <1>10, <1>11 DEF HandlerStep

LEMMA PassKeepsHands ==
  ASSUME Base, InHands, NEW p \in Pass,
         Select(p) \/ PassStep(p) \/ HandlerStep(p) \/ Crash(p)
  PROVE  InHands'
<1> p \in Handler
  BY Constants
<1>1. CASE Select(p)
  BY <1>1, Settled DEF Select, Due, row
<1>2. CASE Clear(p)
  BY <1>2, TakenOver DEF Clear, Goto, Holding
<1>3. CASE Lookup(p)
  <2>1. CASE processed
    BY <1>3, <2>1, Settled DEF Lookup, row
  <2>2. CASE ~processed
    BY <1>3, <2>2, TakenOver DEF Lookup, Goto, Holding, Base, StoredFirst
  <2> QED
    BY <2>1, <2>2
<1>4. CASE Insert(p)
  BY <1>4 DEF Insert, Base, StoredFirst
<1>5. CASE Apply(p)
  BY <1>5, TakenOver DEF Apply, Goto, Holding
<1>6. CASE Mark(p)
  BY <1>6, Settled DEF Mark, SetProcessed
<1>7. CASE MarkFails(p)
  BY <1>7, TakenOver DEF MarkFails, Goto, Holding
<1>8. CASE Catch(p)
  BY <1>8, TakenOver DEF Catch, Goto, Holding
<1>9. CASE Record(p)
  BY <1>9, Settled DEF Record
<1>10. CASE CatchFails(p)
  BY <1>10, TakenOver DEF CatchFails, Throw, Goto, Holding
<1>11. CASE Reread(p)
  <2>1. CASE retryCount + 1 > MaxRetries
    BY <1>11, <2>1, Settled, Constants DEF Reread, row, Base, TypeOK
  <2>2. CASE retryCount + 1 <= MaxRetries
    BY <1>11, <2>2, TakenOver, Constants DEF Reread, Goto, Holding, Base, TypeOK
  <2> QED
    BY <2>1, <2>2, Constants DEF Base, TypeOK
<1>12. CASE Reschedule(p)
  BY <1>12, Settled DEF Reschedule
<1>13. CASE GiveUp(p)
  BY <1>13, StaysInHands DEF GiveUp, Goto, Holding
<1>14. CASE Crash(p)
  <2>1. CASE pc[p] \in Holding
    BY <1>14, <2>1 DEF Crash, InHands
  <2>2. CASE pc[p] \notin Holding
    <3>1. orphaned' = orphaned
      BY <1>14, <2>2 DEF Crash, Base, TypeOK
    <3> QED
      BY <1>14, <2>2, <3>1, StaysInHands DEF Crash, Goto, row
  <2> QED
    BY <2>1, <2>2
<1>15. CASE ClearFails(p)
  BY <1>15, TakenOver DEF ClearFails, Goto, Holding
<1>16. CASE LookupFails(p)
  BY <1>16, TakenOver DEF LookupFails, Throw, Goto, Holding
<1> QED
  BY <1>1, <1>2, <1>3, <1>4, <1>5, <1>6, <1>7, <1>8, <1>9, <1>10, <1>11, <1>12, <1>13, <1>14,
     <1>15, <1>16
  DEF PassStep, HandlerStep

LEMMA HandsInvariant == Base /\ InHands /\ [Next]_vars => InHands'
<1> SUFFICES ASSUME Base, InHands, [Next]_vars PROVE InHands'
  OBVIOUS
<1>1. CASE \E d \in Delivery : Deliver(d) \/ HandlerStep(d) \/ Crash(d)
  BY <1>1, DeliveryKeepsHands
<1>2. CASE \E p \in Pass : Select(p) \/ PassStep(p) \/ HandlerStep(p) \/ Crash(p)
  BY <1>2, PassKeepsHands
<1>3. CASE BackoffEnds
  BY <1>3, Settled DEF BackoffEnds
<1>4. CASE UNCHANGED vars
  BY <1>4 DEF vars, row, InHands
<1> QED
  BY <1>1, <1>2, <1>3, <1>4 DEF Next, Handler

-----------------------------------------------------------------------------
\* Every variable keeps its range, whatever crashes.
THEOREM WebhookTypeCorrect == Spec => []TypeOK
<1>1. Init => Base
  BY InitInvariant
<1>2. Base => TypeOK
  BY DEF Base
<1> QED
  BY <1>1, <1>2, BaseInvariant, PTL DEF Spec

\* No handler marks the event before somebody has applied it, whatever crashes.
THEOREM WebhookAppliedFirst == Spec => []ProcessedMeansApplied
<1>1. Init => Base
  BY InitInvariant
<1>2. Base => ProcessedMeansApplied
  BY DEF Base, AppliedFirst, ProcessedMeansApplied
<1> QED
  BY <1>1, <1>2, BaseInvariant, PTL DEF Spec

\* Unless the process of a pass dies while it holds the event, an event that Stripe will
\* not deliver again is processed, scheduled or out of retries whenever nobody works on it.
THEOREM WebhookNotForgotten == Spec => []NoEventIsForgotten
<1>1. Init => Base /\ InHands
  BY InitInvariant
<1>2. Base /\ InHands /\ [Next]_vars => (Base /\ InHands)'
  BY BaseInvariant, HandsInvariant
<1>3. Base /\ InHands => NoEventIsForgotten
  BY Constants DEF Base, TypeOK, InHands, Holding, NoEventIsForgotten, Idle
<1> QED
  BY <1>1, <1>2, <1>3, PTL DEF Spec
===============================================================================
