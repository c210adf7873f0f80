--------------------------- MODULE PaymentsProofs ---------------------------
(***************************************************************************)
(* Proofs of the safety properties of Payments, for any number of          *)
(* administrators and handlers and any amount.                             *)
(***************************************************************************)
EXTENDS Payments, TLAPS

\* The status belongs to the amount.
StatusFits ==
  /\ row.status \in {"absent", "failed", "succeeded"} => row.refunded = 0
  /\ row.status \in {"partially_refunded", "refunded"} =>
       row.refunded >= 1 /\ row.status = StatusOf(row.refunded)

\* Only a recorded payment has the payment intent that a refund needs.
IntentMeansPayment == HasIntent => row.status \notin {"absent", "failed"}

\* An event exists only of money that has moved.
EventsAreTrue == \A n \in 1..Amount : Refunded(n) \in events => n <= charge

\* What a writer is about to write was true once, so it is not more than is true now.
HandlersHoldTruth ==
  \A h \in Handler : hookAt[h] = "write" =>
    total[h] \in 1..charge /\ HasIntent /\ Refunded(total[h]) \in events

AdminsHoldTruth ==
  \A a \in Admin :
    /\ adminAt[a] = "stripe" => seen[a] <= charge /\ ask[a] >= 1 /\ HasIntent
    /\ adminAt[a] = "book" => seen[a] + ask[a] <= charge /\ ask[a] >= 1 /\ HasIntent

IInv ==
  /\ TypeOK /\ BooksNeverAhead /\ StatusFits /\ IntentMeansPayment
  /\ EventsAreTrue /\ HandlersHoldTruth /\ AdminsHoldTruth

USE DEF HasIntent, Intent

-----------------------------------------------------------------------------
\* Events of different types, or with different totals, are different.
LEMMA EventsDiffer ==
  /\ \A n \in 1..Amount : Refunded(n) # Failed /\ \A i \in Intent : Refunded(n) # Succeeded(i)
  /\ \A n, m \in 1..Amount : Refunded(n) = Refunded(m) => n = m
BY DEF Refunded, Failed, Succeeded

LEMMA InitInv == Init => IInv
BY PaymentsAssumption, SMT
   DEF Init, IInv, TypeOK, BooksNeverAhead, StatusFits, IntentMeansPayment, EventsAreTrue,
       HandlersHoldTruth, AdminsHoldTruth, NoRow, Row, StatusOf

\* A refund at Stripe makes nothing false that was true before.
LEMMA RefundPreserves ==
  ASSUME IInv, NEW n \in 1..Amount, Refund(n), UNCHANGED <<row, hookVars>>
  PROVE  /\ charge' \in 0..Amount /\ charge' = charge + n
         /\ events' \subseteq Event /\ events \subseteq events'
         /\ EventsAreTrue' /\ HandlersHoldTruth'
<1>1. charge' = charge + n /\ charge' \in 0..Amount /\ charge' \in 1..Amount
  BY PaymentsAssumption DEF Refund, IInv, TypeOK
<1>2. events' = events \cup {Refunded(charge')}
  BY <1>1 DEF Refund
<1>3. events' \subseteq Event
  BY <1>1, <1>2 DEF IInv, TypeOK, Event
<1>4. EventsAreTrue'
  <2> SUFFICES ASSUME NEW m \in 1..Amount, Refunded(m) \in events' PROVE m <= charge'
    BY DEF EventsAreTrue
  <2>1. CASE Refunded(m) \in events
    BY <2>1, <1>1, PaymentsAssumption DEF IInv, EventsAreTrue, TypeOK
  <2>2. CASE Refunded(m) = Refunded(charge')
    BY <2>2, <1>1, EventsDiffer, PaymentsAssumption
  <2> QED BY <2>1, <2>2, <1>2
<1>5. HandlersHoldTruth'
  BY <1>1, <1>2, PaymentsAssumption DEF IInv, HandlersHoldTruth, TypeOK, hookVars
<1> QED BY <1>1, <1>2, <1>3, <1>4, <1>5

LEMMA StripePreserves ==
  ASSUME IInv, ChargeFails \/ ChargeSucceeds \/ DashboardRefund
  PROVE  IInv'
<1>1. CASE ChargeFails
  <2>1. \A n \in 1..Amount : Refunded(n) \in events' => Refunded(n) \in events
    BY <1>1, EventsDiffer DEF ChargeFails
  <2>2. TypeOK'
    BY <1>1 DEF ChargeFails, IInv, TypeOK, adminVars, hookVars, Event
  <2> QED
    BY <1>1, <2>1, <2>2 DEF ChargeFails, IInv, BooksNeverAhead, StatusFits, IntentMeansPayment,
       EventsAreTrue, HandlersHoldTruth, AdminsHoldTruth, adminVars, hookVars
<1>2. CASE ChargeSucceeds
  <2>1. \A n \in 1..Amount : Refunded(n) \in events' => Refunded(n) \in events
    BY <1>2, EventsDiffer DEF ChargeSucceeds
  <2>2. TypeOK'
    BY <1>2 DEF ChargeSucceeds, IInv, TypeOK, adminVars, hookVars, Event
  <2> QED
    BY <1>2, <2>1, <2>2 DEF ChargeSucceeds, IInv, BooksNeverAhead, StatusFits,
       IntentMeansPayment, EventsAreTrue, HandlersHoldTruth, AdminsHoldTruth, adminVars, hookVars
<1>3. CASE DashboardRefund
  <2>1. PICK n \in 1..Amount : Refund(n)
    BY <1>3 DEF DashboardRefund
  <2>2. UNCHANGED <<row, adminVars, hookVars, handled>>
    BY <1>3 DEF DashboardRefund
  <2>3. /\ charge' \in 0..Amount /\ charge' = charge + n
        /\ events' \subseteq Event /\ events \subseteq events'
        /\ EventsAreTrue' /\ HandlersHoldTruth'
    BY <2>1, <2>2, RefundPreserves
  <2>4. TypeOK'
    BY <2>1, <2>2, <2>3 DEF IInv, TypeOK, Refund, adminVars, hookVars
  <2>5. AdminsHoldTruth' /\ BooksNeverAhead'
    BY <2>2, <2>3, PaymentsAssumption
    DEF IInv, TypeOK, Row, AdminsHoldTruth, BooksNeverAhead, adminVars
  <2> QED
    BY <2>2, <2>3, <2>4, <2>5 DEF IInv, StatusFits, IntentMeansPayment
<1> QED BY <1>1, <1>2, <1>3

\* ON CONFLICT DO NOTHING: the first of the two events decides, and nothing is ever refunded
\* of a row that is only being inserted.
LEMMA InsertPreserves ==
  ASSUME IInv, HandlePaymentFailed \/ HandlePaymentSucceeded
  PROVE  IInv'
<1>1. PICK s \in {"failed", "succeeded"}, b \in Intent :
        InsertRow(s, b) /\ (s = "failed" => b = "null")
  BY DEF HandlePaymentFailed, HandlePaymentSucceeded
<1>2. UNCHANGED <<stripeVars, adminVars, hookVars>> /\ handled' \subseteq events
  BY DEF HandlePaymentFailed, HandlePaymentSucceeded, IInv, TypeOK
<1>3. CASE row.status # "absent"
  <2>1. row' = row
    BY <1>1, <1>3 DEF InsertRow
  <2> QED
    BY <2>1, <1>2 DEF IInv, TypeOK, BooksNeverAhead, StatusFits, IntentMeansPayment,
       EventsAreTrue, HandlersHoldTruth, AdminsHoldTruth, stripeVars, adminVars, hookVars
<1>4. CASE row.status = "absent"
  <2>1. row' = [status |-> s, intent |-> b, refunded |-> 0]
    BY <1>1, <1>4 DEF InsertRow
  <2>2. ~HasIntent
    BY <1>4 DEF IInv, IntentMeansPayment
  <2>3. TypeOK'
    BY <2>1, <1>2, PaymentsAssumption DEF IInv, TypeOK, Row, stripeVars, adminVars, hookVars
  <2>4. BooksNeverAhead' /\ StatusFits' /\ IntentMeansPayment'
    BY <2>1, <1>1, <1>2, PaymentsAssumption
    DEF IInv, TypeOK, BooksNeverAhead, StatusFits, IntentMeansPayment, stripeVars
  <2>5. EventsAreTrue' /\ HandlersHoldTruth' /\ AdminsHoldTruth'
    BY <2>2, <1>2 DEF IInv, EventsAreTrue, HandlersHoldTruth, AdminsHoldTruth, stripeVars,
       adminVars, hookVars
  <2> QED BY <2>3, <2>4, <2>5 DEF IInv
<1> QED BY <1>3, <1>4

\* A writer that holds a true total leaves true books, with the status of the total.
LEMMA WritingTruth ==
  ASSUME IInv, NEW n \in 1..charge, HasIntent,
         row' = [row EXCEPT !.refunded = n, !.status = StatusOf(n)],
         UNCHANGED stripeVars
  PROVE  /\ row' \in Row /\ row'.intent = row.intent
         /\ BooksNeverAhead' /\ StatusFits' /\ IntentMeansPayment' /\ EventsAreTrue'
<1>1. n \in 1..Amount
  BY PaymentsAssumption DEF IInv, TypeOK
<1>2. StatusOf(n) \in {"partially_refunded", "refunded"}
  BY DEF StatusOf
<1>3. row' = [status |-> StatusOf(n), intent |-> row.intent, refunded |-> n]
  BY DEF IInv, TypeOK, Row
<1>4. row' \in Row
  <2>1. row.intent \in {"null", "known"}
    BY DEF IInv, TypeOK, Row
  <2>2. StatusOf(n) \in {"absent", "failed", "succeeded", "partially_refunded", "refunded"}
    BY <1>2
  <2>3. n \in 0..Amount
    BY <1>1
  <2> QED BY <1>3, <2>1, <2>2, <2>3 DEF Row
<1>5. row'.refunded = n /\ row'.status = StatusOf(n) /\ row'.intent = row.intent
  BY <1>3
<1>6. BooksNeverAhead' /\ EventsAreTrue'
  BY <1>5 DEF IInv, TypeOK, BooksNeverAhead, EventsAreTrue, stripeVars
<1>7. StatusFits' /\ IntentMeansPayment'
  BY <1>1, <1>2, <1>5 DEF StatusFits, IntentMeansPayment, StatusOf
<1> QED BY <1>4, <1>5, <1>6, <1>7

LEMMA HandlerPreserves ==
  ASSUME IInv, NEW h \in Handler,
         (\E n \in 1..Amount : FindPayment(h, n)) \/ WriteTotal(h) \/ HandlerDies(h)
  PROVE  IInv'
<1>1. ASSUME NEW n \in 1..Amount, FindPayment(h, n) PROVE IInv'
  <2>0. UNCHANGED <<stripeVars, row, adminVars>> /\ n \in 1..charge /\ Refunded(n) \in events
    BY <1>1, PaymentsAssumption DEF FindPayment, IInv, EventsAreTrue, TypeOK
  <2>1. CASE HasIntent /\ hookAt' = [hookAt EXCEPT ![h] = "write"]
             /\ total' = [total EXCEPT ![h] = n] /\ UNCHANGED handled
    <3>1. TypeOK' /\ HandlersHoldTruth'
      BY <2>0, <2>1, PaymentsAssumption
      DEF IInv, TypeOK, HandlersHoldTruth, stripeVars, adminVars
    <3> QED
      BY <2>0, <3>1 DEF IInv, BooksNeverAhead, StatusFits, IntentMeansPayment, EventsAreTrue,
         AdminsHoldTruth, stripeVars, adminVars
  <2>2. CASE handled' = handled \cup {Refunded(n)} /\ UNCHANGED hookVars
    <3>1. TypeOK'
      BY <2>0, <2>2 DEF IInv, TypeOK, stripeVars, adminVars, hookVars
    <3> QED
      BY <2>0, <2>2, <3>1 DEF IInv, BooksNeverAhead, StatusFits, IntentMeansPayment,
         EventsAreTrue, HandlersHoldTruth, AdminsHoldTruth, stripeVars, adminVars, hookVars
  <2> QED BY <1>1, <2>1, <2>2 DEF FindPayment
<1>2. ASSUME WriteTotal(h) PROVE IInv'
  <2>1. total[h] \in 1..charge /\ HasIntent
    BY <1>2 DEF WriteTotal, IInv, HandlersHoldTruth
  <2>2. UNCHANGED <<stripeVars, adminVars>>
    BY <1>2 DEF WriteTotal
  <2>3. /\ row' \in Row /\ row'.intent = row.intent
        /\ BooksNeverAhead' /\ StatusFits' /\ IntentMeansPayment' /\ EventsAreTrue'
    BY <1>2, <2>1, <2>2, WritingTruth DEF WriteTotal
  <2>4. TypeOK'
    <3>1. Refunded(total[h]) \in events /\ handled' = handled \cup {Refunded(total[h])}
      BY <1>2 DEF WriteTotal, IInv, HandlersHoldTruth
    <3>2. handled' \subseteq events'
      BY <3>1, <2>2 DEF IInv, TypeOK, stripeVars
    <3> QED
      BY <1>2, <2>2, <2>3, <3>2, PaymentsAssumption
      DEF WriteTotal, IInv, TypeOK, stripeVars, adminVars
  <2> QED BY <1>2, <2>2, <2>3, <2>4
      DEF WriteTotal, IInv, HandlersHoldTruth, AdminsHoldTruth, TypeOK, stripeVars, adminVars
<1>3. ASSUME HandlerDies(h) PROVE IInv'
  <2>1. TypeOK'
    BY <1>3, PaymentsAssumption DEF HandlerDies, IInv, TypeOK, stripeVars, adminVars
  <2> QED
    BY <1>3, <2>1 DEF HandlerDies, IInv, TypeOK, BooksNeverAhead, StatusFits, IntentMeansPayment,
       EventsAreTrue, HandlersHoldTruth, AdminsHoldTruth, stripeVars, adminVars
<1> QED BY <1>1, <1>2, <1>3

LEMMA AdminPreserves ==
  ASSUME IInv, NEW a \in Admin,
         RequestRefund(a) \/ IssueRefund(a) \/ RefundAtStripe(a) \/ Book(a) \/ RefundFails(a)
  PROVE  IInv'
<1> USE PaymentsAssumption
<1>1. ASSUME AdminDone(a), UNCHANGED <<stripeVars, row, hookVars, handled>> PROVE IInv'
  <2>1. TypeOK'
    BY <1>1 DEF AdminDone, IInv, TypeOK, stripeVars, hookVars
  <2> QED
    BY <1>1, <2>1 DEF AdminDone, IInv, TypeOK, BooksNeverAhead, StatusFits, IntentMeansPayment,
       EventsAreTrue, HandlersHoldTruth, AdminsHoldTruth, stripeVars, hookVars
<1>2. CASE RequestRefund(a)
  <2>1. row.refunded \in 0..Amount
    BY DEF IInv, TypeOK, Row
  <2>2. TypeOK'
    BY <1>2, <2>1 DEF RequestRefund, IInv, TypeOK, stripeVars, hookVars
  <2> QED
    BY <1>2, <2>2 DEF RequestRefund, IInv, TypeOK, BooksNeverAhead, StatusFits,
       IntentMeansPayment, EventsAreTrue, HandlersHoldTruth, AdminsHoldTruth, stripeVars, hookVars
<1>3. CASE IssueRefund(a)
  <2>1. CASE ~Refundable
    BY <1>3, <2>1, <1>1 DEF IssueRefund
  <2>2. CASE Refundable
    <3> DEFINE most == Amount - row.refunded
               n == IF ask[a] = 0 \/ ask[a] > most THEN most ELSE ask[a]
    <3>1. row.refunded \in 0..Amount /\ most \in 1..Amount /\ HasIntent
      BY <2>2 DEF Refundable, IInv, TypeOK, Row
    <3>2. n \in 1..Amount
      BY <3>1 DEF IInv, TypeOK
    <3>3. /\ ask' = [ask EXCEPT ![a] = n] /\ seen' = [seen EXCEPT ![a] = row.refunded]
          /\ adminAt' = [adminAt EXCEPT ![a] = "stripe"]
          /\ UNCHANGED <<stripeVars, row, hookVars, handled>>
      BY <1>3, <2>2 DEF IssueRefund, IInv, TypeOK
    <3> HIDE DEF n, most
    <3>4. TypeOK'
      BY <3>1, <3>2, <3>3 DEF IInv, TypeOK, stripeVars, hookVars
    <3>5. AdminsHoldTruth'
      BY <3>1, <3>2, <3>3 DEF IInv, TypeOK, AdminsHoldTruth, BooksNeverAhead, stripeVars
    <3> QED
      BY <3>3, <3>4, <3>5 DEF IInv, BooksNeverAhead, StatusFits, IntentMeansPayment,
         EventsAreTrue, HandlersHoldTruth, stripeVars, hookVars
  <2> QED BY <2>1, <2>2
<1>4. CASE RefundAtStripe(a)
  <2>1. ask[a] \in 1..Amount /\ Refund(ask[a])
    BY <1>4 DEF RefundAtStripe, IInv, TypeOK, AdminsHoldTruth
  <2>2. UNCHANGED <<row, ask, seen, hookVars, handled>>
        /\ adminAt' = [adminAt EXCEPT ![a] = "book"] /\ adminAt[a] = "stripe"
    BY <1>4 DEF RefundAtStripe
  <2>3. /\ charge' \in 0..Amount /\ charge' = charge + ask[a]
        /\ events' \subseteq Event /\ events \subseteq events'
        /\ EventsAreTrue' /\ HandlersHoldTruth'
    BY <2>1, <2>2, RefundPreserves
  <2>4. TypeOK'
    BY <2>1, <2>2, <2>3 DEF IInv, TypeOK, Refund, hookVars
  <2>5. AdminsHoldTruth'
    BY <2>1, <2>2, <2>3 DEF IInv, TypeOK, AdminsHoldTruth
  <2>6. BooksNeverAhead'
    BY <2>1, <2>2, <2>3 DEF IInv, TypeOK, Row, BooksNeverAhead
  <2> QED
    BY <2>2, <2>3, <2>4, <2>5, <2>6 DEF IInv, StatusFits, IntentMeansPayment
<1>5. CASE Book(a)
  <2>1. seen[a] + ask[a] \in 1..charge /\ HasIntent
    BY <1>5 DEF Book, IInv, AdminsHoldTruth, TypeOK
  <2>2. UNCHANGED <<stripeVars, hookVars, handled>> /\ AdminDone(a)
    BY <1>5 DEF Book
  <2>3. /\ row' \in Row /\ row'.intent = row.intent
        /\ BooksNeverAhead' /\ StatusFits' /\ IntentMeansPayment' /\ EventsAreTrue'
    BY <1>5, <2>1, <2>2, WritingTruth DEF Book
  <2>4. TypeOK'
    BY <2>2, <2>3 DEF AdminDone, IInv, TypeOK, stripeVars, hookVars
  <2>5. HandlersHoldTruth' /\ AdminsHoldTruth'
    BY <2>2, <2>3 DEF AdminDone, IInv, HandlersHoldTruth, AdminsHoldTruth, TypeOK, stripeVars, hookVars
  <2> QED BY <2>3, <2>4, <2>5 DEF IInv
<1>6. CASE RefundFails(a)
  BY <1>6, <1>1 DEF RefundFails
<1> QED BY <1>2, <1>3, <1>4, <1>5, <1>6

LEMMA NextPreserves == IInv /\ [Next]_vars => IInv'
<1> SUFFICES ASSUME IInv, [Next]_vars PROVE IInv'
  OBVIOUS
<1>1. CASE UNCHANGED vars
  BY <1>1 DEF vars, IInv, TypeOK, BooksNeverAhead, StatusFits, IntentMeansPayment, EventsAreTrue,
     HandlersHoldTruth, AdminsHoldTruth
<1>2. CASE ChargeFails \/ ChargeSucceeds \/ DashboardRefund
  BY <1>2, StripePreserves
<1>3. CASE HandlePaymentFailed \/ HandlePaymentSucceeded
  BY <1>3, InsertPreserves
<1>4. CASE \E h \in Handler : (\E n \in 1..Amount : FindPayment(h, n)) \/ WriteTotal(h) \/ HandlerDies(h)
  BY <1>4, HandlerPreserves
<1>5. CASE \E a \in Admin : \/ RequestRefund(a) \/ IssueRefund(a) \/ RefundAtStripe(a)
                          \/ Book(a) \/ RefundFails(a)
  BY <1>5, AdminPreserves
<1> QED BY <1>1, <1>2, <1>3, <1>4, <1>5 DEF Next

LEMMA Invariance == Spec => []IInv
BY InitInv, NextPreserves, PTL DEF Spec

-----------------------------------------------------------------------------
\* Every variable keeps its range.
THEOREM PaymentsTypeCorrect == Spec => []TypeOK
BY Invariance, PTL DEF IInv

\* The row never shows more refunded than Stripe has refunded.
THEOREM PaymentsNeverAhead == Spec => []BooksNeverAhead
BY Invariance, PTL DEF IInv

\* A payment shown as refunded has been refunded in full.
THEOREM PaymentsRefundedInFull == Spec => []RefundedMeansPaidBack
<1>1. IInv => RefundedMeansPaidBack
  BY PaymentsAssumption
  DEF IInv, TypeOK, Row, RefundedMeansPaidBack, StatusFits, StatusOf, BooksNeverAhead
<1> QED BY <1>1, Invariance, PTL

-----------------------------------------------------------------------------
(* The refinement.  Stripe's steps are the ledger's Refund, the insertions *)
(* its Record, and both ways to write a total its Book.                    *)

LEMMA WriteIsBook ==
  ASSUME IInv, NEW n \in 1..charge, HasIntent,
         row' = [row EXCEPT !.refunded = n, !.status = StatusOf(n)], charge' = charge
  PROVE  Ledger!Book
<1>1. row'.refunded = n /\ row'.status = StatusOf(n)
  BY DEF IInv, TypeOK, Row
<1>2. row.status \notin {"absent", "failed"}
  BY DEF IInv, IntentMeansPayment
<1> QED BY <1>1, <1>2 DEF Ledger!Book, Ledger!StatusOf, StatusOf

LEMMA NextLedger ==
  IInv /\ [Next]_vars => [Ledger!Next]_<<charge, row.refunded, row.status>>
<1> SUFFICES ASSUME IInv, [Next]_vars
             PROVE  Ledger!Next \/ UNCHANGED <<charge, row>>
  OBVIOUS
<1> USE PaymentsAssumption
<1>1. ASSUME NEW n \in 1..Amount, Refund(n), UNCHANGED row PROVE Ledger!Next
  BY <1>1 DEF Refund, Ledger!Next, Ledger!Refund, IInv, TypeOK
<1>2. ASSUME NEW s \in {"failed", "succeeded"}, NEW b \in Intent, InsertRow(s, b), UNCHANGED charge
      PROVE  Ledger!Next \/ UNCHANGED <<charge, row>>
  BY <1>2 DEF InsertRow, Ledger!Next, Ledger!Record, IInv, StatusFits
<1>3. CASE ChargeFails \/ ChargeSucceeds
  BY <1>3 DEF ChargeFails, ChargeSucceeds
<1>4. CASE DashboardRefund
  BY <1>4, <1>1 DEF DashboardRefund
<1>5. CASE HandlePaymentFailed
  BY <1>5, <1>2 DEF HandlePaymentFailed, stripeVars
<1>6. CASE HandlePaymentSucceeded
  BY <1>6, <1>2 DEF HandlePaymentSucceeded, stripeVars
<1>7. ASSUME NEW h \in Handler, (\E n \in 1..Amount : FindPayment(h, n)) \/ HandlerDies(h)
      PROVE  UNCHANGED <<charge, row>>
  BY <1>7 DEF FindPayment, HandlerDies, stripeVars
<1>8. ASSUME NEW h \in Handler, WriteTotal(h) PROVE Ledger!Next
  BY <1>8, WriteIsBook DEF WriteTotal, IInv, HandlersHoldTruth, Ledger!Next, stripeVars
<1>9. ASSUME NEW a \in Admin, RequestRefund(a) \/ IssueRefund(a) \/ RefundFails(a)
      PROVE  UNCHANGED <<charge, row>>
  BY <1>9 DEF RequestRefund, IssueRefund, RefundFails, stripeVars
<1>10. ASSUME NEW a \in Admin, RefundAtStripe(a) PROVE Ledger!Next
  BY <1>10, <1>1 DEF RefundAtStripe, IInv, TypeOK, AdminsHoldTruth
<1>11. ASSUME NEW a \in Admin, Book(a) PROVE Ledger!Next
  <2>1. seen[a] + ask[a] \in 1..charge /\ HasIntent
    BY <1>11 DEF Book, IInv, TypeOK, AdminsHoldTruth
  <2> QED BY <1>11, <2>1, WriteIsBook DEF Book, Ledger!Next, stripeVars
<1>12. CASE UNCHANGED vars
  BY <1>12 DEF vars
<1> QED
  BY <1>3, <1>4, <1>5, <1>6, <1>7, <1>8, <1>9, <1>10, <1>11, <1>12 DEF Next

\* Whatever the writers do to each other, the row keeps the ledger's promise.
THEOREM PaymentsKeepLedger == Spec => LedgerKept
<1>1. Init => Ledger!Init
  BY DEF Init, Ledger!Init, NoRow
<1> QED BY <1>1, NextLedger, Invariance, PTL DEF Spec, LedgerKept, Ledger!Spec
=============================================================================
