------------------------------ MODULE Payments ------------------------------
(***************************************************************************)
(* One invoice: what Stripe knows of it, the row of payment_history that   *)
(* BillingService keeps, and everybody who writes that row: the handlers   *)
(* of Stripe's events and the refunds an administrator issues.  No writer  *)
(* takes a lock; each await is a step of its own.                          *)
(*                                                                         *)
(* Stripe sends an event at least once and in no particular order, and     *)
(* WebhookEvents shows that one delivery may be handled by two handlers,   *)
(* and handled again later: any event that exists may be handled at any    *)
(* time.  The organization of the invoice's customer exists; e-mails,      *)
(* audit logs and alerts are left out.                                     *)
(***************************************************************************)
EXTENDS Naturals

CONSTANTS
  Admin,      \* requests POST /admin/billing/refund
  Handler,    \* handlers of charge.refunded events
  Amount      \* cents of the invoice

ASSUME PaymentsAssumption == Amount \in Nat \ {0}

VARIABLES
  invoice,    \* Stripe: "open" or "paid"
  charge,     \* Stripe: charge.amount_refunded, in cents
  events,     \* Stripe: the events it has emitted
  row,        \* the row: status, stripePaymentIntentId, refundedAmountCents (null is 0)
  adminAt, ask, seen,   \* per request: next await, amount, refundedAmountCents as read
  hookAt, total,        \* per handler: next await, amount_refunded of its event
  handled     \* history: the events whose handler has returned

vars == <<invoice, charge, events, row, adminAt, ask, seen, hookAt, total, handled>>

Intent == {"null", "known"}   \* stripePaymentIntentId

Failed == [type |-> "payment_failed"]
Succeeded(intent) == [type |-> "payment_succeeded", intent |-> intent]
Refunded(n) == [type |-> "charge_refunded", total |-> n]

Event == {Failed} \cup {Succeeded(i) : i \in Intent} \cup {Refunded(n) : n \in 1..Amount}

NoRow == [status |-> "absent", intent |-> "null", refunded |-> 0]

Row == [status : {"absent", "failed", "succeeded", "partially_refunded", "refunded"},
        intent : Intent, refunded : 0..Amount]

TypeOK ==
  /\ invoice \in {"open", "paid"}
  /\ charge \in 0..Amount
  /\ events \subseteq Event /\ handled \subseteq events
  /\ row \in Row
  /\ adminAt \in [Admin -> {"idle", "service", "stripe", "book"}]
  /\ ask \in [Admin -> 0..Amount] /\ seen \in [Admin -> 0..Amount]
  /\ hookAt \in [Handler -> {"idle", "write"}]
  /\ total \in [Handler -> 0..Amount]

Init ==
  /\ invoice = "open" /\ charge = 0 /\ events = {} /\ row = NoRow
  /\ adminAt = [a \in Admin |-> "idle"]
  /\ ask = [a \in Admin |-> 0] /\ seen = [a \in Admin |-> 0]
  /\ hookAt = [h \in Handler |-> "idle"] /\ total = [h \in Handler |-> 0]
  /\ handled = {}

stripeVars == <<invoice, charge, events>>
adminVars == <<adminAt, ask, seen>>
hookVars == <<hookAt, total>>

-----------------------------------------------------------------------------
(* Stripe.                                                                 *)

ChargeFails ==
  /\ invoice = "open"
  /\ events' = events \cup {Failed}
  /\ UNCHANGED <<invoice, charge, row, adminVars, hookVars, handled>>

\* The payments of an invoice are part of the event only if the API version includes
\* them; without them the row has no payment intent.
ChargeSucceeds ==
  /\ invoice = "open" /\ invoice' = "paid"
  /\ \E intent \in Intent : events' = events \cup {Succeeded(intent)}
  /\ UNCHANGED <<charge, row, adminVars, hookVars, handled>>

\* An event carries the total at the time of its refund.
Refund(n) ==
  /\ invoice = "paid" /\ n \in 1..(Amount - charge)
  /\ charge' = charge + n
  /\ events' = events \cup {Refunded(charge + n)}
  /\ UNCHANGED invoice

DashboardRefund ==
  /\ \E n \in 1..Amount : Refund(n)
  /\ UNCHANGED <<row, adminVars, hookVars, handled>>

-----------------------------------------------------------------------------
(* The handlers of invoice events: INSERT ... ON CONFLICT DO NOTHING, with *)
(* stripe_invoice_id unique.                                               *)

\* Mutant: on conflict the row is updated.
UpsertRow(status, intent) ==
  row' = [row EXCEPT !.status = status, !.intent = intent]

InsertRow(status, intent) ==
  row' = IF row.status = "absent"
           THEN [status |-> status, intent |-> intent, refunded |-> 0] ELSE row

HandlePaymentFailed ==
  /\ Failed \in events
  /\ InsertRow("failed", "null")
  /\ handled' = handled \cup {Failed}
  /\ UNCHANGED <<stripeVars, adminVars, hookVars>>

HandlePaymentSucceeded ==
  /\ \E intent \in Intent : /\ Succeeded(intent) \in events
                             /\ InsertRow("succeeded", intent)
                             /\ handled' = handled \cup {Succeeded(intent)}
  /\ UNCHANGED <<stripeVars, adminVars, hookVars>>

-----------------------------------------------------------------------------
(* handleChargeRefunded().                                                 *)

StatusOf(n) == IF n >= Amount THEN "refunded" ELSE "partially_refunded"

HasIntent == row.intent = "known"

\* Without a row that has the payment intent the event is dropped.
FindPayment(h, n) ==
  /\ hookAt[h] = "idle" /\ Refunded(n) \in events
  /\ \/ /\ HasIntent /\ (row.refunded # n \/ row.status # StatusOf(n))
        /\ hookAt' = [hookAt EXCEPT ![h] = "write"]
        /\ total' = [total EXCEPT ![h] = n]
        /\ UNCHANGED handled
     \/ /\ ~HasIntent \/ (row.refunded = n /\ row.status = StatusOf(n))
        /\ handled' = handled \cup {Refunded(n)}
        /\ UNCHANGED hookVars
  /\ UNCHANGED <<stripeVars, row, adminVars>>

\* The event is a snapshot, written over whatever is there by now.
WriteTotal(h) ==
  /\ hookAt[h] = "write"
  /\ row' = [row EXCEPT !.refunded = total[h], !.status = StatusOf(total[h])]
  /\ handled' = handled \cup {Refunded(total[h])}
  /\ hookAt' = [hookAt EXCEPT ![h] = "idle"] /\ total' = [total EXCEPT ![h] = 0]
  /\ UNCHANGED <<stripeVars, adminVars>>

HandlerDies(h) ==
  /\ hookAt[h] = "write"
  /\ hookAt' = [hookAt EXCEPT ![h] = "idle"] /\ total' = [total EXCEPT ![h] = 0]
  /\ UNCHANGED <<stripeVars, row, adminVars, handled>>

-----------------------------------------------------------------------------
(* A refund issued by an administrator.                                    *)

AdminDone(a) ==
  /\ adminAt' = [adminAt EXCEPT ![a] = "idle"]
  /\ ask' = [ask EXCEPT ![a] = 0] /\ seen' = [seen EXCEPT ![a] = 0]

\* The route reads the row and compares; 0 is an amount left out: all that remains.
RequestRefund(a) ==
  /\ adminAt[a] = "idle" /\ row.status # "absent"
  /\ \E n \in 0..(Amount - row.refunded) :
       /\ ask' = [ask EXCEPT ![a] = n]
       /\ adminAt' = [adminAt EXCEPT ![a] = "service"]
  /\ UNCHANGED <<stripeVars, row, seen, hookVars, handled>>

Refundable == row.status # "refunded" /\ HasIntent /\ row.refunded < Amount

\* issueRefund() reads it again.
IssueRefund(a) ==
  /\ adminAt[a] = "service"
  /\ IF Refundable
       THEN /\ LET most == Amount - row.refunded
               IN  ask' = [ask EXCEPT ![a] = IF @ = 0 \/ @ > most THEN most ELSE @]
            /\ seen' = [seen EXCEPT ![a] = row.refunded]
            /\ adminAt' = [adminAt EXCEPT ![a] = "stripe"]
       ELSE AdminDone(a)
  /\ UNCHANGED <<stripeVars, row, hookVars, handled>>

\* Mutant: the row is written before Stripe has answered.
RefundOptimistically(a) ==
  /\ adminAt[a] = "stripe"
  /\ adminAt' = [adminAt EXCEPT ![a] = "book"]
  /\ UNCHANGED <<stripeVars, row, ask, seen, hookVars, handled>>

\* Stripe refuses more than is left of the charge.
RefundAtStripe(a) ==
  /\ adminAt[a] = "stripe"
  /\ Refund(ask[a])
  /\ adminAt' = [adminAt EXCEPT ![a] = "book"]
  /\ UNCHANGED <<row, ask, seen, hookVars, handled>>

\* Mutant: the total is counted up in the database, where the event of this very refund
\* may have been counted already.
BookIncrement(a) ==
  /\ adminAt[a] = "book"
  /\ row' = [row EXCEPT !.refunded = @ + ask[a], !.status = StatusOf(row.refunded + ask[a])]
  /\ AdminDone(a)
  /\ UNCHANGED <<stripeVars, hookVars, handled>>

Book(a) ==
  /\ adminAt[a] = "book"
  /\ row' = [row EXCEPT !.refunded = seen[a] + ask[a], !.status = StatusOf(seen[a] + ask[a])]
  /\ AdminDone(a)
  /\ UNCHANGED <<stripeVars, hookVars, handled>>

\* Stripe refuses, its answer is lost after the refund was made, or the process dies.
RefundFails(a) ==
  /\ adminAt[a] # "idle"
  /\ AdminDone(a)
  /\ UNCHANGED <<stripeVars, row, hookVars, handled>>

-----------------------------------------------------------------------------
Next ==
  \/ ChargeFails \/ ChargeSucceeds \/ DashboardRefund
  \/ HandlePaymentFailed \/ HandlePaymentSucceeded
  \/ \E h \in Handler : \/ \E n \in 1..Amount : FindPayment(h, n)
                        \/ WriteTotal(h) \/ HandlerDies(h)
  \/ \E a \in Admin : \/ RequestRefund(a) \/ IssueRefund(a) \/ RefundAtStripe(a)
                      \/ Book(a) \/ RefundFails(a)

Spec == Init /\ [][Next]_vars

-----------------------------------------------------------------------------
(* Properties.                                                             *)

\* The books never show more refunded than Stripe has refunded, although every writer
\* writes a total that may be stale: the customer is never told of money that is not there.
BooksNeverAhead == row.refunded <= charge

\* A payment called refunded has been given back to the last cent; nothing remains that
\* the guard of issueRefund() would wrongly withhold.
RefundedMeansPaidBack ==
  row.status = "refunded" => row.refunded = Amount /\ charge = Amount

\* The row follows the money as RefundLedger promises: only totals that Stripe has
\* refunded, with the status of the total, and only for a recorded payment.
Ledger == INSTANCE RefundLedger
            WITH charged <- charge, booked <- row.refunded, shown <- row.status
LedgerKept == Ledger!Spec

\* "Records all payments" (the comment of payment_history): when the success of an invoice
\* was handled, its row is one of a payment.
AllPaymentsRecorded ==
  (\E i \in Intent : Succeeded(i) \in handled) => row.status \notin {"absent", "failed"}
=============================================================================
