---------------------------- MODULE RefundLedger ----------------------------
(***************************************************************************)
(* What the row of a payment promises to whoever reads it: it follows the  *)
(* money and never runs ahead of it.  Stripe moves money in one direction; *)
(* the books may be late, and may even go back to an older total, but they *)
(* show only totals that Stripe has refunded, with the status that belongs *)
(* to the total, and only for a payment that was recorded as one.          *)
(***************************************************************************)
EXTENDS Naturals

CONSTANT Amount   \* cents paid

VARIABLES
  charged,   \* cents Stripe has refunded
  booked,    \* cents the row says are refunded
  shown      \* status of the row

StatusOf(total) == IF total >= Amount THEN "refunded" ELSE "partially_refunded"

Init == charged = 0 /\ booked = 0 /\ shown = "absent"

\* A charge that failed may be shown, and be followed by one that succeeds.
Record ==
  /\ \/ shown = "absent" /\ shown' \in {"failed", "succeeded"}
     \/ shown = "failed" /\ shown' = "succeeded"
  /\ UNCHANGED <<charged, booked>>

Refund ==
  /\ charged' \in (charged + 1)..Amount
  /\ UNCHANGED <<booked, shown>>

Book ==
  /\ shown \notin {"absent", "failed"}
  /\ booked' \in 1..charged /\ shown' = StatusOf(booked')
  /\ UNCHANGED charged

Next == Record \/ Refund \/ Book

Spec == Init /\ [][Next]_<<charged, booked, shown>>
=============================================================================
