----------------------------- MODULE TokenStore -----------------------------
(***************************************************************************)
(* What the stored credentials of one Salesforce connection promise to the *)
(* readers of the table: they are stored once, every write replaces the    *)
(* access token by one that Salesforce has issued later, whoever races     *)
(* with whom, and credentials that were deleted never come back.           *)
(***************************************************************************)
EXTENDS Naturals

VARIABLES
  phase,    \* "none", "stored" or "deleted"
  access    \* the access token, by the order in which Salesforce issued them

Init == phase = "none" /\ access = 0

Store == phase = "none" /\ phase' = "stored" /\ access' \in Nat \ {0}

Replace == phase = "stored" /\ UNCHANGED phase /\ access' \in Nat /\ access' > access

Delete == phase = "stored" /\ phase' = "deleted" /\ access' = 0

Next == Store \/ Replace \/ Delete

Spec == Init /\ [][Next]_<<phase, access>>
=============================================================================
