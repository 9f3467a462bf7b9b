------------------------------ MODULE ReceiptLedger ------------------------------
(***************************************************************************)
(* What the receipt pipeline promises of a user's books, whatever the      *)
(* messages, workers and retries behind them: a receipt leaves the books   *)
(* only by being removed and is never booked after that, and it is         *)
(* reported complete only while it is booked.                              *)
(***************************************************************************)
CONSTANT Receipts

VARIABLES
    booked,    \* receipts that have a transaction
    reported,  \* receipts the API reports as COMPLETED
    removed    \* receipts that were deleted

vars == <<booked, reported, removed>>

Init == booked = {} /\ reported = {} /\ removed = {}

Book(r) ==
    /\ r \notin booked \cup removed
    /\ booked' = booked \cup {r}
    /\ UNCHANGED <<reported, removed>>

Report(r) ==
    /\ r \in booked
    /\ reported' = reported \cup {r}
    /\ UNCHANGED <<booked, removed>>

\* A report may be taken back (a late revert, a duplicate job that fails);
\* the booking may not.
Retract(r) ==
    /\ reported' = reported \ {r}
    /\ UNCHANGED <<booked, removed>>

Remove(r) ==
    /\ booked' = booked \ {r}
    /\ reported' = reported \ {r}
    /\ removed' = removed \cup {r}

Next == \E r \in Receipts : Book(r) \/ Report(r) \/ Retract(r) \/ Remove(r)

Spec == Init /\ [][Next]_vars
=============================================================================
