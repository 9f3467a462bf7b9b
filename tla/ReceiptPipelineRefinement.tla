------------------------ MODULE ReceiptPipelineRefinement ------------------------
(***************************************************************************)
(* The receipt pipeline implements the ledger: its transaction rows are    *)
(* the bookings, its COMPLETED rows the reports.                           *)
(***************************************************************************)
EXTENDS ReceiptPipeline

Ledger == INSTANCE ReceiptLedger WITH
    booked   <- tx,
    reported <- {r \in Receipts : status[r] = "COMPLETED"},
    removed  <- {r \in Receipts : status[r] = "DELETED"}

\* However many messages, workers and retries a receipt meets, it is unbooked
\* only by its deletion, never booked after that, and reported COMPLETED only
\* from its booking on.
ImplementsLedger == Ledger!Spec
=============================================================================
