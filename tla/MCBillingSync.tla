---------------------------- MODULE MCBillingSync ----------------------------
(* Instances of BillingSync for TLC.                                       *)
EXTENDS BillingSync, TLC

Symmetry == Permutations(Events) \cup Permutations(Handlers)
=============================================================================
