----------------------------- MODULE MCScanQuota -----------------------------
(* Instances of ScanQuota for TLC.                                         *)
EXTENDS ScanQuota, TLC

Symmetry == Permutations(Receipts) \cup Permutations(Handlers)
=============================================================================
