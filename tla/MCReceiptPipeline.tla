---------------------------- MODULE MCReceiptPipeline ----------------------------
(* Instances of ReceiptPipeline for TLC.                                   *)
EXTENDS ReceiptPipelineRefinement, TLC

Symmetry == Permutations(Receipts) \cup Permutations(Workers)
            \cup Permutations(Handlers)
=============================================================================
