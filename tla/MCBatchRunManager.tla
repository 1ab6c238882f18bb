------------------------- MODULE MCBatchRunManager -------------------------
(* Small instances of BatchRunManager for TLC. *)
EXTENDS BatchRefinement

=============================================================================
