---------------------------- MODULE MCRunManager ----------------------------
(* A small instance of RunManager for TLC: RunManager.cfg. *)
EXTENDS RunRefinement

=============================================================================
