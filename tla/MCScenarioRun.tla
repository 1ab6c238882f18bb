--------------------------- MODULE MCScenarioRun ---------------------------
(* A small instance of a run for TLC.                                      *)
EXTENDS CrashRefinement, TLC

=============================================================================
