------------------------- MODULE MCHelperTransport -------------------------
(* A small instance of HelperTransport for TLC. *)
EXTENDS HelperRefinement, TLC

\* The ids of one family are interchangeable.
IdSymmetry == Permutations(Smart)

=============================================================================
