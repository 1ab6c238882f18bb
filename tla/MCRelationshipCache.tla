------------------------ MODULE MCRelationshipCache ------------------------
(* A small instance of RelationshipCache for TLC. *)
EXTENDS RelationshipCache, TLC

\* Nodes are interchangeable.
NodeSymmetry == Permutations(Parents) \cup Permutations(Children)

=============================================================================
