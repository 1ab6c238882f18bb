-------------------------- MODULE BaselineRefinement --------------------------
(***************************************************************************)
(* The repository implements the abstract lifecycle: the three sets are    *)
(* read off the reduction of the log over the packages on disk, as         *)
(* rebuild_indexes and inspect_baseline read them.                         *)
(***************************************************************************)
EXTENDS BaselineRepository

InLifecycleState(s) ==
  {q.id : q \in {r \in packages : InState(log, r.id, s)}}

Lifecycle == INSTANCE BaselineLifecycle WITH
  active     <- InLifecycleState("APPROVED"),
  superseded <- InLifecycleState("SUPERSEDED"),
  archived   <- InLifecycleState("ARCHIVED")

\* Whatever the interleaving of the writers and wherever one dies, a baseline
\* is approved once, replaces the active one of its key in one step, and never
\* moves backwards (_reduce_states over the events of approve, supersede and
\* archive).
ImplementsLifecycle == Lifecycle!Spec

=============================================================================
