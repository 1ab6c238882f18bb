---------------------------- MODULE RunRefinement ----------------------------
(***************************************************************************)
(* The run manager implements the abstract run service.  Its state is that *)
(* of the fields also while a start changes them under the lock, which is  *)
(* when the service has a caller.                                          *)
(***************************************************************************)
EXTENDS RunManager

\* The starter has launched its child and has not returned, or the waiter is there.
Launched(r) == pc[Starter(r)] \in {"wire", "take", "clear", "check", "put", "disable"}
Recording(r) == Launched(r) \/ pc[Waiter(r)] \notin {"idle", "done"}

Owner == IF process # None /\ Recording(process) THEN process ELSE None
Live == {r \in Run : Attended(r)}

Service == INSTANCE RunService WITH
  caller <- lock,
  status <- state,
  owner  <- Owner,
  live   <- Live,
  awake  <- keeper

\* However starts, waiters, stops and exits interleave and whatever fails, one
\* child is looked after at a time, with the machine kept awake unless the
\* keep-awake thread once failed to start, and its end is recorded once unless a
\* stop or the next start came first or its start gave it up (start_run,
\* stop_run, _wait_for_process, sleep_prevention).
ImplementsRunService == Service!Spec

-----------------------------------------------------------------------------
\* What the refinement needs beside IInv and ChildrenOK: a waiter is past its
\* wait when the child has ended, the manager's process has somebody to record
\* its end or was given up, no child of the manager runs while a start prepares
\* its own, and nothing but a stop replaces the state while the child runs.
Preparing(r) ==
  pc[Starter(r)] \in {"open", "enable", "read", "apply", "confirm", "configure", "prepare"}

ServiceOK ==
  /\ \A r \in Run : pc[Waiter(r)] \notin {"idle", "wait"} => child[r] \in Ended
  /\ process # None =>
       Launched(process) \/ pc[Waiter(process)] # "idle" \/ process \in leaked
  /\ \A r \in Run : Preparing(r) /\ process # None => child[process] # "alive"
  /\ process # None /\ child[process] = "alive" => state \in {"running", "stopped"}

=============================================================================
