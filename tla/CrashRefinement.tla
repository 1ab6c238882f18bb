---------------------------- MODULE CrashRefinement ----------------------------
(***************************************************************************)
(* A run implements the crash ledger.  An attempt and its crash show in the*)
(* ledger when the attempt is over, and a crash is open until its outcome  *)
(* is written: "captured" and "recovery_preflight_passed" are none.        *)
(***************************************************************************)
EXTENDS ScenarioRun

\* The attempt the event belongs to is over.
Told == {e \in Events : contexts[e].attempt < Len(attempts[contexts[e].scenario])}

Pending == {"captured", "recovery_preflight_passed"}
Entry(e) == [scenario |-> contexts[e].scenario, attempt |-> contexts[e].attempt,
             type |-> contexts[e].type,
             outcome |-> IF contexts[e].result \in Pending THEN "open" ELSE contexts[e].result]

Ledger == INSTANCE CrashLedger WITH
  scenario <- index,
  tries    <- [s \in 1..N |-> Len(attempts[s])],
  crashes  <- {Entry(e) : e \in Told},
  givenUp  <- abort

\* However attempts crash, restart and end, and wherever the run is cut off, a
\* scenario is tried a second time only after a crash, an attempt leaves one
\* crash at most, each crash is settled once in its own scenario, with the
\* outcome of the attempts, and the run is given up by what is on disk
\* (main, run_recovery_preflight, update_crash_run_stats,
\* should_abort_for_crash_policy).
ImplementsCrashLedger == Ledger!Spec

-----------------------------------------------------------------------------
(* What the refinement needs beside the types and places of the runner and *)
(* the count of its events.                                                *)

\* An attempt has left one event at most.
OneEventEach ==
  \A d, e \in Events :
    contexts[d].scenario = contexts[e].scenario /\ contexts[d].attempt = contexts[e].attempt
      => d = e

\* Only the crash of an attempt that is being summed up is still to be told.
AllTold == \A e \in Events : e \in Told \/ (stage = "finish" /\ e = signal /\ signal \notin processed)

\* The crash at hand, and one just detected, have no outcome yet.
PendingOK ==
  \A e \in Events :
    e = handling \/ (e = signal /\ signal \notin processed) <=> contexts[e].result \in Pending

\* An enabled scenario that the run has left was tried.
TriedOK == stage \in {"next", "done"} /\ index # 0 /\ plan[index] # "disabled" => attempts[index] # <<>>

TellInv == stage = "interrupted" \/ (OneEventEach /\ AllTold /\ PendingOK /\ TriedOK)

=============================================================================
