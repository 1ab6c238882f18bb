--------------------------- MODULE BatchRefinement ---------------------------
(***************************************************************************)
(* The manager implements the abstract batch service until batches         *)
(* overlap: the devices being run are those the workers hold and have not  *)
(* recorded, and a batch whose devices the manager never took over is void.*)
(***************************************************************************)
EXTENDS BatchRunManager

Active == {info[w] : w \in {v \in Batch : pc[v] \in AtWork}}
Phase == IF state = "running" /\ batch # list THEN "void" ELSE state

Service == INSTANCE BatchService WITH
  phase  <- Phase,
  result <- dev,
  active <- Active

\* A batch runs its devices in the order of the list, one at a time and each
\* once, whatever fails and whenever it is stopped, and its candidates are all
\* there when its reviews are written; this is promised for every step up to
\* the first start beside a busy worker (_run_loop, start_batch, stop_batch,
\* _auto_generate_full_candidates).
ImplementsBatchService ==
  Service!Init /\ [][overlaps' = 0 => Service!Next]_(Service!service)

-----------------------------------------------------------------------------
(* What the refinement needs beside IInv, AloneOK and TurnOK.              *)

\* The flag and the state agree, and who saw the flag is not overtaken by a start.
StopOK ==
  /\ state = "stopped" => stopReq
  /\ \A w \in Batch : pc[w] \in {"mark", "leave"} => stopReq

\* The devices that the worker has not come to are pending.
AheadOK ==
  /\ \A b \in Batch : pc[b] = "idle" => dev[b] = AllPending
  /\ \A w \in Batch, i \in Device :
       pc[w] \notin {"idle", "done"} /\ (i > index \/ (i = index /\ pc[w] \notin AtWork))
         => dev[list][i] = "pending"

\* A batch at its candidates is finished and full, and the devices looked at so
\* far have theirs.
AwardedOK ==
  \A w \in Batch :
    /\ pc[w] \notin {"generate", "review", "done"} => made[w] = 0
    /\ pc[w] \in {"generate", "review"} =>
         /\ state = "finished" /\ batch \in Full
         /\ pc[w] = "review" => made[w] = N
         /\ \A i \in Device : i <= made[w] /\ i \in Qualified /\ dev[list][i] = "passed"
                                => <<batch, i>> \in cand

\* All of it: what holds until batches overlap.
Serial == AloneOK /\ TurnOK /\ StopOK /\ AheadOK /\ AwardedOK
SerialInv == overlaps = 0 => Serial

=============================================================================
