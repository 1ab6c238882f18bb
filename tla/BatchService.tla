----------------------------- MODULE BatchService -----------------------------
(***************************************************************************)
(* What the batch manager promises of a batch, with no worker, child, flag *)
(* or index in sight: its devices are run in the order of the list, one at *)
(* a time and each at most once; a batch that is finished has ended them   *)
(* all, but for one behind a device whose result was overruled; one that   *)
(* is stopped takes no further one; its candidates are the qualified       *)
(* devices that passed, and all of them are there when the reviews are     *)
(* written.  A start that raises leaves a batch that runs no device.       *)
(***************************************************************************)
EXTENDS Naturals

CONSTANTS Batch, N, Full, Qualified, None

VARIABLES
  batch,   \* the latest batch
  phase,   \* whether it is running, void, stopped or finished
  result,  \* what became of each device of each batch
  active,  \* the devices being run
  twice,   \* the devices whose result was overruled in a running batch
  cand,    \* the devices with a candidate
  review   \* the batch each batch's reviews are about

service == <<batch, phase, result, active, twice, cand, review>>

Device == 1..N
HasEnded(i) == result[batch][i] \in {"passed", "failed"}
Skipped(i) == i > 1 /\ <<batch, i - 1>> \in twice

Init ==
  /\ batch = None
  /\ phase = "idle"
  /\ result = [b \in Batch |-> [i \in Device |-> "pending"]]
  /\ active = {}
  /\ twice = {}
  /\ cand = {}
  /\ review = [b \in Batch |-> None]

Start(b) ==
  /\ phase \notin {"running", "void"}
  /\ active = {}
  /\ \A i \in Device : result[b][i] = "pending" /\ <<b, i>> \notin twice
  /\ batch' = b
  /\ phase' = "running"
  /\ UNCHANGED <<result, active, twice, cand, review>>

\* The start raises: there is a batch that says it runs, and nothing runs.
Void(b) ==
  /\ phase \notin {"running", "void"}
  /\ active = {}
  /\ batch' = b
  /\ phase' = "void"
  /\ UNCHANGED <<result, active, twice, cand, review>>

\* The next device: those before it have ended, those behind it are untouched.
Take(i) ==
  /\ phase = "running"
  /\ active = {}
  /\ ~Skipped(i)
  /\ \A j \in Device : IF j < i THEN HasEnded(j) \/ Skipped(j) ELSE result[batch][j] = "pending"
  /\ result' = [result EXCEPT ![batch][i] = "running"]
  /\ active' = {<<batch, i>>}
  /\ UNCHANGED <<batch, phase, twice, cand, review>>

\* The device being run ends; once the batch is stopped it ends as stopped.
End(i, s) ==
  /\ active = {<<batch, i>>}
  /\ IF s = "stopped" THEN phase = "stopped" ELSE phase = "running"
  /\ result' = [result EXCEPT ![batch][i] = s]
  /\ active' = {}
  /\ UNCHANGED <<batch, phase, twice, cand, review>>

\* The result of the device that ended last is overruled, and in a batch that
\* still runs the next device is passed over.
Overrule(i) ==
  /\ active = {}
  /\ HasEnded(i)
  /\ \A j \in Device : j > i => result[batch][j] = "pending"
  /\ \/ /\ phase = "running"
        /\ result' = [result EXCEPT ![batch][i] = "failed"]
        /\ twice' = twice \cup {<<batch, i>>}
     \/ /\ phase = "stopped"
        /\ result' = [result EXCEPT ![batch][i] = "stopped"]
        /\ UNCHANGED twice
  /\ UNCHANGED <<batch, phase, active, cand, review>>

\* The device being run is given up, with no result.
Abandon ==
  /\ active # {}
  /\ active' = {}
  /\ UNCHANGED <<batch, phase, result, twice, cand, review>>

Stop ==
  /\ phase \in {"running", "void"}
  /\ phase' = "stopped"
  /\ UNCHANGED <<batch, result, active, twice, cand, review>>

Finish ==
  /\ phase = "running"
  /\ active = {}
  /\ \A i \in Device : HasEnded(i) \/ Skipped(i)
  /\ phase' = "finished"
  /\ UNCHANGED <<batch, result, active, twice, cand, review>>

Deserves(i) == i \in Qualified /\ result[batch][i] = "passed"

Award(i) ==
  /\ phase = "finished"
  /\ batch \in Full
  /\ Deserves(i)
  /\ cand' = cand \cup {<<batch, i>>}
  /\ UNCHANGED <<batch, phase, result, active, twice, review>>

Review ==
  /\ phase = "finished"
  /\ batch \in Full
  /\ \A i \in Device : Deserves(i) => <<batch, i>> \in cand
  /\ review' = [review EXCEPT ![batch] = batch]
  /\ UNCHANGED <<batch, phase, result, active, twice, cand>>

Next ==
  \/ \E b \in Batch : Start(b) \/ Void(b)
  \/ \E i \in Device :
       \/ Take(i) \/ Overrule(i) \/ Award(i)
       \/ \E s \in {"passed", "failed", "stopped"} : End(i, s)
  \/ Abandon \/ Stop \/ Finish \/ Review

Spec == Init /\ [][Next]_service

=============================================================================
