------------------------------ MODULE RunService ------------------------------
(***************************************************************************)
(* What the single-run manager promises, with no waiter, lock, counter or  *)
(* saved setting in sight: one child runs at a time and the machine is kept*)
(* awake for as long, unless that once broke; a call launches its child or *)
(* says error; the status of a run is replaced by its owner or the next    *)
(* call and by nobody else, and the owner does not replace a stop.         *)
(***************************************************************************)
CONSTANTS Run, None

VARIABLES
  caller,  \* the run being started
  status,  \* what is said of the manager
  owner,   \* the run whose end is still to be recorded
  live,    \* the runs whose child is looked after
  awake    \* whether sleep is prevented: "none", "running", or "broken" for good

service == <<caller, status, owner, live, awake>>

Init ==
  /\ caller = None
  /\ status = "idle"
  /\ owner = None
  /\ live = {}
  /\ awake = "none"

Call(r) ==
  /\ caller = None
  /\ live = {}
  /\ caller' = r
  /\ UNCHANGED <<status, owner, live, awake>>

KeepAwake ==
  /\ caller # None
  /\ awake = "none"
  /\ awake' = "running"
  /\ UNCHANGED <<caller, status, owner, live>>

\* The call ends, and nothing keeps the machine awake from now on.
BreakAwake ==
  /\ caller # None
  /\ live = {}
  /\ awake = "none"
  /\ awake' = "broken"
  /\ status' = "error"
  /\ owner' = None
  /\ caller' = None
  /\ UNCHANGED live

\* The run takes over, also from one whose end has not been recorded.
Launch ==
  /\ caller # None
  /\ live = {}
  /\ awake # "none"
  /\ live' = {caller}
  /\ owner' = caller
  /\ status' = "running"
  /\ UNCHANGED <<caller, awake>>

\* The call fails, and may have more to give back before it returns.
Fail ==
  /\ caller # None
  /\ live = {}
  /\ status' = "error"
  /\ owner' \in {owner, None}
  /\ caller' \in {caller, None}
  /\ awake' = awake \/ (awake = "running" /\ awake' = "none")
  /\ UNCHANGED live

Return ==
  /\ caller # None
  /\ owner = caller
  /\ status = "running"
  /\ caller' = None
  /\ UNCHANGED <<status, owner, live, awake>>

\* The call returns by giving its run up: nobody looks after the child, and
\* nobody will replace the status but a stop or the next call.
Abandon ==
  /\ caller # None
  /\ owner = caller
  /\ status = "running"
  /\ live' = {}
  /\ owner' = None
  /\ caller' = None
  /\ UNCHANGED <<status, awake>>

Stop ==
  /\ caller = None
  /\ live # {} \/ owner = None
  /\ status \in {"running", "stopped"}
  /\ status' = "stopped"
  /\ UNCHANGED <<caller, owner, live, awake>>

\* The child exits, or nobody can be found to look after it.
Leave ==
  /\ live # {}
  /\ live' = {}
  /\ UNCHANGED <<caller, status, owner, awake>>

LetSleep ==
  /\ live = {}
  /\ awake = "running"
  /\ awake' = "none"
  /\ UNCHANGED <<caller, status, owner, live>>

End ==
  /\ caller = None
  /\ live = {}
  /\ owner # None
  /\ IF status = "stopped" THEN UNCHANGED status ELSE status' \in {"finished", "error"}
  /\ owner' = None
  /\ UNCHANGED <<caller, live, awake>>

Next ==
  \/ \E r \in Run : Call(r)
  \/ KeepAwake \/ BreakAwake \/ Launch \/ Fail \/ Return \/ Abandon
  \/ Stop \/ Leave \/ LetSleep \/ End

Spec == Init /\ [][Next]_service

=============================================================================
