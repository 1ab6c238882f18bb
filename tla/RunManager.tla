----------------------------- MODULE RunManager -----------------------------
(***************************************************************************)
(* The single-run manager of the QA backend (qa_frontend/backend/runner.py)*)
(* with the keep-awake services it uses (sleep_prevention.py).  A call of  *)
(* start_run holds the manager's lock while it prepares the device and     *)
(* launches script_test.py as a child; a waiter thread outlives the call,  *)
(* restores the device and records how the run ended; stop_run may arrive  *)
(* at any time.  A start is refused only while the current child is alive, *)
(* so it can overlap the waiter of the run before it.                      *)
(***************************************************************************)
EXTENDS Naturals, FiniteSets

CONSTANTS
  Run,         \* calls of start_run, each with a run id of its own
  WithShadow,  \* the runs that asked for shadow validation
  None,        \* an absent value
  Setting,     \* values of the device's stay_on_while_plugged_in
  Awake,       \* the value a run applies
  MaxFault,    \* bound: failing device commands and raising calls
  MaxOutside,  \* bound: changes of the setting by somebody else
  ThreadsFail  \* whether the tee, the waiter or the keep-awake thread may fail to start

\* What enable_device_stay_awake returns: whether the original was read, the
\* original, whether the put succeeded, and the value read back afterwards.
Saved == [known : BOOLEAN, original : Setting \cup {None},
          applied : BOOLEAN, value : Setting \cup {None}]

ASSUME ManagerAssumption ==
  /\ WithShadow \subseteq Run
  /\ None \notin Run \cup Setting \cup Saved
  /\ Awake \in Setting
  /\ IsFiniteSet(Run)
  /\ MaxFault \in Nat
  /\ MaxOutside \in Nat
  /\ ThreadsFail \in BOOLEAN

VARIABLES
  lock,       \* _lock: the run whose start_run holds it, or None
  state,      \* _state
  cur,        \* _run_id, with the log path and the request that go with it
  config,     \* _runtime_config_path: the run whose config it is, or None
  process,    \* _process: the run whose child it is, or None
  child,      \* what became of each run's child process
  pc,         \* where each starter and each waiter is
  mine,       \* each thread's local copy of the stay-awake state
  stayAwake,  \* _device_stay_awake_state
  setting,    \* the device's stay_on_while_plugged_in
  requests,   \* _request_count of sleep_prevention
  keeper,     \* its _worker: "none", "running", or "broken" if its thread never started
  stopping,   \* the runs a stop_run has marked and not yet terminated
  shadow,     \* the run whose data each waiter's shadow validation used
  summary,    \* the final state each run's summary file tells
  raised,     \* the runs for which wait_for_execution raised
  leaked,     \* history: the runs whose request nobody gives back
  unwritten,  \* history: the runs with a summary that could not be written
  faults, outside,  \* counters of what the environment did
  overlap     \* history: a start was accepted before all threads had ended

fields == <<cur, config>>
sleep == <<requests, keeper>>
device == <<stayAwake, setting, sleep>>
history == <<leaked, unwritten>>
records == <<shadow, summary, raised, history>>
environment == <<faults, outside, overlap>>
vars == <<lock, state, fields, process, child, pc, mine, device, stopping, records, environment>>

Starter(r) == <<"starter", r>>
Waiter(r) == <<"waiter", r>>
Thread == {"starter", "waiter"} \X Run

PC == {"idle", "open", "enable", "read", "apply", "confirm", "configure", "prepare",
       "wire", "wait", "shadow", "take", "clear", "check", "put", "disable", "finish", "done"}

Terminal == {"stopped", "finished", "error"}
Ended == {"ok", "failed"}

Init ==
  /\ lock = None
  /\ state = "idle"
  /\ cur = None
  /\ config = None
  /\ process = None
  /\ child = [r \in Run |-> "none"]
  /\ pc = [t \in Thread |-> "idle"]
  /\ mine = [t \in Thread |-> None]
  /\ stayAwake = None
  /\ setting \in Setting \ {Awake}
  /\ requests = 0
  /\ keeper = "none"
  /\ stopping = {}
  /\ shadow = [r \in Run |-> None]
  /\ summary = [r \in Run |-> None]
  /\ raised = {}
  /\ leaked = {}
  /\ unwritten = {}
  /\ faults = 0
  /\ outside = 0
  /\ overlap = FALSE

Goto(t, here, there) ==
  /\ pc[t] = here
  /\ pc' = [pc EXCEPT ![t] = there]

Fault ==
  /\ faults < MaxFault
  /\ faults' = faults + 1
  /\ UNCHANGED <<outside, overlap>>

\* A device command either works or fails, which the caller only notes.
Works(ok) == IF ok THEN UNCHANGED environment ELSE Fault

\* _write_summary_safe: a failure is logged, and the run goes on without.
WriteSummary(r, said) ==
  \E ok \in BOOLEAN :
    /\ Works(ok)
    /\ summary' = IF ok THEN [summary EXCEPT ![r] = said] ELSE summary
    /\ unwritten' = IF ok THEN unwritten ELSE unwritten \cup {r}
    /\ UNCHANGED leaked

-----------------------------------------------------------------------------
(* start_run, up to the launch; the lock is held throughout.               *)

Busy == \E t \in Thread : pc[t] \notin {"idle", "done"}

\* Mutant: a start is refused only while another start is in progress.
BeginAnyway(r) ==
  /\ lock = None
  /\ Goto(Starter(r), "idle", "open")
  /\ lock' = r
  /\ overlap' = (overlap \/ Busy)
  /\ UNCHANGED <<state, fields, process, child, mine, device, stopping, records, faults, outside>>

\* The start is refused, and nothing changes, while the child is alive.
Begin(r) ==
  /\ lock = None
  /\ process # None => child[process] # "alive"
  /\ Goto(Starter(r), "idle", "open")
  /\ lock' = r
  /\ overlap' = (overlap \/ Busy)
  /\ UNCHANGED <<state, fields, process, child, mine, device, stopping, records, faults, outside>>

\* Without scenarios the start records an error; _process is left as it is.
NoScenario(r) ==
  /\ Goto(Starter(r), "open", "done")
  /\ cur' = r
  /\ config' = None
  /\ state' = "error"
  /\ WriteSummary(r, "error")
  /\ lock' = None
  /\ UNCHANGED <<process, child, mine, device, stopping, shadow, raised>>

OpenLog(r) ==
  /\ Goto(Starter(r), "open", "enable")
  /\ cur' = r
  /\ config' = None
  /\ UNCHANGED <<lock, state, process, child, mine, device, stopping, records, environment>>

\* An exception before sleep prevention was enabled; opening the log comes
\* before the run's fields are set.
OpenRaises(r) ==
  /\ Fault
  /\ Goto(Starter(r), "open", "done")
  /\ \/ UNCHANGED fields
     \/ cur' = r /\ config' = None
  /\ state' = "error"
  /\ process' = None
  /\ lock' = None
  /\ UNCHANGED <<child, mine, device, stopping, records>>

\* The first request makes the worker thread that keeps the machine awake.
EnableSleepPrevention(r) ==
  /\ Goto(Starter(r), "enable", "read")
  /\ requests' = requests + 1
  /\ keeper' = IF keeper = "none" THEN "running" ELSE keeper
  /\ UNCHANGED <<lock, state, fields, process, child, mine, stayAwake, setting,
                 stopping, records, environment>>

\* The request is counted and the worker recorded before its thread is started.
\* A thread that cannot be started is an exception to start_run, which does not
\* give back what it thinks it never had.
KeeperFails(r) ==
  /\ ThreadsFail
  /\ Fault
  /\ keeper = "none"
  /\ Goto(Starter(r), "enable", "done")
  /\ requests' = requests + 1
  /\ keeper' = "broken"
  /\ leaked' = leaked \cup {r}
  /\ state' = "error"
  /\ process' = None
  /\ lock' = None
  /\ UNCHANGED <<fields, child, mine, stayAwake, setting, stopping, shadow, summary, raised,
                 unwritten>>

\* Mutant: stay-awake is applied before the original is read.
ReadAfterApply(r) ==
  /\ Goto(Starter(r), "read", "apply")
  /\ setting' = Awake
  /\ mine' = [mine EXCEPT ![Starter(r)] =
       [known |-> TRUE, original |-> Awake, applied |-> FALSE, value |-> None]]
  /\ UNCHANGED <<lock, state, fields, process, child, stayAwake, sleep, stopping,
                 records, environment>>

ReadOriginal(r) ==
  \E ok \in BOOLEAN :
    /\ Works(ok)
    /\ Goto(Starter(r), "read", "apply")
    /\ mine' = [mine EXCEPT ![Starter(r)] =
         [known |-> ok, original |-> IF ok THEN setting ELSE None,
          applied |-> FALSE, value |-> None]]
    /\ UNCHANGED <<lock, state, fields, process, child, device, stopping, records>>

ApplyAwake(r) ==
  \E ok \in BOOLEAN :
    /\ Works(ok)
    /\ Goto(Starter(r), "apply", "confirm")
    /\ setting' = IF ok THEN Awake ELSE setting
    /\ mine' = [mine EXCEPT ![Starter(r)].applied = ok]
    /\ UNCHANGED <<lock, state, fields, process, child, stayAwake, sleep, stopping, records>>

\* The value is read back, and only now assigned to _device_stay_awake_state.
ConfirmAwake(r) ==
  \E ok \in BOOLEAN :
    /\ Works(ok)
    /\ Goto(Starter(r), "confirm", "configure")
    /\ stayAwake' = [mine[Starter(r)] EXCEPT !.value = IF ok THEN setting ELSE None]
    /\ mine' = [mine EXCEPT ![Starter(r)] = None]
    /\ UNCHANGED <<lock, state, fields, process, child, setting, sleep, stopping, records>>

WriteConfig(r) ==
  /\ Goto(Starter(r), "configure", "prepare")
  /\ config' = r
  /\ UNCHANGED <<lock, state, cur, process, child, mine, device, stopping, records, environment>>

\* Language setup or preflight blocks the run.
PrepareBlocked(r) ==
  /\ Goto(Starter(r), "prepare", "take")
  /\ state' = "error"
  /\ process' = None
  /\ WriteSummary(cur, "error")
  /\ UNCHANGED <<lock, fields, child, mine, device, stopping, shadow, raised>>

\* Any exception between enabling sleep prevention and the launch.
StartRaises(r) ==
  /\ Fault
  /\ pc[Starter(r)] \in {"read", "apply", "confirm", "configure", "prepare"}
  /\ pc' = [pc EXCEPT ![Starter(r)] = "take"]
  /\ mine' = [mine EXCEPT ![Starter(r)] = None]
  /\ state' = "error"
  /\ process' = None
  /\ UNCHANGED <<lock, fields, child, device, stopping, records>>

\* Mutant: the new child is kept in _execution only.
LaunchUnrecorded(r) ==
  /\ Goto(Starter(r), "prepare", "wire")
  /\ child' = [child EXCEPT ![r] = "alive"]
  /\ state' = "running"
  /\ UNCHANGED <<lock, fields, process, mine, device, stopping, records, environment>>

\* start_execution, and the assignments that follow it.
Launch(r) ==
  /\ Goto(Starter(r), "prepare", "wire")
  /\ child' = [child EXCEPT ![r] = "alive"]
  /\ process' = r
  /\ state' = "running"
  /\ UNCHANGED <<lock, fields, mine, device, stopping, records, environment>>

\* The child is launched and its tee thread cannot be started.
TeeFails(r) ==
  /\ ThreadsFail
  /\ Fault
  /\ Goto(Starter(r), "prepare", "take")
  /\ child' = [child EXCEPT ![r] = "alive"]
  /\ process' = None
  /\ state' = "error"
  /\ UNCHANGED <<lock, fields, mine, device, stopping, records>>

StartWaiter(r) ==
  /\ pc[Starter(r)] = "wire"
  /\ pc' = [pc EXCEPT ![Starter(r)] = "done", ![Waiter(r)] = "wait"]
  /\ lock' = None
  /\ UNCHANGED <<state, fields, process, child, mine, device, stopping, records, environment>>

\* _process and _state are reset only after the device has been restored.
WaiterFails(r) ==
  /\ ThreadsFail
  /\ Fault
  /\ Goto(Starter(r), "wire", "take")
  /\ UNCHANGED <<lock, state, fields, process, child, mine, device, stopping, records>>

\* Before any of that the log is closed; if this raises too, the start ends here
\* and leaves everything as it is: "running", a child nobody waits for, the
\* setting and the request.
AbandonRun(r) ==
  /\ ThreadsFail
  /\ Fault
  /\ Goto(Starter(r), "wire", "done")
  /\ leaked' = leaked \cup {r}
  /\ lock' = None
  /\ UNCHANGED <<state, fields, process, child, mine, device, stopping, shadow, summary, raised,
                 unwritten>>

-----------------------------------------------------------------------------
(* The child, and stop_run.                                                *)

ChildExits(r) ==
  /\ child[r] = "alive"
  /\ \E how \in Ended : child' = [child EXCEPT ![r] = how]
  /\ UNCHANGED <<lock, state, fields, process, pc, mine, device, stopping, records, environment>>

Stop ==
  /\ lock = None
  /\ process # None
  /\ child[process] = "alive"
  /\ state' = "stopped"
  /\ stopping' = stopping \cup {process}
  /\ UNCHANGED <<lock, fields, process, child, pc, mine, device, records, environment>>

\* terminate, and kill if the child does not go.
Terminate(r) ==
  /\ r \in stopping
  /\ stopping' = stopping \ {r}
  /\ child' = [child EXCEPT ![r] = IF @ = "alive" THEN "failed" ELSE @]
  /\ UNCHANGED <<lock, state, fields, process, pc, mine, device, records, environment>>

-----------------------------------------------------------------------------
(* _wait_for_process, and the restore that it shares with start_run.       *)

\* The state is read without the lock.
ChildSeen(r) ==
  /\ child[r] \in Ended
  /\ Goto(Waiter(r), "wait", IF state # "stopped" THEN "shadow" ELSE "take")
  /\ UNCHANGED <<lock, state, fields, process, child, mine, device, stopping, records, environment>>

WaitRaises(r) ==
  /\ Fault
  /\ child[r] \in Ended
  /\ Goto(Waiter(r), "wait", "take")
  /\ raised' = raised \cup {r}
  /\ UNCHANGED <<lock, state, fields, process, child, mine, device, stopping, shadow, summary,
                 history>>

\* Shadow validation takes its run from the manager's fields, whichever run they
\* name by now.
ShadowValidation(r) ==
  /\ Goto(Waiter(r), "shadow", "take")
  /\ shadow' = [shadow EXCEPT ![r] = IF cur \in WithShadow THEN config ELSE None]
  /\ UNCHANGED <<lock, state, fields, process, child, mine, device, stopping, summary,
                 raised, history, environment>>

TakeStayAwake(t) ==
  /\ Goto(t, "take", "clear")
  /\ mine' = [mine EXCEPT ![t] = stayAwake]
  /\ UNCHANGED <<lock, state, fields, process, child, device, stopping, records, environment>>

ClearStayAwake(t) ==
  /\ Goto(t, "clear", IF mine[t] = None THEN "disable" ELSE "check")
  /\ stayAwake' = None
  /\ UNCHANGED <<lock, state, fields, process, child, mine, setting, sleep, stopping,
                 records, environment>>

\* Restore only what this run applied, and only if it is still what is set.
Restorable(saved) ==
  /\ saved.applied
  /\ saved.known
  /\ saved.value \in {None, setting}

CheckSetting(t) ==
  \E ok \in BOOLEAN :
    /\ Works(ok)
    /\ Goto(t, "check", IF ok /\ Restorable(mine[t]) THEN "put" ELSE "disable")
    /\ UNCHANGED <<lock, state, fields, process, child, mine, device, stopping, records>>

PutOriginal(t) ==
  \E ok \in BOOLEAN :
    /\ Works(ok)
    /\ Goto(t, "put", "disable")
    /\ setting' = IF ok THEN mine[t].original ELSE setting
    /\ UNCHANGED <<lock, state, fields, process, child, mine, stayAwake, sleep, stopping, records>>

\* Mutant: a start that failed leaves its request for sleep prevention.
ReturnAwake(r) ==
  /\ Goto(Starter(r), "disable", "done")
  /\ mine' = [mine EXCEPT ![Starter(r)] = None]
  /\ IF process = r THEN state' = "error" /\ process' = None
                    ELSE UNCHANGED <<state, process>>
  /\ lock' = None
  /\ UNCHANGED <<fields, child, device, stopping, records, environment>>

\* The worker thread ends with the last request.
DisableSleepPrevention ==
  /\ requests' = IF requests = 0 THEN 0 ELSE requests - 1
  /\ keeper' = IF requests = 1 THEN "none" ELSE keeper

\* A failed start disables and returns; if its child was launched, the waiter
\* thread is what failed, and only now are _state and _process reset.
ReturnFailed(r) ==
  /\ Goto(Starter(r), "disable", "done")
  /\ DisableSleepPrevention
  /\ mine' = [mine EXCEPT ![Starter(r)] = None]
  /\ IF process = r THEN state' = "error" /\ process' = None
                    ELSE UNCHANGED <<state, process>>
  /\ lock' = None
  /\ UNCHANGED <<fields, child, stayAwake, setting, stopping, records, environment>>

WaiterDisables(r) ==
  /\ Goto(Waiter(r), "disable", "finish")
  /\ DisableSleepPrevention
  /\ mine' = [mine EXCEPT ![Waiter(r)] = None]
  /\ UNCHANGED <<lock, state, fields, process, child, stayAwake, setting, stopping,
                 records, environment>>

Outcome(r) == IF r \in raised \/ child[r] = "failed" THEN "error" ELSE "finished"

\* Mutant: the final state is written over a stop.
RecordOverStop(r) ==
  /\ state' = Outcome(r)
  /\ WriteSummary(cur, state')

\* Mutant: the summary is written before the final state is set.
SummaryBeforeState(r) ==
  /\ state' = IF state = "stopped" THEN "stopped" ELSE Outcome(r)
  /\ WriteSummary(cur, state)

\* Mutant: a child that fails is not recorded.
RecordSuccess(r) ==
  IF Outcome(r) = "error" THEN UNCHANGED <<state, summary, history, environment>>
  ELSE /\ state' = IF state = "stopped" THEN "stopped" ELSE Outcome(r)
       /\ WriteSummary(cur, state')

\* The final state and the summary, for whichever run the fields name.  The log
\* is closed in between; if this raises, the waiter ends without a summary.
RecordEnd(r) ==
  /\ state' = IF state = "stopped" THEN "stopped" ELSE Outcome(r)
  /\ WriteSummary(cur, state')

\* A waiter whose process is no longer the manager's only closes its log.
Finish(r) ==
  /\ lock = None
  /\ Goto(Waiter(r), "finish", "done")
  /\ IF process = r THEN RecordEnd(r) ELSE UNCHANGED <<state, summary, history, environment>>
  /\ UNCHANGED <<lock, fields, process, child, mine, device, stopping, shadow, raised>>

-----------------------------------------------------------------------------

\* Somebody else changes the setting on the device (external).
ChangeSetting ==
  /\ outside < MaxOutside
  /\ outside' = outside + 1
  /\ setting' \in Setting \ {setting}
  /\ UNCHANGED <<lock, state, fields, process, child, pc, mine, stayAwake, sleep, stopping,
                 records, faults, overlap>>

StartRun(r) ==
  \/ NoScenario(r)
  \/ OpenLog(r)
  \/ EnableSleepPrevention(r)
  \/ ReadOriginal(r)
  \/ ApplyAwake(r)
  \/ ConfirmAwake(r)
  \/ WriteConfig(r)
  \/ PrepareBlocked(r)
  \/ Launch(r)
  \/ StartWaiter(r)
  \/ ReturnFailed(r)

Raises(r) ==
  \/ OpenRaises(r)
  \/ KeeperFails(r)
  \/ StartRaises(r)
  \/ TeeFails(r)
  \/ WaiterFails(r)
  \/ AbandonRun(r)
  \/ WaitRaises(r)

Restore(t) == TakeStayAwake(t) \/ ClearStayAwake(t) \/ CheckSetting(t) \/ PutOriginal(t)

WaitForProcess(r) ==
  \/ ChildSeen(r)
  \/ ShadowValidation(r)
  \/ WaiterDisables(r)
  \/ Finish(r)

Next ==
  \/ \E r \in Run : Begin(r) \/ StartRun(r) \/ Raises(r) \/ ChildExits(r)
                    \/ Terminate(r) \/ WaitForProcess(r)
  \/ \E t \in Thread : Restore(t)
  \/ Stop
  \/ ChangeSetting

Spec == Init /\ [][Next]_vars

\* Threads that can run do run; starts, stops and the child owe nothing.
FairSpec ==
  /\ Spec
  /\ \A r \in Run : WF_vars(StartRun(r)) /\ WF_vars(WaitForProcess(r)) /\ WF_vars(Terminate(r))
  /\ \A t \in Thread : WF_vars(Restore(t))

-----------------------------------------------------------------------------
(* Properties.                                                             *)

\* Every variable has its type.
TypeOK ==
  /\ lock \in Run \cup {None}
  /\ state \in {"idle", "running"} \cup Terminal
  /\ cur \in Run \cup {None}
  /\ config \in Run \cup {None}
  /\ process \in Run \cup {None}
  /\ child \in [Run -> {"none", "alive"} \cup Ended]
  /\ pc \in [Thread -> PC]
  /\ mine \in [Thread -> Saved \cup {None}]
  /\ stayAwake \in Saved \cup {None}
  /\ setting \in Setting \cup {None}
  /\ requests \in Nat
  /\ keeper \in {"none", "running", "broken"}
  /\ stopping \subseteq Run
  /\ shadow \in [Run -> Run \cup {None}]
  /\ summary \in [Run -> Terminal \cup {None}]
  /\ raised \subseteq Run
  /\ leaked \subseteq Run
  /\ unwritten \subseteq Run
  /\ faults \in Nat
  /\ outside \in Nat
  /\ overlap \in BOOLEAN

\* A child that the manager looks after: its waiter is there, or is started next.
Attended(r) ==
  child[r] = "alive" /\ (pc[Starter(r)] = "wire" \/ pc[Waiter(r)] # "idle")

\* At most one child that is looked after drives the device, however starts,
\* stops and exits interleave and whatever fails (start_run's "a run is already
\* in progress").  A child whose tee or waiter could not be started is forgotten,
\* and may run beside the next.
OneChild == \A r1, r2 \in Run : Attended(r1) /\ Attended(r2) => r1 = r2

\* The requests for sleep prevention are those of the starts and waiters that
\* have yet to release theirs and of the starts that could not: none is released
\* twice, and none is lost but by a start whose keep-awake thread, or whose
\* waiter and log, failed.  The machine is kept awake exactly while there are
\* requests, unless such a thread failed once (enable_sleep_prevention,
\* disable_sleep_prevention, start_run).
HoldsRequest(t) == pc[t] \notin {"idle", "open", "enable", "finish", "done"}
SleepBalanced ==
  /\ requests = Cardinality({t \in Thread : HoldsRequest(t)}) + Cardinality(leaked)
  /\ keeper = "none" <=> requests = 0
  /\ keeper = "broken" => leaked # {}

\* A status of "running" always has a waiter that will still replace it, so it
\* cannot be left behind by a run that failed or was overtaken; only a start
\* that could not even close its log leaves it so (start_run, _wait_for_process).
RunningIsOwned ==
  lock = None /\ state = "running" =>
    /\ process # None
    /\ pc[Waiter(process)] \in {"idle", "done"} => process \in leaked

\* When the status says "finished", the summary of the run it names says so too,
\* unless it could not be written: a reader of the status never finds an older
\* one (_wait_for_process, _refresh_locked).
FinishedHasSummary ==
  lock = None /\ state = "finished" =>
    /\ cur # None
    /\ cur \notin unwritten => summary[cur] = "finished"

\* Until the next start, nothing replaces the state that a stop left
\* (stop_run, _wait_for_process).
StopIsFinal ==
  [][state = "stopped" /\ lock = None /\ lock' = None => state' = "stopped"]_vars

Quiet == ~Busy /\ stopping = {} /\ \A r \in Run : child[r] # "alive"

\* When nothing runs any more, no command failed, nobody else touched the
\* setting and no start overtook a waiter, the device no longer stays awake
\* (enable_device_stay_awake, restore_device_stay_awake).
RestoredUnlessOvertaken ==
  Quiet /\ ~overlap /\ faults = 0 /\ outside = 0 => setting # Awake

\* A child that has exited does not stay the manager's running one, unless its
\* start abandoned it (_wait_for_process).
RunSettles ==
  \A r \in Run : process = r /\ child[r] \in Ended ~>
                    process # r \/ state # "running" \/ r \in leaked

-----------------------------------------------------------------------------
(* The inductive invariant behind SleepBalanced, RunningIsOwned,           *)
(* FinishedHasSummary and StopIsFinal; ChildrenOK is the one behind        *)
(* OneChild.                                                               *)

StarterPC == PC \ {"wait", "shadow", "finish"}
WaiterPC == {"idle", "wait", "shadow", "take", "clear", "check", "put", "disable",
             "finish", "done"}

InCall(r) == pc[Starter(r)] \notin {"idle", "done"}

\* Who can be where, and that a call of start_run holds the lock.
PlacesOK ==
  \A r \in Run :
    /\ pc[Starter(r)] \in StarterPC
    /\ pc[Waiter(r)] \in WaiterPC
    /\ pc[Starter(r)] # "done" => pc[Waiter(r)] = "idle"
    /\ InCall(r) => lock = r
    /\ r \in leaked => pc[Starter(r)] = "done" /\ pc[Waiter(r)] = "idle"

\* A thread that looks at its copy of the stay-awake state has one.
LocalsOK ==
  /\ \A r \in Run : pc[Starter(r)] \in {"apply", "confirm"} => mine[Starter(r)] # None
  /\ \A t \in Thread : pc[t] \in {"check", "put"} => mine[t] # None

\* What the fields say while a start is past its first step, or has failed.
CallOK ==
  /\ process # None => cur # None
  /\ \A r \in Run :
       /\ pc[Starter(r)] \notin {"idle", "open", "done"} => cur = r
       /\ pc[Starter(r)] = "wire" => state = "running" /\ process = r
       /\ pc[Starter(r)] \in {"take", "clear", "check", "put", "disable"} =>
            \/ process = r /\ state = "running"
            \/ process = None /\ state = "error"

IInv ==
  /\ TypeOK
  /\ PlacesOK
  /\ LocalsOK
  /\ CallOK
  /\ RunningIsOwned
  /\ FinishedHasSummary
  /\ SleepBalanced

\* A child that is looked after is the manager's own, and there is none while a
\* start has not launched one yet.
ChildrenOK ==
  /\ \A r \in Run : Attended(r) => process = r
  /\ \A r, s \in Run : InCall(r) /\ pc[Starter(r)] # "wire" => ~Attended(s)

=============================================================================
