--------------------------- MODULE BatchRunManager ---------------------------
(***************************************************************************)
(* The batch manager of the QA backend (qa_frontend/backend/batch_runner.py)*)
(* start_batch takes a list of devices and leaves them to a worker thread, *)
(* which runs script_test.py on one device after another; stop_batch marks *)
(* the batch stopped, terminates the child it knows of and waits a while   *)
(* for the worker.  The manager has one set of fields: a worker that is    *)
(* still busy when the next batch starts goes on with the fields of that   *)
(* batch.  The fields are not set at once: a start that raises half-way    *)
(* leaves the new id and state beside the old list of devices.             *)
(***************************************************************************)
EXTENDS Naturals, FiniteSets

CONSTANTS
  Batch,      \* accepted calls of start_batch, each with a worker of its own
  N,          \* how many devices a batch has
  Full,       \* the batches in mode "full", which end with candidates
  Qualified,  \* the devices whose artifacts pass every candidate check
  None,       \* an absent value
  MaxOverlap, \* bound: starts while a worker is still busy
  MaxFault,   \* bound: starts, setups, launches, waits and closings that raise
  Unwritable, \* the batches whose summary file cannot always be written
  Dies        \* whether a worker may fail to start, or die outside its handlers

Device == 1..N

ASSUME BatchAssumption ==
  /\ N \in Nat \ {0}
  /\ Full \subseteq Batch
  /\ Qualified \subseteq Device
  /\ None \notin Batch
  /\ None \notin Batch \X Device
  /\ MaxOverlap \in Nat
  /\ MaxFault \in Nat
  /\ Unwritable \subseteq Batch
  /\ Dies \in BOOLEAN

VARIABLES
  batch,    \* _batch_id: the latest batch, also one whose start raised
  list,     \* _devices: the batch whose device dicts these are
  state,    \* _state
  stopReq,  \* _stop_requested
  index,    \* _current_device_idx, counted from 1
  dev,      \* the device dicts of each batch (_devices is dev[list])
  exec,     \* _current_execution: a worker and its device, or None
  pc,       \* where each worker is
  info,     \* each worker's device_info: a batch and a device
  child,    \* what became of each worker's latest child
  stops,    \* executions a stop_batch has read and not yet terminated
  ended,    \* each worker's copy of the devices, taken when it ended its batch
  made,     \* how many of these devices it has looked at for candidates
  cand,     \* the devices with an automatic candidate
  review,   \* the batch id each batch's reviews were given
  summary,  \* batch_summary.json of each batch
  faults,
  overlaps,   \* history: how many batches started while a worker was busy
  unwritten,  \* history: batches whose latest summary was not written
  twice,      \* history: devices counted again because closing them raised
  lost        \* history: batches whose start raised or whose worker died

candidates == <<ended, made, cand, review>>
history == <<overlaps, twice, lost>>
file == <<summary, unwritten>>
vars == <<batch, list, state, stopReq, index, dev, exec, pc, info, child, stops,
          candidates, file, faults, history>>

DevState == {"pending", "running", "passed", "failed", "stopped"}
Ended == {"ok", "failed"}
Execution == [worker : Batch, device : Batch \X Device]
PC == {"idle", "top", "setup", "check", "launch", "register", "wait", "record",
       "close", "mark", "leave", "next", "generate", "review", "done"}
Holding == {"setup", "check", "launch", "register", "wait", "record", "close", "mark", "leave"}
AllPending == [i \in Device |-> "pending"]
Summary == [state : {"running", "stopped", "finished"}, list : Batch \cup {None},
            dev : [Device -> DevState]]
EndedBatch == [batch : Batch, dev : [Device -> DevState]]

Init ==
  /\ batch = None
  /\ list = None
  /\ state = "idle"
  /\ stopReq = FALSE
  /\ index = 0
  /\ dev = [b \in Batch |-> AllPending]
  /\ exec = None
  /\ pc = [w \in Batch |-> "idle"]
  /\ info = [w \in Batch |-> None]
  /\ child = [w \in Batch |-> "none"]
  /\ stops = {}
  /\ ended = [w \in Batch |-> None]
  /\ made = [w \in Batch |-> 0]
  /\ cand = {}
  /\ review = [b \in Batch |-> None]
  /\ summary = [b \in Batch |-> None]
  /\ faults = 0
  /\ overlaps = 0
  /\ unwritten = {}
  /\ twice = {}
  /\ lost = {}

Goto(w, here, there) ==
  /\ pc[w] = here
  /\ pc' = [pc EXCEPT ![w] = there]

Fault == faults < MaxFault /\ faults' = faults + 1

\* What a summary says of a list of devices; there is none before the first.
Saying(s, l, d) == [state |-> s, list |-> l, dev |-> IF l = None THEN AllPending ELSE d[l]]

\* Mutant: the summary is written before the device is changed.
WriteSummaryStale ==
  \/ /\ summary' = [summary EXCEPT ![batch'] = Saying(state', list', dev)]
     /\ unwritten' = unwritten \ {batch'}
  \/ /\ batch' \in Unwritable
     /\ unwritten' = unwritten \cup {batch'}
     /\ UNCHANGED summary

\* The fields as they are now, for the id that they have; a write that fails is
\* reported on the console only.
WriteSummary ==
  \/ /\ summary' = [summary EXCEPT ![batch'] = Saying(state', list', dev')]
     /\ unwritten' = unwritten \ {batch'}
  \/ /\ batch' \in Unwritable
     /\ unwritten' = unwritten \cup {batch'}
     /\ UNCHANGED summary

SetDevice(d, s) == dev' = [dev EXCEPT ![d[1]][d[2]] = s]

-----------------------------------------------------------------------------
(* start_batch and stop_batch.                                             *)

Working == \E w \in Batch : pc[w] \notin {"idle", "done"}

\* Only the state is looked at: a worker that has not seen its stop may be busy.
MayStart(b) ==
  /\ state # "running"
  /\ pc[b] = "idle"
  /\ IF Working THEN overlaps < MaxOverlap /\ overlaps' = overlaps + 1 ELSE UNCHANGED overlaps

Begin(b, there) ==
  /\ MayStart(b)
  /\ pc' = [pc EXCEPT ![b] = there]
  /\ batch' = b
  /\ list' = b
  /\ state' = "running"
  /\ stopReq' = FALSE
  /\ exec' = None
  /\ index' = 1
  /\ dev' = [dev EXCEPT ![b] = AllPending]
  /\ UNCHANGED <<info, child, stops, candidates, twice>>
  /\ WriteSummary

StartBatch(b) == Begin(b, "top") /\ UNCHANGED <<faults, lost>>

\* The worker thread cannot be started: the fields say "running" all the same.
NoWorker(b) ==
  /\ Dies
  /\ Fault
  /\ Begin(b, "done")
  /\ lost' = lost \cup {b}

\* The language mode, the batch's directory or its provenance raises: the id, the
\* state and the flag are set, the list is still the old one, and no summary is
\* written and no worker started.
BeginFails(b) ==
  /\ Fault
  /\ MayStart(b)
  /\ pc' = [pc EXCEPT ![b] = "done"]
  /\ batch' = b
  /\ state' = "running"
  /\ stopReq' = FALSE
  /\ exec' = None
  /\ unwritten' = unwritten \cup {b}
  /\ lost' = lost \cup {b}
  /\ UNCHANGED <<list, index, dev, info, child, stops, candidates, summary, twice>>

StopBatch ==
  /\ state = "running"
  /\ stopReq' = TRUE
  /\ state' = "stopped"
  /\ stops' = IF exec = None THEN stops ELSE stops \cup {exec}
  /\ UNCHANGED <<batch, list, index, dev, exec, pc, info, child, candidates, faults, history>>
  /\ WriteSummary

\* terminate, and kill if the child does not go; nothing if it has exited.
Terminate(x) ==
  /\ x \in stops
  /\ stops' = stops \ {x}
  /\ child' = [child EXCEPT ![x.worker] =
       IF info[x.worker] = x.device /\ @ = "alive" THEN "failed" ELSE @]
  /\ UNCHANGED <<batch, list, state, stopReq, index, dev, exec, pc, info, candidates, file,
                 faults, history>>

ChildExits(w) ==
  /\ child[w] = "alive"
  /\ \E how \in Ended : child' = [child EXCEPT ![w] = how]
  /\ UNCHANGED <<batch, list, state, stopReq, index, dev, exec, pc, info, stops, candidates,
                 file, faults, history>>

-----------------------------------------------------------------------------
(* _run_loop: one device.                                                  *)

\* _mark_device_stopped_locked: the device that the worker holds, and the
\* fields, which may be about another batch by now.
MarkStopped(w) ==
  /\ SetDevice(info[w], "stopped")
  /\ state' = "stopped"
  /\ index' = N + 1
  /\ WriteSummary

\* Mutant: the index is left where it is, and the device is due again.
RecordAndStay(w, s) ==
  /\ SetDevice(info[w], s)
  /\ UNCHANGED <<state, index>>
  /\ WriteSummary

\* Mutant: what became of the child is taken for the state of the device.
RecordRaw(w, s) ==
  /\ SetDevice(info[w], child[w])
  /\ index' = index + 1
  /\ UNCHANGED state
  /\ WriteSummary

\* The device has ended and the next one is due.
RecordEnd(w, s) ==
  /\ SetDevice(info[w], s)
  /\ index' = index + 1
  /\ UNCHANGED state
  /\ WriteSummary

TakeDevice(w) ==
  /\ ~stopReq
  /\ index <= N
  /\ Goto(w, "top", "setup")
  /\ info' = [info EXCEPT ![w] = <<list, index>>]
  /\ SetDevice(<<list, index>>, "running")
  /\ UNCHANGED <<batch, list, state, stopReq, index, exec, child, stops, candidates, faults,
                 history>>
  /\ WriteSummary

\* Everything before the launch worked; the stop flag is read on the way.
SetupDone(w) ==
  /\ Goto(w, "setup", IF stopReq THEN "mark" ELSE "check")
  /\ UNCHANGED <<batch, list, state, stopReq, index, dev, exec, info, child, stops, candidates,
                 file, faults, history>>

CheckStop(w) ==
  /\ Goto(w, "check", IF stopReq THEN "mark" ELSE "launch")
  /\ UNCHANGED <<batch, list, state, stopReq, index, dev, exec, info, child, stops, candidates,
                 file, faults, history>>

\* A stop was seen before the launch: the device is marked in a step of its own.
MarkAndLeave(w) ==
  /\ Goto(w, "mark", "leave")
  /\ UNCHANGED <<batch, list, stopReq, exec, info, child, stops, candidates, faults,
                 history>>
  /\ MarkStopped(w)

\* The device's summary is written, its setting restored and its log closed.
Leave(w) ==
  /\ Goto(w, "leave", "done")
  /\ UNCHANGED <<batch, list, state, stopReq, index, dev, exec, info, child, stops, candidates,
                 file, faults, history>>

\* start_execution; the execution is published in a step of its own.
Launch(w) ==
  /\ Goto(w, "launch", "register")
  /\ child' = [child EXCEPT ![w] = "alive"]
  /\ UNCHANGED <<batch, list, state, stopReq, index, dev, exec, info, stops, candidates,
                 file, faults, history>>

Register(w) ==
  /\ Goto(w, "register", "wait")
  /\ exec' = [worker |-> w, device |-> info[w]]
  /\ UNCHANGED <<batch, list, state, stopReq, index, dev, info, child, stops, candidates,
                 file, faults, history>>

OwnExecution(w) == exec = [worker |-> w, device |-> info[w]]

\* Mutant: the child is not waited for.
ChildNotSeen(w) ==
  /\ Goto(w, "wait", "record")
  /\ exec' = IF OwnExecution(w) THEN None ELSE exec
  /\ UNCHANGED <<batch, list, state, stopReq, index, dev, info, child, stops, candidates,
                 file, faults, history>>

ChildSeen(w) ==
  /\ child[w] \in Ended
  /\ Goto(w, "wait", "record")
  /\ exec' = IF OwnExecution(w) THEN None ELSE exec
  /\ UNCHANGED <<batch, list, state, stopReq, index, dev, info, child, stops, candidates,
                 file, faults, history>>

RecordDevice(w) ==
  /\ Goto(w, "record", "close")
  /\ UNCHANGED <<batch, list, stopReq, exec, info, child, stops, candidates, faults,
                 history>>
  /\ IF stopReq THEN MarkStopped(w)
                ELSE RecordEnd(w, IF child[w] = "ok" THEN "passed" ELSE "failed")

\* The device's summary is written, its setting restored and its log closed.
CloseDevice(w) ==
  /\ Goto(w, "close", "next")
  /\ UNCHANGED <<batch, list, state, stopReq, index, dev, exec, info, child, stops, candidates,
                 file, faults, history>>

\* The setup, the launch, the wait or the closing raises: the handlers record
\* the device, whether it has been recorded before or not.  A child whose output
\* cannot be read is left to itself, as if it had not been launched.
DeviceRaises(w) ==
  /\ Fault
  /\ \/ \E here \in Holding \ {"check", "register", "wait"} : Goto(w, here, "next")
     \/ child[w] \in Ended /\ Goto(w, "wait", "next")
  /\ exec' = IF OwnExecution(w) THEN None ELSE exec
  /\ twice' = IF pc[w] = "close" /\ ~stopReq THEN twice \cup {info[w]} ELSE twice
  /\ UNCHANGED <<batch, list, stopReq, info, child, stops, candidates, overlaps, lost>>
  /\ IF stopReq THEN MarkStopped(w) ELSE RecordEnd(w, "failed")

\* The device's directory or log cannot be opened, where no handler is in place
\* yet; or a handler itself raises, before or after it has recorded the device;
\* or the candidates or reviews raise.
WorkerDies(w) ==
  /\ Dies
  /\ Fault
  /\ \/ \E here \in (Holding \ {"check", "register", "wait"}) \cup {"next", "generate", "review"} :
          Goto(w, here, "done")
     \/ child[w] \in Ended /\ Goto(w, "wait", "done")
  /\ exec' = IF OwnExecution(w) THEN None ELSE exec
  /\ lost' = lost \cup {w}
  /\ UNCHANGED <<batch, list, state, stopReq, index, dev, info, child, stops, candidates,
                 file, overlaps, twice>>

\* Mutant: the worker ends with its first device.
NextDeviceLeft(w) ==
  /\ Goto(w, "next", "done")
  /\ UNCHANGED <<batch, list, state, stopReq, index, dev, exec, info, child, stops, candidates,
                 file, faults, history>>

NextDevice(w) ==
  /\ Goto(w, "next", IF stopReq THEN "done" ELSE "top")
  /\ UNCHANGED <<batch, list, state, stopReq, index, dev, exec, info, child, stops, candidates,
                 file, faults, history>>

-----------------------------------------------------------------------------
(* _run_loop: the end of the batch, and its automatic candidates.          *)

StopAtTop(w) ==
  /\ stopReq
  /\ Goto(w, "top", "done")
  /\ state' = "stopped"
  /\ UNCHANGED <<batch, list, stopReq, index, dev, exec, info, child, stops, candidates, faults,
                 history>>
  /\ WriteSummary

\* Mutant: the last device is not counted.
EndBatchEarly(w) ==
  /\ ~stopReq
  /\ index >= N
  /\ state' = IF state = "stopped" THEN "stopped" ELSE "finished"
  /\ Goto(w, "top", IF state' = "finished" /\ batch \in Full THEN "generate" ELSE "done")
  /\ ended' = [ended EXCEPT ![w] = [batch |-> list, dev |-> dev[list]]]
  /\ UNCHANGED <<batch, list, stopReq, index, dev, exec, info, child, stops, made, cand, review,
                 faults, history>>
  /\ WriteSummary

EndBatch(w) ==
  /\ ~stopReq
  /\ index > N
  /\ state' = IF state = "stopped" THEN "stopped" ELSE "finished"
  /\ Goto(w, "top", IF state' = "finished" /\ batch \in Full THEN "generate" ELSE "done")
  /\ ended' = [ended EXCEPT ![w] = [batch |-> list, dev |-> dev[list]]]
  /\ UNCHANGED <<batch, list, stopReq, index, dev, exec, info, child, stops, made, cand, review,
                 faults, history>>
  /\ WriteSummary

\* Mutant: the device's own result is not looked at.
EarnsAnyway(w, i) == state = "finished" /\ batch \in Full /\ i \in Qualified

\* State and mode are the manager's as they are now, the device is the copy.
Earns(w, i) ==
  /\ state = "finished"
  /\ batch \in Full
  /\ ended[w].dev[i] = "passed"
  /\ i \in Qualified

\* _auto_generate_full_candidates: one device, without the lock.
Generate(w) ==
  LET i == made[w] + 1 IN
  /\ pc[w] = "generate"
  /\ IF i > N
     THEN Goto(w, "generate", "review") /\ UNCHANGED <<made, cand>>
     ELSE /\ made' = [made EXCEPT ![w] = i]
          /\ cand' = IF Earns(w, i) THEN cand \cup {<<ended[w].batch, i>>} ELSE cand
          /\ UNCHANGED pc
  /\ UNCHANGED <<batch, list, state, stopReq, index, dev, exec, info, child, stops, ended, review,
                 file, faults, history>>

\* auto_generate_review is given the batch id and the state that the fields have
\* by now, and writes nothing unless they are those of a finished full batch.
Review(w) ==
  /\ Goto(w, "review", "done")
  /\ review' = IF state = "finished" /\ batch \in Full
               THEN [review EXCEPT ![ended[w].batch] = batch] ELSE review
  /\ UNCHANGED <<batch, list, state, stopReq, index, dev, exec, info, child, stops, ended, made,
                 cand, file, faults, history>>

-----------------------------------------------------------------------------

Worker(w) ==
  \/ TakeDevice(w)
  \/ SetupDone(w)
  \/ CheckStop(w)
  \/ MarkAndLeave(w)
  \/ Leave(w)
  \/ Launch(w)
  \/ Register(w)
  \/ ChildSeen(w)
  \/ RecordDevice(w)
  \/ CloseDevice(w)
  \/ NextDevice(w)
  \/ StopAtTop(w)
  \/ EndBatch(w)
  \/ Generate(w)
  \/ Review(w)

Next ==
  \/ \E w \in Batch : StartBatch(w) \/ NoWorker(w) \/ BeginFails(w) \/ Worker(w)
                      \/ DeviceRaises(w) \/ WorkerDies(w) \/ ChildExits(w)
  \/ \E x \in stops : Terminate(x)
  \/ StopBatch

Spec == Init /\ [][Next]_vars

\* Threads that can run do run, a stop terminates what it has read, and the
\* script comes to its end by itself.
FairSpec ==
  /\ Spec
  /\ \A w \in Batch : WF_vars(Worker(w)) /\ WF_vars(ChildExits(w))
  /\ WF_vars(\E x \in stops : Terminate(x))

-----------------------------------------------------------------------------
(* Properties.                                                             *)

\* Every variable has its type.
TypeOK ==
  /\ batch \in Batch \cup {None}
  /\ list \in Batch \cup {None}
  /\ state \in {"idle", "running", "stopped", "finished"}
  /\ stopReq \in BOOLEAN
  /\ index \in Nat
  /\ dev \in [Batch -> [Device -> DevState]]
  /\ exec \in Execution \cup {None}
  /\ pc \in [Batch -> PC]
  /\ info \in [Batch -> (Batch \X Device) \cup {None}]
  /\ child \in [Batch -> {"none", "alive"} \cup Ended]
  /\ stops \subseteq Execution
  /\ ended \in [Batch -> EndedBatch \cup {None}]
  /\ made \in [Batch -> 0..N]
  /\ cand \subseteq Batch \X Device
  /\ review \in [Batch -> Batch \cup {None}]
  /\ summary \in [Batch -> Summary \cup {None}]
  /\ faults \in Nat
  /\ overlaps \in Nat
  /\ unwritten \subseteq Batch
  /\ twice \subseteq Batch \X Device
  /\ lost \subseteq Batch

\* What the guide says: devices are run one after another, never two at once
\* (docs/multi-device-architecture.md).
OneChild == \A w1, w2 \in Batch : child[w1] = "alive" /\ child[w2] = "alive" => w1 = w2

\* What is left of it when batches overlap: no more children are being waited for
\* than one and the starts that came while a worker was busy (_run_loop).
ChildrenBounded == Cardinality({w \in Batch : child[w] = "alive"}) <= 1 + overlaps

\* Until batches overlap, a device that is passed over is behind one that was
\* counted again because closing it raised (_run_loop).
PassedOver(i) == i > 1 /\ <<list, i - 1>> \in twice

\* What the guide says, every device of the list is run, but for those: until
\* batches overlap, a batch that says it is finished has ended every other device
\* (docs/multi-device-architecture.md).
FinishedRanAll ==
  overlaps = 0 /\ state = "finished" =>
    \A i \in Device : dev[list][i] \in {"passed", "failed"} \/ PassedOver(i)

\* However starts, stops, workers and raising calls follow each other, the state,
\* the list and what became of its devices are in batch_summary.json as a status
\* call returns them, unless the write of the latest change failed or the start
\* raised (_write_summary_locked, start_batch).
SummaryIsCurrent ==
  batch # None /\ batch \notin unwritten => summary[batch] = Saying(state, list, dev)

\* Until the next start, nothing replaces the state that a stop left, and
\* nothing but a start makes a batch run again (stop_batch, _run_loop).
StopIsFinal ==
  [][state = "stopped" /\ batch' = batch => state' = "stopped"]_vars

\* A status of "running" has the batch's own worker behind it, with its loop before
\* it, unless the start raised or that worker died; the worker of another batch
\* that goes on with these fields does not change that (start_batch, _run_loop).
RunningHasWorker ==
  state = "running" =>
    pc[batch] \notin {"idle", "leave", "generate", "review", "done"} \/ batch \in lost

\* Every worker comes to its end, stopped or not.
WorkersEnd == \A w \in Batch : pc[w] = "top" ~> pc[w] = "done"

-----------------------------------------------------------------------------
(* IInv is the inductive invariant behind SummaryIsCurrent, StopIsFinal,   *)
(* RunningHasWorker and ChildrenBounded.  AloneOK and TurnOK hold until    *)
(* batches overlap; with IInv they give FinishedRanAll.                    *)

Busy == {w \in Batch : pc[w] \notin {"idle", "done"}}
AtWork == Holding \ {"close", "leave"}

\* What a thread's place says of its locals, and that a batch that has the
\* fields has been started.
PlacesOK ==
  /\ batch = None <=> state = "idle"
  /\ batch # None => pc[batch] # "idle"
  /\ list # None => index >= 1 /\ pc[list] # "idle" /\ batch # None
  /\ \A w \in Batch :
       /\ w \in Busy => list # None
       /\ pc[w] \in Holding => info[w] # None
       /\ pc[w] \in {"generate", "review"} => ended[w] \in EndedBatch
       /\ child[w] = "alive" => pc[w] \in {"register", "wait"}

\* A stop flag goes with the state it was set with.
FlagOK == stopReq => state = "stopped"

\* Every busy worker but one began while another was busy.
BusyOK == IsFiniteSet(Busy) /\ Cardinality(Busy) <= 1 + overlaps

IInv ==
  /\ TypeOK
  /\ PlacesOK
  /\ FlagOK
  /\ BusyOK
  /\ RunningHasWorker
  /\ SummaryIsCurrent

\* One worker at a time, on a device of the batch that has the fields; what it
\* copied at the end of its batch is still what the fields say.
AloneOK ==
  \A w \in Batch :
    /\ pc[w] \notin {"idle", "done"} => w = batch /\ w = list
    /\ pc[w] \in Holding => info[w][1] = list
    /\ pc[w] \in {"generate", "review"} => ended[w] = [batch |-> list, dev |-> dev[list]]

\* The worker is at the device that the index says, or has just ended it, and those
\* before it have ended, but for those passed over.
TurnOK ==
  /\ \A w \in Batch :
       /\ pc[w] \in AtWork => info[w] = <<list, index>> /\ index <= N
       /\ pc[w] = "close" =>
            \/ state = "stopped" /\ dev[list][info[w][2]] = "stopped"
            \/ dev[list][info[w][2]] \in {"passed", "failed"} /\ index = info[w][2] + 1
       /\ pc[w] = "leave" => state = "stopped" /\ dev[list][info[w][2]] = "stopped"
  /\ state = "finished" => batch = list /\ index > N /\ pc[list] \in {"generate", "review", "done"}
  /\ \A b \in Batch, j \in Device : <<b, j>> \in twice => pc[b] # "idle"
  /\ list # None /\ batch = list /\ state # "stopped" =>
       /\ \A i \in Device : i < index => dev[list][i] \in {"passed", "failed"} \/ PassedOver(i)
       /\ \A j \in Device : <<list, j>> \in twice => j + 2 <= index

=============================================================================
